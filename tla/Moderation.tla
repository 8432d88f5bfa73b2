----------------------------- MODULE Moderation -----------------------------
(* What staff and members do to one another: DomainBlocks, Reports and       *)
(* Interactions together.  They share no state, so their steps interleave    *)
(* freely and nothing is lost by exploring them side by side: `area` says    *)
(* which one moves.                                                          *)
EXTENDS DomainBlocks

CONSTANTS
  Posts, Person, Peers, Filings, MaxReports, MaxClashes,  \* of Reports
  Members, Author, Remote, None, Named, MaxBegun          \* of Interactions

VARIABLES
  local, row, signed, post, standing, told, job, met2,
  state, writer, text, tags, likes, notes, held4, blocks, shut, req4, liked,
  lapses, begun,
  area

\* The post is a member's of this instance, and nobody is `None`.
ASSUME InteractionsAssumption ==
  /\ Author \in Members \ Remote /\ None \notin Members
  /\ Named \subseteq SUBSET Members /\ MaxBegun \in Nat

R == INSTANCE Reports WITH met <- met2
I == INSTANCE Interactions WITH req <- req4, held <- held4

reports == <<local, row, signed, post, standing, told, job, met2>>
interactions == <<state, writer, text, tags, likes, notes, held4, blocks, shut,
                  req4, liked, lapses, begun>>

\* What the variables of Interactions are while another area moves.
InteractionsRest ==
  /\ state = None /\ writer = None /\ text = None /\ tags = None
  /\ likes = None /\ notes = None /\ held4 = None /\ blocks = None
  /\ shut = None /\ req4 = None /\ liked = None /\ lapses = None
  /\ begun = None

ModerationInit ==
  /\ Init
  /\ R!Init
  /\ area \in {"blocks", "reports", "interactions"}
  /\ area # "reports" => local
  /\ IF area = "interactions" THEN I!Init ELSE InteractionsRest

ModerationNext ==
  \/ area = "blocks" /\ Next /\ UNCHANGED <<reports, interactions, area>>
  \/ area = "reports" /\ R!Next /\ UNCHANGED <<vars, interactions, area>>
  \/ area = "interactions" /\ I!Next /\ UNCHANGED <<vars, reports, area>>

ModerationSpec ==
  ModerationInit /\ [][ModerationNext]_<<vars, reports, interactions, area>>

-----------------------------------------------------------------------------
\* Every module's types.
AllTyped ==
  /\ TypeOK
  /\ R!TypeOK
  /\ area = "interactions" => I!TypeOK

\* The properties of the two, stated there: the staff hears of each pile once,
PileToldOnce == R!PileToldOnce

\* no decision is taken again,
DecisionIsFinal == R!DecisionIsFinal

\* what was done to a member is on the reports,
Explained == R!Explained

\* a ban leaves no post,
BannedHasNoPosts == R!BannedHasNoPosts

\* a decision keeps its note,
NotesAreKept == R!NotesAreKept

\* and whoever a text names, or somebody answers or likes, is told of it once.
NamedAreReached == area = "interactions" => I!NamedAreReached
=============================================================================
