------------------------------- MODULE ExternalPLC -------------------------------
(***************************************************************************)
(* examples/external_plc.py: a PLC that polls the devices and stops others *)
(* when one has tripped.  Two of its tasks matter here.  poll() reads the  *)
(* registers of a device in several requests; logic_step() goes through    *)
(* the matrix, and waits for an answer after each command.  The one runs   *)
(* on whenever the other waits.                                            *)
(*                                                                         *)
(* Of a source the model keeps what the PLC reads: TRIPPED, and whether    *)
(* its snapshot generation is another one.  Of a device that is stopped it *)
(* keeps whether it answers; a restore, which raises the generation of all *)
(* devices, is noticed on the sources.  The polls are independent: that a  *)
(* round of them waits for its last answer is left out.                    *)
(***************************************************************************)
EXTENDS Integers, Sequences, SequencesExt

CONSTANTS
    Order,             \* the sources of TRIP_MATRIX, in its order
    Matrix             \* TRIP_MATRIX: the devices each of them stops, in order

Sources == ToSet(Order)
Targets == UNION {ToSet(Matrix[s]) : s \in Sources}
Orders  == UNION {{s} \X ToSet(Matrix[s]) : s \in Sources}

ASSUME ExternalPLCAssumption == IsInjective(Order) /\ DOMAIN Matrix = Sources

VARIABLES
    tripped,           \* the sources that are TRIPPED
    unread,            \* the sources restored since their inputs were read
    link,              \* what the PLC knows of each source
    reached,           \* the targets that are online
    fired,             \* the sources whose edge it remembers
    logic,             \* where logic_step is
    replies            \* history: how the commands of the present trips were answered last

plcVars == <<tripped, unread, link, reached, fired, logic, replies>>

\* A device that is busy, or obeys somebody else, answers with an exception.
Answers == {"taken", "refused", "none"}

LinkState ==
    [online  : BOOLEAN,
     tripped : BOOLEAN,       \* discretes[TRIPPED]
     changed : BOOLEAN,       \* SNAPSHOT_GENERATION is not last_generation
     polling : BOOLEAN]       \* the inputs are read, the discretes are not

NewLink == [online |-> FALSE, tripped |-> FALSE, changed |-> FALSE, polling |-> FALSE]

\* at = 0: asleep; at = n: source n is the next to be looked at.
PlcInit ==
    /\ tripped = {} /\ unread = {} /\ reached = {} /\ fired = {}
    /\ replies = [order \in Orders |-> "none"]
    /\ link = [s \in Sources |-> NewLink]
    /\ logic = [at |-> 0, todo |-> <<>>]

Forgotten(s) == [order \in Orders |-> IF order[1] = s THEN "none" ELSE replies[order]]

-----------------------------------------------------------------------------
(* The plant.  A trip stays until somebody resets it or a restore undoes   *)
(* it.                                                                     *)

TripSource(s) ==
    /\ s \notin tripped
    /\ tripped' = tripped \cup {s} /\ replies' = Forgotten(s)
    /\ UNCHANGED <<unread, link, reached, fired, logic>>

ResetSource(s) ==
    /\ s \in tripped
    /\ tripped' = tripped \ {s}
    /\ UNCHANGED <<unread, link, reached, fired, logic, replies>>

RestorePlant(restored) ==
    /\ tripped' = restored
    /\ unread' = Sources
    /\ UNCHANGED <<link, reached, fired, logic, replies>>

-----------------------------------------------------------------------------
(* poll(): input registers, then discrete inputs.                          *)

PollInputs(s) ==
    /\ ~link[s].polling
    /\ link' = [link EXCEPT ![s].changed = @ \/ s \in unread, ![s].polling = TRUE]
    /\ unread' = unread \ {s}
    /\ UNCHANGED <<tripped, reached, fired, logic, replies>>

(* An exception answer leaves the old discretes and the link online.       *)
PollDiscretes(s, answered) ==
    /\ link[s].polling
    /\ link' = [link EXCEPT ![s].tripped = IF answered THEN s \in tripped ELSE @,
                            ![s].online = TRUE, ![s].polling = FALSE]
    /\ UNCHANGED <<tripped, unread, reached, fired, logic, replies>>

(* A request fails: the device is offline until a poll succeeds.           *)
PollFails(s) ==
    /\ link' = [link EXCEPT ![s].online = FALSE, ![s].polling = FALSE]
    /\ UNCHANGED <<tripped, unread, reached, fired, logic, replies>>

PollTarget(t, answered) ==
    /\ reached' = IF answered THEN reached \cup {t} ELSE reached \ {t}
    /\ UNCHANGED <<tripped, unread, link, fired, logic, replies>>

-----------------------------------------------------------------------------
(* logic_step(): a changed generation of a link that is online clears the  *)
(* edges; then each source of the matrix is looked at when the commands of *)
(* the one before it are done.                                             *)

Changed(s) == link[s].online /\ link[s].changed

StartLogic ==
    /\ logic.at = 0 /\ logic.todo = <<>>
    /\ link' = [s \in Sources |-> [link[s] EXCEPT !.changed = @ /\ ~link[s].online]]
    /\ fired' = IF \E s \in Sources : Changed(s) THEN {} ELSE fired
    /\ logic' = [logic EXCEPT !.at = 1]
    /\ UNCHANGED <<tripped, unread, reached, replies>>

SeenTripped(s) == link[s].online /\ link[s].tripped

Ordered(s) == [n \in DOMAIN Matrix[s] |-> <<s, Matrix[s][n]>>]

(* The rising edge of TRIPPED gives the commands of the source.            *)
LookAt ==
    /\ logic.at > 0 /\ logic.todo = <<>>
    /\ LET s == Order[logic.at]
       IN  /\ logic' = [at |-> IF logic.at = Len(Order) THEN 0 ELSE logic.at + 1,
                        todo |-> IF SeenTripped(s) /\ s \notin fired THEN Ordered(s) ELSE <<>>]
           /\ fired' = IF SeenTripped(s) THEN fired \cup {s} ELSE fired \ {s}
    /\ UNCHANGED <<tripped, unread, link, reached, replies>>

\* Mutant: a command that gets no answer ends logic_step with its exception.
CommandEscapes(answer) ==
    /\ logic.todo # <<>>
    /\ LET order == Head(logic.todo)
           asked == order[2] \in reached
       IN  /\ replies' = IF asked THEN [replies EXCEPT ![order] = answer] ELSE replies
           /\ reached' = IF asked /\ answer = "none" THEN reached \ {order[2]} ELSE reached
           /\ logic' = [logic EXCEPT !.todo = IF asked /\ answer = "none" THEN <<>> ELSE Tail(@)]
    /\ UNCHANGED <<tripped, unread, link, fired>>

(* pulse_coil: no command is repeated.  No answer takes the link down, an  *)
(* exception does not; a device whose link is down is not asked.           *)
Command(answer) ==
    /\ logic.todo # <<>>
    /\ LET order == Head(logic.todo)
           asked == order[2] \in reached
       IN  /\ replies' = IF asked THEN [replies EXCEPT ![order] = answer] ELSE replies
           /\ reached' = IF asked /\ answer = "none" THEN reached \ {order[2]} ELSE reached
           /\ logic' = [logic EXCEPT !.todo = Tail(@)]
    /\ UNCHANGED <<tripped, unread, link, fired>>

PlcNext ==
    \/ \E s \in Sources : TripSource(s) \/ ResetSource(s)
    \/ \E restored \in SUBSET tripped : RestorePlant(restored)
    \/ \E s \in Sources : PollInputs(s) \/ PollFails(s)
    \/ \E s \in Sources, answered \in BOOLEAN : PollDiscretes(s, answered)
    \/ \E t \in Targets, answered \in BOOLEAN : PollTarget(t, answered)
    \/ StartLogic \/ LookAt
    \/ \E answer \in Answers : Command(answer)

(* The tasks of the program go on, each request ends, and a source answers *)
(* the read of its discrete inputs again and again.                       *)
PlcFairness ==
    /\ \A s \in Sources : /\ WF_plcVars(PollInputs(s))
                          /\ SF_plcVars(PollDiscretes(s, TRUE))
    /\ WF_plcVars(StartLogic) /\ WF_plcVars(LookAt)
    /\ WF_plcVars(\E answer \in Answers : Command(answer))

PlcSpec == PlcInit /\ [][PlcNext]_plcVars /\ PlcFairness

-----------------------------------------------------------------------------
PlcTypeOK ==
    /\ tripped \subseteq Sources /\ unread \subseteq Sources /\ fired \subseteq Sources
    /\ link \in [Sources -> LinkState]
    /\ reached \subseteq Targets /\ replies \in [Orders -> Answers]
    /\ logic.at \in 0 .. Len(Order) /\ ToSet(logic.todo) \subseteq Orders

(***************************************************************************)
(* A trip whose edge is not remembered from an earlier one commands each   *)
(* of its targets, whatever happens to the other commands: it is stopped   *)
(* unless it answers with an exception itself, its own link or that of the *)
(* source goes down, or the trip ends.                                     *)
(***************************************************************************)
TripReachesTargets ==
    \A order \in Orders :
        order[1] \in tripped \ fired ~>
            \/ replies[order] # "none"
            \/ order[1] \notin tripped
            \/ ~link[order[1]].online
            \/ order[2] \notin reached
===============================================================================
