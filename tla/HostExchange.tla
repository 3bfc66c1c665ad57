---------------------------- MODULE HostExchange ----------------------------
(***************************************************************************)
(* What the exchange promises LinuxCNC, without buffers, locks or cores:   *)
(* a request is answered once; one that is acknowledged or answered with   *)
(* data has taken effect, as a whole and at one moment, and one answered   *)
(* with an empty payload never will; and every step of a joint is one that *)
(* the command in force asks for, or its predecessor's during the tick in  *)
(* which it was replaced.  A command asked for while the machine is being  *)
(* reset may be damaged: a joint it moves may then move forward instead.   *)
(* Module DataExchange implements it.                                      *)
(***************************************************************************)
EXTENDS Integers

CONSTANTS
  Joints,
  Ordered  \* TRUE: a reset disables the joints before it touches a frequency

VARIABLES
  request, applied, answer,  \* the request at hand, whether it took effect
  force, prior, late,        \* the commands that may move a joint
  resetting,                 \* the machine is being reset
  count                      \* the position of each joint

hostVars == <<request, applied, answer, force, prior, late, resetting, count>>

\* A command: the way each joint is to move, 0 if not at all.
NoCommand == [way |-> [j \in Joints |-> 0], raced |-> FALSE]
NoRequest == [header |-> "none", cmd |-> NoCommand]
HostCommands == [way : [Joints -> -1 .. 1], raced : BOOLEAN]
Requests == [header : {"read", "writ", "othr"}, cmd : HostCommands]

HostInit ==
  /\ request = NoRequest /\ applied = FALSE /\ answer = "none"
  /\ force = NoCommand /\ prior = NoCommand /\ late = FALSE
  /\ resetting = FALSE
  /\ count = [j \in Joints |-> 0]

Ask ==
  /\ request = NoRequest
  /\ request' \in Requests /\ (request'.cmd.raced => resetting)
  /\ applied' = FALSE /\ answer' = "none"
  /\ UNCHANGED <<force, prior, late, resetting, count>>

\* l: a base tick is under way, which may still obey the command replaced.
TakeEffect(l) ==
  /\ request.header \in {"read", "writ"} /\ ~applied
  /\ applied' = TRUE
  /\ late' = l
  /\ IF request.header = "writ" THEN force' = request.cmd /\ prior' = force
                                ELSE UNCHANGED <<force, prior>>
  /\ UNCHANGED <<request, answer, resetting, count>>

Answer ==
  /\ request # NoRequest
  /\ request' = NoRequest /\ applied' = FALSE
  /\ answer' = CASE ~applied -> "empty"
                 [] applied /\ request.header = "writ" -> "ackn"
                 [] OTHER -> "data"
  /\ UNCHANGED <<force, prior, late, resetting, count>>

Damaged(c) == c.raced \/ (~Ordered /\ resetting)

StepJoint(j, c) ==
  /\ c = force \/ (late /\ c = prior)
  /\ c.way[j] # 0
  /\ \E way \in {c.way[j]} \cup (IF Damaged(c) THEN {1} ELSE {}) :
       count' = [count EXCEPT ![j] = count[j] + way]
  /\ UNCHANGED <<request, applied, answer, force, prior, late, resetting>>

TickOver ==
  /\ late' = FALSE
  /\ UNCHANGED <<request, applied, answer, force, prior, resetting, count>>

ResetTurns ==
  /\ resetting' = ~resetting
  /\ UNCHANGED <<request, applied, answer, force, prior, late, count>>

HostNext ==
  \/ Ask
  \/ \E l \in BOOLEAN : TakeEffect(l)
  \/ Answer
  \/ \E j \in Joints : \E c \in {force, prior} : StepJoint(j, c)
  \/ TickOver
  \/ ResetTurns

HostSpec == HostInit /\ [][HostNext]_hostVars
=============================================================================
