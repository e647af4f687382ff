----------------------------- MODULE WithServer -----------------------------
(***************************************************************************)
(* with_server.py: servers are started one after another, each when the    *)
(* port of the one before answers, a command is run, and the servers are   *)
(* stopped.                                                                *)
(*                                                                         *)
(* A server is a shell's command.  If the shell runs several, the server   *)
(* is its child, which does not end with it.                               *)
(*                                                                         *)
(* A definition whose comment starts with "Mutant:" is a faulty variant of *)
(* the definition below it; no specification uses it.                      *)
(***************************************************************************)
EXTENDS Naturals

CONSTANTS
  Servers,      \* number of servers, each with a port of its own
  MaxUses       \* bound: times the script is used

ASSUME WithServerAssumption == Servers \in Nat \ {0} /\ MaxUses \in Nat
Server == 1 .. Servers

VARIABLES
  step,      \* "off", "start", "wait", "command" or "stop"
  next,      \* the server to start or wait for, or to stop
  started,   \* how many processes server_processes has
  compound,  \* servers whose shell runs several commands
  alive,     \* servers alive, as <<use, server>>
  holder,    \* the use whose server holds the port, 0 if it is free
  uses,      \* times the script was used
  cut        \* history: uses that ended before they had stopped all

serverVars == <<step, next, started, compound, alive, holder, uses, cut>>
-----------------------------------------------------------------------------
ServerInit ==
  /\ step = "off" /\ next = 1 /\ started = 0 /\ compound \in SUBSET Server
  /\ alive = {} /\ holder = [i \in Server |-> 0] /\ uses = 0 /\ cut = {}

UseServers ==
  /\ step = "off" /\ uses < MaxUses
  /\ step' = "start" /\ next' = 1 /\ started' = 0 /\ uses' = uses + 1
  /\ UNCHANGED <<compound, alive, holder, cut>>

StartServer ==
  /\ step = "start" /\ step' = "wait"
  /\ alive' = alive \cup {<<uses, next>>} /\ started' = next
  /\ UNCHANGED <<next, compound, holder, uses, cut>>

(* The server comes up, unless its port is taken, with or without the      *)
(* script that started it.                                                 *)
Bind(s) ==
  /\ s \in alive /\ holder[s[2]] = 0
  /\ holder' = [holder EXCEPT ![s[2]] = s[1]]
  /\ UNCHANGED <<step, next, started, compound, alive, uses, cut>>

Freed(s) == [holder EXCEPT ![s[2]] = IF @ = s[1] THEN 0 ELSE @]

(* A server ends on its own.                                               *)
ServerEnds(s) ==
  /\ s \in alive
  /\ alive' = alive \ {s} /\ holder' = Freed(s)
  /\ UNCHANGED <<step, next, started, compound, uses, cut>>

(* is_server_ready: whoever answers at the port.                           *)
ServerReady ==
  /\ step = "wait" /\ holder[next] # 0
  /\ step' = IF next = Servers THEN "command" ELSE "start"
  /\ next' = IF next = Servers THEN 1 ELSE next + 1
  /\ UNCHANGED <<started, compound, alive, holder, uses, cut>>

(* Mutant: a server that does not come up ends the script.                 *)
AfterFailureEnds == "off"
AfterFailure == "stop"

ServerTimesOut ==
  /\ step = "wait" /\ holder[next] = 0
  /\ step' = AfterFailure /\ next' = 1
  /\ UNCHANGED <<started, compound, alive, holder, uses, cut>>

CommandEnds ==
  /\ step = "command" /\ step' = "stop"
  /\ UNCHANGED <<next, started, compound, alive, holder, uses, cut>>

(* An interrupt leads to the finally clause, too; one that comes before    *)
(* the process is noted leaves it out of what is stopped.                  *)
Interrupt ==
  /\ step \in {"start", "wait", "command"} /\ step' = "stop" /\ next' = 1
  /\ \/ UNCHANGED <<alive, cut>>
     \/ step = "start" /\ alive' = alive \cup {<<uses, next>>} /\ cut' = cut \cup {uses}
  /\ UNCHANGED <<started, compound, holder, uses>>

(* The finally clause: terminate or kill reaches the shell only, whose     *)
(* child stays if it has one by now.                                       *)
StopServer ==
  /\ step = "stop" /\ next <= started /\ next' = next + 1
  /\ \/ next \in compound /\ UNCHANGED <<alive, holder>>
     \/ alive' = alive \ {<<uses, next>>} /\ holder' = Freed(<<uses, next>>)
  /\ UNCHANGED <<step, started, compound, uses, cut>>

AllStopped ==
  /\ step = "stop" /\ next > started
  /\ step' = "off" /\ next' = 1
  /\ UNCHANGED <<started, compound, alive, holder, uses, cut>>

(* The script is killed, or interrupted in its finally clause.             *)
CutOff ==
  /\ step # "off" /\ step' = "off" /\ next' = 1
  /\ cut' = cut \cup {uses}
  /\ UNCHANGED <<started, compound, alive, holder, uses>>

ServerNext ==
  \/ UseServers \/ StartServer \/ ServerReady \/ ServerTimesOut \/ CommandEnds
  \/ Interrupt \/ StopServer \/ AllStopped \/ CutOff
  \/ \E s \in alive : Bind(s) \/ ServerEnds(s)
-----------------------------------------------------------------------------
(* The types of the tool's variables.                                      *)
ServersTyped ==
  /\ step \in {"off", "start", "wait", "command", "stop"}
  /\ next \in 1 .. Servers + 1 /\ started \in 0 .. Servers /\ uses \in 0 .. MaxUses
  /\ step \in {"start", "wait"} => next <= Servers
  /\ compound \subseteq Server /\ alive \subseteq (1 .. uses) \X Server
  /\ holder \in [Server -> 0 .. uses] /\ cut \subseteq 1 .. uses

(* A server that is alive, or holds its port, belongs to the use of the    *)
(* script that is under way: when the script has ended, whatever went      *)
(* wrong, it has stopped its servers.  Left behind, for the next use to    *)
(* take for its own, are those of a compound command, and of a script that *)
(* was killed, or interrupted in its finally clause or just as it started  *)
(* a server.                                                               *)
ServersStopped ==
  /\ \A s \in alive : (s[1] = uses /\ step # "off") \/ s[2] \in compound \/ s[1] \in cut
  /\ \A i \in Server : holder[i] # 0 => <<holder[i], i>> \in alive
=============================================================================
