------------------------------- MODULE Startup -------------------------------
(***************************************************************************)
(* launch (src/startup.rs): a process finds out from its arguments whether *)
(* it is the app or the profiler service.  The app spawns its own          *)
(* executable as the service, the two exchange an IPC sender over a        *)
(* one-shot server and then a Hello, and the app waits for the service to  *)
(* end.  Any process can be killed at any time.                            *)
(*                                                                         *)
(* The token of a one-shot server is the process that has it; nobody else  *)
(* guesses it.  The channels are the ipc_channel crate's: they fail when   *)
(* the other end is gone, but a one-shot server cannot know who will       *)
(* connect, and its accept waits.                                          *)
(***************************************************************************)
EXTENDS SequencesExt, FiniteSets

CONSTANTS
  Processes,    \* the first one is the user's, the others there are to be spawned
  First,
  Flag,         \* "--profiler-service"
  Exe,          \* the path of the executable
  Other,        \* any other argument
  None,
  MaxArgs       \* bound: arguments the user gives

ASSUME StartupAssumption ==
  /\ First \in Processes
  /\ {Flag, Exe, Other, None} \cap Processes = {}
  /\ Cardinality({Flag, Exe, Other, None}) = 4
  /\ MaxArgs \in Nat

VARIABLES
  pc,       \* pc[p]: where p is in its main function, or how it ended
  args,     \* args[p]: what env::args yields
  child,    \* child[p]: the service an app has spawned
  inbox     \* inbox[p]: the process whose message is there for p to receive

vars == <<pc, args, child, inbox>>

Argument == Processes \cup {Flag, Exe, Other}

AppLabels == {"new_server", "spawn", "accept", "send_hello", "wait"}
ServiceLabels == {"token", "connect", "send_sender", "recv_hello"}
Endings == {"exited", "panicked", "killed"}

Ended(p) == pc[p] \in Endings

TypeOK ==
  /\ pc \in [Processes -> {"absent", "launch"} \cup AppLabels \cup ServiceLabels \cup Endings]
  /\ args \in [Processes -> Seq(Argument)]
  /\ child \in [Processes -> Processes \cup {None}]
  /\ inbox \in [Processes -> Processes \cup {None}]
  /\ \A p \in Processes : inbox[p] # None => pc[p] \in {"accept", "recv_hello"}

Init ==
  /\ pc = [p \in Processes |-> IF p = First THEN "launch" ELSE "absent"]
  /\ \E given \in BoundedSeq({Flag, Other}, MaxArgs) :
       args = [p \in Processes |-> IF p = First THEN <<Exe>> \o given ELSE <<>>]
  /\ child = [p \in Processes |-> None]
  /\ inbox = [p \in Processes |-> None]

-----------------------------------------------------------------------------

Goto(p, label) == pc' = [pc EXCEPT ![p] = label]

\* A faulty variant: a message outlives the process it was for.
EndsUnread(p, ending) ==
  /\ Goto(p, ending)
  /\ UNCHANGED <<args, child, inbox>>

\* The process is gone, and its ends of all channels with it.
Ends(p, ending) ==
  /\ Goto(p, ending)
  /\ inbox' = [inbox EXCEPT ![p] = None]
  /\ UNCHANGED <<args, child>>

\* A faulty variant: only the first argument tells the mode.
IsServiceByFirst(p) == args[p] # <<>> /\ args[p][1] = Flag

\* deduce_startup_mode.
IsService(p) == Contains(args[p], Flag)

\* get_token_from_args: the argument after the first flag.
TokenOf(p) ==
  LET at == {i \in 1 .. Len(args[p]) - 1 : args[p][i] = Flag}
  IN IF at = {} THEN None
     ELSE args[p][(CHOOSE i \in at : \A j \in at : i <= j) + 1]

Launch(p) ==
  /\ pc[p] = "launch"
  /\ Goto(p, IF IsService(p) THEN "token" ELSE "new_server")
  /\ UNCHANGED <<args, child, inbox>>

-----------------------------------------------------------------------------
(* launch_profiler_service, whose every unwrap and expect can end it.      *)

GetToken(p) ==
  /\ pc[p] = "token"
  /\ IF TokenOf(p) = None
     THEN Ends(p, "panicked")
     ELSE Goto(p, "connect") /\ UNCHANGED <<args, child, inbox>>

\* The process whose one-shot server is waiting under the token.
Listens(token) == token \in Processes /\ pc[token] \in {"spawn", "accept"}

Connect(p) ==
  /\ pc[p] = "connect"
  /\ IF Listens(TokenOf(p))
     THEN Goto(p, "send_sender") /\ UNCHANGED <<args, child, inbox>>
     ELSE Ends(p, "panicked")

\* Its own sender for the Hello goes to the app.
SendSender(p) ==
  /\ pc[p] = "send_sender"
  /\ IF Listens(TokenOf(p))
     THEN /\ inbox' = [inbox EXCEPT ![TokenOf(p)] = p]
          /\ Goto(p, "recv_hello")
          /\ UNCHANGED <<args, child>>
     ELSE Ends(p, "panicked")

\* The app, or the message on its way to it, has the only sender.
ReceiveHello(p) ==
  /\ pc[p] = "recv_hello"
  /\ \/ inbox[p] # None /\ Ends(p, "exited")
     \/ inbox[p] = None /\ Ended(TokenOf(p)) /\ Ends(p, "panicked")

-----------------------------------------------------------------------------
(* launch_app.                                                             *)

NewOneShotServer(p) ==
  /\ pc[p] = "new_server"
  /\ Goto(p, "spawn")
  /\ UNCHANGED <<args, child, inbox>>

\* There is an executable to spawn, and a process to be had, or there is not.
SpawnService(p) ==
  /\ pc[p] = "spawn"
  /\ \/ \E q \in Processes :
          /\ pc[q] = "absent"
          /\ pc' = [pc EXCEPT ![p] = "accept", ![q] = "launch"]
          /\ args' = [args EXCEPT ![q] = <<Exe, Flag, p>>]
          /\ child' = [child EXCEPT ![p] = q]
          /\ UNCHANGED inbox
     \/ Ends(p, "panicked")

Accept(p) ==
  /\ pc[p] = "accept"
  /\ inbox[p] # None
  /\ Goto(p, "send_hello")
  /\ inbox' = [inbox EXCEPT ![p] = None]
  /\ UNCHANGED <<args, child>>

\* A faulty variant: no Hello.
SkipHello(p) ==
  /\ pc[p] = "send_hello"
  /\ Goto(p, "wait")
  /\ UNCHANGED <<args, child, inbox>>

SendHello(p) ==
  /\ pc[p] = "send_hello"
  /\ IF Ended(child[p])
     THEN Ends(p, "panicked")
     ELSE /\ inbox' = [inbox EXCEPT ![child[p]] = p]
          /\ Goto(p, "wait")
          /\ UNCHANGED <<args, child>>

\* However the service ended, the app is content.
Wait(p) ==
  /\ pc[p] = "wait"
  /\ Ended(child[p])
  /\ Ends(p, "exited")

Kill(p) ==
  /\ pc[p] # "absent"
  /\ ~Ended(p)
  /\ Ends(p, "killed")

Step(p) ==
  \/ Launch(p)
  \/ GetToken(p)
  \/ Connect(p)
  \/ SendSender(p)
  \/ ReceiveHello(p)
  \/ NewOneShotServer(p)
  \/ SpawnService(p)
  \/ Accept(p)
  \/ SendHello(p)
  \/ Wait(p)

Next == \E p \in Processes : Step(p) \/ Kill(p)

\* The processes are scheduled; nobody has to be killed.
Spec == Init /\ [][Next]_vars /\ \A p \in Processes : WF_vars(Step(p))

-----------------------------------------------------------------------------

\* A spawned process is a service and finds its app's token, so that it spawns no
\* process in turn; and an app, if it is not killed, is there as long as its service.
ServiceOfItsApp ==
  \A p \in Processes : child[p] # None =>
    /\ pc[child[p]] \notin AppLabels
    /\ pc[child[p]] \in ServiceLabels => TokenOf(child[p]) = p
    /\ pc[p] = "exited" => Ended(child[p])

\* The one way to wait for ever: the service ended before it sent its sender, and
\* accept does not know.
AcceptsNobody(p) == pc[p] = "accept" /\ inbox[p] = None /\ Ended(child[p])

\* Every process that is started ends, whichever are killed, but for an app whose
\* service is gone before it has connected.
StartupEnds ==
  \A p \in Processes : pc[p] # "absent" ~> Ended(p) \/ AcceptsNobody(p)
=============================================================================
