----------------------------- MODULE ProfileLog -----------------------------
(***************************************************************************)
(* What the profiler promises to the program it profiles, without its      *)
(* threads and channels: one log of markers and samples.  A marker is in   *)
(* the log as soon as add_marker returns, and serialize reads the whole    *)
(* log at one instant between its call and its return.                     *)
(*                                                                         *)
(* The threads of a profile are read less strictly: those that were named  *)
(* when serialize was called, and any of those that were named since.      *)
(***************************************************************************)
EXTENDS Naturals, Sequences, Functions

CONSTANT Threads

VARIABLES
  named,        \* the threads that have registered
  added,        \* added[t]: how many markers t has added
  sampled,      \* whose samples were taken, in their order
  expired,      \* the entries of the log that are too old to be shown
  call,         \* serialize: "idle", "listing", "reading" or "returning"
  namedAtCall,  \* the threads named when it was last called
  read,         \* what it has read of the log and not yet put in a profile
  profile       \* what it returns or has returned last

vars == <<named, added, sampled, expired, call, namedAtCall, read, profile>>

\* The log's markers, in the order in which each thread added them.
Log == UNION {{[tid |-> t, marker |-> n] : n \in 1 .. added[t]} : t \in Threads}

MarkersIn(entries, t) == {e.marker : e \in {x \in entries : x.tid = t}}

NothingRead == [listed |-> <<>>, log |-> {}, samples |-> 0]

Init ==
  /\ named = {}
  /\ added = [t \in Threads |-> 0]
  /\ sampled = <<>>
  /\ expired = {}
  /\ call = "idle"
  /\ namedAtCall = {}
  /\ read = NothingRead
  /\ profile = <<>>

-----------------------------------------------------------------------------

callVars == <<call, namedAtCall, read, profile>>

Register(t) ==
  /\ named' = named \cup {t}
  /\ UNCHANGED <<added, sampled, expired, callVars>>

AddMarker(t) ==
  /\ t \in named
  /\ added' = [added EXCEPT ![t] = @ + 1]
  /\ UNCHANGED <<named, sampled, expired, callVars>>

Sample(t) ==
  /\ t \in named
  /\ sampled' = Append(sampled, t)
  /\ UNCHANGED <<named, added, expired, callVars>>

Expire ==
  /\ expired \subseteq expired'
  /\ expired' \subseteq Log
  /\ UNCHANGED <<named, added, sampled, callVars>>

Call ==
  /\ call = "idle"
  /\ call' = "listing"
  /\ namedAtCall' = named
  /\ UNCHANGED <<named, added, sampled, expired, read, profile>>

\* The instant at which the log is read.
Read ==
  /\ call = "listing"
  /\ call' = "reading"
  /\ namedAtCall \subseteq Range(read'.listed)
  /\ Range(read'.listed) \subseteq named
  /\ IsInjective(read'.listed)
  /\ read' = [listed |-> read'.listed, log |-> Log, samples |-> Len(sampled)]
  /\ UNCHANGED <<named, added, sampled, expired, namedAtCall, profile>>

\* What was read becomes a profile, except for what has expired by then.
Answer ==
  /\ call = "reading"
  /\ call' = "returning"
  /\ profile' = [i \in DOMAIN read.listed |->
       LET t == read.listed[i]
       IN  [tid |-> t,
            markers |-> MarkersIn(read.log \ expired, t),
            samples |-> {n \in 1 .. read.samples : sampled[n] = t}]]
  /\ read' = NothingRead
  /\ UNCHANGED <<named, added, sampled, expired, namedAtCall>>

Return ==
  /\ call = "returning"
  /\ call' = "idle"
  /\ UNCHANGED <<named, added, sampled, expired, namedAtCall, read, profile>>

Next ==
  \/ \E t \in Threads : Register(t) \/ AddMarker(t) \/ Sample(t)
  \/ Expire
  \/ Call
  \/ Read
  \/ Answer
  \/ Return

Spec == Init /\ [][Next]_vars
=============================================================================
