---------------------------- MODULE StartupProofs ----------------------------
(***************************************************************************)
(* Theorems about Startup, for any number of processes and any arguments   *)
(* of the user.                                                            *)
(***************************************************************************)
EXTENDS Startup, FiniteSetTheorems, WellFoundedInduction, TLAPS

\* What launch_app passes on the command line is what the two loops over env::args
\* find there: the flag, and behind it the app's token.
LEMMA ChildArguments ==
  ASSUME NEW p \in Processes, NEW q, args[q] = <<Exe, Flag, p>>
  PROVE  IsService(q) /\ TokenOf(q) = p
<1> DEFINE at == {i \in 1 .. Len(args[q]) - 1 : args[q][i] = Flag}
<1>1. /\ Len(args[q]) = 3
      /\ args[q][1] = Exe /\ args[q][2] = Flag /\ args[q][3] = p
  OBVIOUS
<1>2. Exe # Flag
  <2> SUFFICES ASSUME Exe = Flag PROVE FALSE
    OBVIOUS
  <2>1. {Flag, Exe, Other, None} = {Flag, Other, None}
    OBVIOUS
  <2>2. Cardinality({Flag, Other, None}) <= 3
    <3>1. Cardinality({}) = 0 /\ IsFiniteSet({})
      BY FS_EmptySet
    <3>2. IsFiniteSet({None}) /\ Cardinality({None}) = 1
      BY FS_Singleton
    <3>3. IsFiniteSet({None} \cup {Other}) /\ Cardinality({None} \cup {Other}) \in 1 .. 2
      BY <3>2, FS_AddElement
    <3>4. Cardinality(({None} \cup {Other}) \cup {Flag}) \in 1 .. 3
      BY <3>3, FS_AddElement
    <3>5. ({None} \cup {Other}) \cup {Flag} = {Flag, Other, None}
      OBVIOUS
    <3> QED
      BY <3>4, <3>5
  <2> QED
    BY <2>1, <2>2, StartupAssumption
<1>3. at = {2}
  BY <1>1, <1>2
<1>4. (CHOOSE i \in at : \A j \in at : i <= j) = 2
  BY <1>3
<1>5. TokenOf(q) = p
  BY <1>1, <1>3, <1>4 DEF TokenOf
<1>6. IsService(q)
  BY <1>1 DEF IsService, Contains
<1> QED
  BY <1>5, <1>6

-----------------------------------------------------------------------------

\* A process with a child is an app past its spawn, its child was given the app's token,
\* and is on its way through the service.
Spawned ==
  /\ pc \in [Processes -> {"absent", "launch"} \cup AppLabels \cup ServiceLabels \cup Endings]
  /\ args \in [Processes -> Seq(Argument)]
  /\ child \in [Processes -> Processes \cup {None}]
  /\ \A p \in Processes : child[p] # None =>
       /\ pc[p] \in {"accept", "send_hello", "wait"} \cup Endings
       /\ args[child[p]] = <<Exe, Flag, p>>
       /\ pc[child[p]] \in {"launch"} \cup ServiceLabels \cup Endings
       /\ pc[p] = "exited" => Ended(child[p])

\* A process that ends stays what it was for its app and its service.
LEMMA EndKeeps ==
  ASSUME Spawned, NEW p \in Processes, NEW ending \in Endings, Ends(p, ending),
         pc[p] # "absent",
         child[p] # None /\ ending = "exited" => Ended(child[p])
  PROVE  Spawned'
BY DEF Ends, Goto, Spawned, Ended, Endings

\* A process that goes on does, if it does not change what it is.
LEMMA GotoKeeps ==
  ASSUME Spawned, NEW p \in Processes, NEW label, Goto(p, label), UNCHANGED <<args, child>>,
         pc[p] \notin Endings,
         \/ pc[p] \in {"launch"} \cup ServiceLabels /\ label \in ServiceLabels
         \/ pc[p] \in AppLabels /\ label \in {"accept", "send_hello", "wait"}
         \/ pc[p] \in {"launch", "new_server"} /\ label \in AppLabels /\ ~IsService(p)
         \/ pc[p] = "new_server" /\ label \in AppLabels
  PROVE  Spawned'
<1>1. ASSUME NEW q \in Processes, child[q] = p PROVE IsService(p)
  BY <1>1, StartupAssumption, ChildArguments DEF Spawned
<1>2. label \in AppLabels \cup ServiceLabels
  BY DEF AppLabels
<1> QED
  BY <1>1, <1>2, StartupAssumption
  DEF Goto, Spawned, Ended, Endings, AppLabels, ServiceLabels

\* Every step of every process, and the end of one that is killed, keeps it.
LEMMA SpawnedStep == Spawned /\ [Next]_vars => Spawned'
<1> SUFFICES ASSUME Spawned, [Next]_vars PROVE Spawned'
  OBVIOUS
<1>1. ASSUME NEW p \in Processes, Launch(p) PROVE Spawned'
  BY <1>1, GotoKeeps DEF Launch, ServiceLabels, AppLabels, Endings
<1>2. ASSUME NEW p \in Processes, GetToken(p) PROVE Spawned'
  BY <1>2, GotoKeeps, EndKeeps DEF GetToken, ServiceLabels, Endings, Spawned
<1>3. ASSUME NEW p \in Processes, Connect(p) PROVE Spawned'
  BY <1>3, GotoKeeps, EndKeeps DEF Connect, ServiceLabels, Endings, Spawned
<1>4. ASSUME NEW p \in Processes, SendSender(p) PROVE Spawned'
  BY <1>4, GotoKeeps, EndKeeps DEF SendSender, ServiceLabels, Endings, Spawned
<1>5. ASSUME NEW p \in Processes, ReceiveHello(p) PROVE Spawned'
  <2>1. child[p] = None
    BY <1>5 DEF ReceiveHello, Spawned, Endings
  <2> QED
    BY <1>5, <2>1, EndKeeps DEF ReceiveHello, Endings
<1>6. ASSUME NEW p \in Processes, NewOneShotServer(p) PROVE Spawned'
  BY <1>6, GotoKeeps DEF NewOneShotServer, AppLabels, Endings
<1>7. ASSUME NEW p \in Processes, SpawnService(p) PROVE Spawned'
  <2>1. ASSUME Ends(p, "panicked") PROVE Spawned'
    BY <1>7, <2>1, EndKeeps DEF SpawnService, Endings
  <2>2. ASSUME NEW q \in Processes, pc[q] = "absent",
               pc' = [pc EXCEPT ![p] = "accept", ![q] = "launch"],
               args' = [args EXCEPT ![q] = <<Exe, Flag, p>>],
               child' = [child EXCEPT ![p] = q]
        PROVE  Spawned'
    <3>1. pc[p] = "spawn" /\ p # q
      BY <1>7, <2>2 DEF SpawnService
    <3>2. child[p] = None /\ child[q] = None
      BY <2>2, <3>1 DEF Spawned, Endings
    <3>3. \A r \in Processes : child[r] # q /\ child[r] # p
      BY <2>2, <3>1, StartupAssumption DEF Spawned, ServiceLabels, Endings
    <3>4. <<Exe, Flag, p>> \in Seq(Argument)
      BY DEF Argument
    <3>5. /\ pc' \in [Processes -> {"absent", "launch"} \cup AppLabels \cup ServiceLabels \cup Endings]
          /\ args' \in [Processes -> Seq(Argument)]
          /\ child' \in [Processes -> Processes \cup {None}]
      BY <2>2, <3>4 DEF Spawned, AppLabels
    <3>6. ASSUME NEW r \in Processes, child'[r] # None
          PROVE  /\ pc'[r] \in {"accept", "send_hello", "wait"} \cup Endings
                 /\ args'[child'[r]] = <<Exe, Flag, r>>
                 /\ pc'[child'[r]] \in {"launch"} \cup ServiceLabels \cup Endings
                 /\ pc'[r] = "exited" => pc'[child'[r]] \in Endings
      <4>1. CASE r = p
        <5>1. child'[p] = q /\ pc'[p] = "accept" /\ pc'[q] = "launch"
          BY <2>2, <3>1 DEF Spawned
        <5>2. args'[q] = <<Exe, Flag, p>>
          BY <2>2 DEF Spawned
        <5> QED
          BY <4>1, <5>1, <5>2
      <4>2. CASE r # p
        <5>1. /\ child'[r] = child[r] /\ child[r] # p /\ child[r] # q
              /\ child[r] \in Processes
          BY <2>2, <3>3, <3>6, <4>2 DEF Spawned
        <5>2. r # q
          BY <3>2, <3>6, <5>1
        <5>3. pc'[r] = pc[r] /\ pc'[child[r]] = pc[child[r]] /\ args'[child[r]] = args[child[r]]
          BY <2>2, <4>2, <5>1, <5>2 DEF Spawned
        <5> QED
          <6>1. child[r] # None
            BY <3>6, <5>1
          <6>2. /\ pc[r] \in {"accept", "send_hello", "wait"} \cup Endings
                /\ args[child[r]] = <<Exe, Flag, r>>
                /\ pc[child[r]] \in {"launch"} \cup ServiceLabels \cup Endings
                /\ pc[r] = "exited" => pc[child[r]] \in Endings
            BY <6>1 DEF Spawned, Ended
          <6> QED
            BY <5>1, <5>3, <6>2
      <4> QED
        BY <4>1, <4>2
    <3> QED
      BY <3>5, <3>6 DEF Spawned, Ended
  <2> QED
    BY <1>7, <2>1, <2>2 DEF SpawnService
<1>8. ASSUME NEW p \in Processes, Accept(p) PROVE Spawned'
  BY <1>8, GotoKeeps DEF Accept, AppLabels, Endings
<1>9. ASSUME NEW p \in Processes, SendHello(p) PROVE Spawned'
  BY <1>9, GotoKeeps, EndKeeps DEF SendHello, AppLabels, Endings
<1>10. ASSUME NEW p \in Processes, Wait(p) PROVE Spawned'
  BY <1>10, EndKeeps DEF Wait, Endings
<1>11. ASSUME NEW p \in Processes, Kill(p) PROVE Spawned'
  BY <1>11, EndKeeps DEF Kill, Endings
<1>12. CASE UNCHANGED vars
  BY <1>12 DEF vars, Spawned, Ended
<1> QED
  BY <1>1, <1>2, <1>3, <1>4, <1>5, <1>6, <1>7, <1>8, <1>9, <1>10, <1>11, <1>12
  DEF Next, Step

\* The user's arguments are a sequence.
LEMMA GivenArguments ==
  ASSUME NEW given \in BoundedSeq({Flag, Other}, MaxArgs)
  PROVE  given \in Seq({Flag, Other})
<1>1. PICK m \in 0 .. MaxArgs : given \in [1 .. m -> {Flag, Other}]
  BY DEF BoundedSeq, SeqOf
<1> QED
  BY <1>1

\* Nobody has been spawned when the user's process starts.
LEMMA SpawnedInit == Init => Spawned
<1> SUFFICES ASSUME Init PROVE Spawned
  OBVIOUS
<1>1. PICK given \in BoundedSeq({Flag, Other}, MaxArgs) :
        args = [p \in Processes |-> IF p = First THEN <<Exe>> \o given ELSE <<>>]
  BY DEF Init
<1>2. given \in Seq({Flag, Other})
  BY <1>1, GivenArguments
<1>3. <<Exe>> \o given \in Seq(Argument)
  BY <1>2 DEF Argument
<1>4. args \in [Processes -> Seq(Argument)]
  BY <1>1, <1>3
<1> QED
  BY <1>4 DEF Init, Spawned

\* For any number of processes and any arguments of the user: what an app spawns is its
\* service, and outlived by it unless it is killed or panics.
THEOREM ServiceOfItsAppHolds == Spec => []ServiceOfItsApp
<1>1. Init => Spawned
  BY SpawnedInit
<1>2. Spawned => ServiceOfItsApp
  BY StartupAssumption, ChildArguments
  DEF Spawned, ServiceOfItsApp, Ended, AppLabels, ServiceLabels, Endings
<1> QED
  BY <1>1, <1>2, SpawnedStep, PTL DEF Spec

-----------------------------------------------------------------------------

\* Only an app tells a process a token, its own and at the spawn.
Tokens ==
  \A q \in Processes :
    \/ args[q] \in Seq({Flag, Exe, Other})
    \/ \E p \in Processes : args[q] = <<Exe, Flag, p>> /\ child[p] = q

\* From accept on an app has a service; and once the service's message is there, it
\* waits for the Hello or has ended.
Met ==
  \A p \in Processes :
    /\ pc[p] \in {"accept", "send_hello", "wait"} => child[p] # None
    /\ pc[p] = "send_hello" \/ (pc[p] = "accept" /\ inbox[p] # None) =>
         pc[child[p]] \in {"recv_hello"} \cup Endings

\* The inductive invariant of the handshake.
Handshake ==
  /\ TypeOK
  /\ Spawned
  /\ Tokens
  /\ Met

\* A set of numbers that is not empty has a least one.
LEMMA LeastNumber ==
  ASSUME NEW T \in SUBSET Nat, T # {}
  PROVE  \E n \in T : \A m \in T : n <= m
<1> DEFINE Less == {p \in Nat \X Nat : p[1] < p[2]}
<1>1. IsWellFoundedOn(Less, Nat)
  BY NatLessThanWellFounded DEF OpToRel
<1>2. PICK n \in T : \A m \in T : <<m, n>> \notin Less
  <2> HIDE DEF Less
  <2> QED
    BY <1>1, WFMin
<1>3. \A m \in T : ~ (m < n)
  BY <1>2
<1> QED
  BY <1>3

\* The token that a process finds is that of the app it is the service of.
LEMMA TokenIsOfApp ==
  ASSUME Spawned, Tokens, NEW q \in Processes, TokenOf(q) \in Processes
  PROVE  child[TokenOf(q)] = q
<1>1. CASE args[q] \in Seq({Flag, Exe, Other})
  <2> DEFINE at == {i \in 1 .. Len(args[q]) - 1 : args[q][i] = Flag}
             least == CHOOSE i \in at : \A j \in at : i <= j
  <2>1. at # {} /\ TokenOf(q) = args[q][least + 1]
    BY StartupAssumption DEF TokenOf
  <2>2. at \subseteq Nat
    OBVIOUS
  <2>3. PICK first \in at : \A j \in at : first <= j
    BY <2>1, <2>2, LeastNumber
  <2>4. least \in at
    BY <2>3
  <2> HIDE DEF least
  <2>5. Len(args[q]) \in Nat
    BY <1>1
  <2>6. least + 1 \in 1 .. Len(args[q])
    BY <2>4, <2>5
  <2>7. \A i \in 1 .. Len(args[q]) : args[q][i] \in {Flag, Exe, Other}
    BY <1>1
  <2> QED
    BY <2>1, <2>6, <2>7, StartupAssumption
<1>2. CASE \E p \in Processes : args[q] = <<Exe, Flag, p>> /\ child[p] = q
  BY <1>2, ChildArguments
<1> QED
  BY <1>1, <1>2 DEF Tokens

\* A process ends, and takes the message that was there for it along.
LEMMA EndKeepsMet ==
  ASSUME TypeOK, Tokens, Met, Spawned, NEW p \in Processes, NEW ending \in Endings,
         Ends(p, ending)
  PROVE  TypeOK' /\ Tokens' /\ Met'
<1>1. /\ pc' = [pc EXCEPT ![p] = ending] /\ inbox' = [inbox EXCEPT ![p] = None]
      /\ args' = args /\ child' = child
  BY DEF Ends, Goto
<1>2. ending \notin {"accept", "send_hello", "wait"}
  BY DEF Endings
<1>3. TypeOK'
  BY <1>1 DEF TypeOK
<1>4. Tokens'
  BY <1>1 DEF Tokens
<1>5. ASSUME NEW r \in Processes
      PROVE  /\ pc'[r] \in {"accept", "send_hello", "wait"} => child'[r] # None
             /\ pc'[r] = "send_hello" \/ (pc'[r] = "accept" /\ inbox'[r] # None) =>
                  pc'[child'[r]] \in {"recv_hello"} \cup Endings
  <2>1. CASE r = p
    BY <1>1, <1>2, <2>1 DEF TypeOK
  <2>2. CASE r # p
    BY <1>1, <2>2 DEF TypeOK, Met
  <2> QED
    BY <2>1, <2>2
<1> QED
  BY <1>3, <1>4, <1>5 DEF Met

\* A process that nobody has sent to goes on, up to its connection or its spawn.
LEMMA GotoKeepsMet ==
  ASSUME TypeOK, Tokens, Met, Spawned, NEW p \in Processes, NEW label,
         Goto(p, label), UNCHANGED <<args, child, inbox>>,
         pc[p] \notin {"accept", "recv_hello"} \cup Endings,
         label \in {"launch", "new_server", "spawn"} \cup ServiceLabels
  PROVE  TypeOK' /\ Tokens' /\ Met'
<1>1. pc' = [pc EXCEPT ![p] = label] /\ args' = args /\ child' = child /\ inbox' = inbox
  BY DEF Goto
<1>2. label \notin {"accept", "send_hello", "wait"} /\ label \in {"launch"} \cup AppLabels \cup ServiceLabels
  BY DEF ServiceLabels, AppLabels
<1>3. inbox[p] = None
  BY DEF TypeOK
<1>4. TypeOK'
  BY <1>1, <1>2, <1>3 DEF TypeOK
<1>5. Tokens'
  BY <1>1 DEF Tokens
<1>6. ASSUME NEW r \in Processes
      PROVE  /\ pc'[r] \in {"accept", "send_hello", "wait"} => child'[r] # None
             /\ pc'[r] = "send_hello" \/ (pc'[r] = "accept" /\ inbox'[r] # None) =>
                  pc'[child'[r]] \in {"recv_hello"} \cup Endings
  <2>1. CASE r = p
    BY <1>1, <1>2, <2>1 DEF TypeOK
  <2>2. CASE r # p
    <3>1. pc'[r] = pc[r]
      BY <1>1, <2>2 DEF TypeOK
    <3>2. pc[r] = "send_hello" \/ (pc[r] = "accept" /\ inbox[r] # None) =>
            pc[child[r]] \in {"recv_hello"} \cup Endings /\ child[r] # p
      BY DEF Met
    <3> QED
      BY <1>1, <3>1, <3>2 DEF TypeOK, Met
  <2> QED
    BY <2>1, <2>2
<1> QED
  BY <1>4, <1>5, <1>6 DEF Met

\* The service that sends its sender is the one that its app accepts.
LEMMA SendSenderKeepsMet ==
  ASSUME TypeOK, Tokens, Met, Spawned, NEW p \in Processes, SendSender(p)
  PROVE  TypeOK' /\ Tokens' /\ Met'
<1>1. CASE Ends(p, "panicked")
  BY <1>1, EndKeepsMet DEF Endings
<1>2. CASE ~Ends(p, "panicked")
  <2> DEFINE app == TokenOf(p)
  <2>1. /\ pc[p] = "send_sender"
        /\ app \in Processes /\ pc[app] \in {"spawn", "accept"}
        /\ inbox' = [inbox EXCEPT ![app] = p]
        /\ pc' = [pc EXCEPT ![p] = "recv_hello"]
        /\ args' = args /\ child' = child
    BY <1>2 DEF SendSender, Listens, Goto
  <2>2. child[app] = p /\ p # None
    BY <2>1, TokenIsOfApp, StartupAssumption
  <2>3. pc[app] = "accept" /\ app # p
    BY <2>1, <2>2 DEF Spawned, Endings
  <2> HIDE DEF app
  <2>4. TypeOK'
    <3>1. "recv_hello" \in ServiceLabels
      BY DEF ServiceLabels
    <3> QED
      BY <2>1, <2>3, <3>1 DEF TypeOK
  <2>5. Tokens'
    BY <2>1 DEF Tokens
  <2>6. ASSUME NEW r \in Processes
        PROVE  /\ pc'[r] \in {"accept", "send_hello", "wait"} => child'[r] # None
               /\ pc'[r] = "send_hello" \/ (pc'[r] = "accept" /\ inbox'[r] # None) =>
                    pc'[child'[r]] \in {"recv_hello"} \cup Endings
    <3>1. CASE r = p
      BY <2>1, <3>1 DEF TypeOK
    <3>2. CASE r = app
      BY <2>1, <2>2, <2>3, <3>2 DEF TypeOK
    <3>3. CASE r # p /\ r # app
      BY <2>1, <3>3 DEF TypeOK, Met
    <3> QED
      BY <3>1, <3>2, <3>3
  <2> QED
    BY <2>4, <2>5, <2>6 DEF Met
<1> QED
  BY <1>1, <1>2

\* Who is spawned has been told the token of its app, and nobody else has it.
LEMMA SpawnKeepsMet ==
  ASSUME TypeOK, Tokens, Met, Spawned, NEW p \in Processes, SpawnService(p)
  PROVE  TypeOK' /\ Tokens' /\ Met'
<1>1. CASE Ends(p, "panicked")
  BY <1>1, EndKeepsMet DEF Endings
<1>2. ASSUME NEW q \in Processes, pc[q] = "absent",
             pc' = [pc EXCEPT ![p] = "accept", ![q] = "launch"],
             args' = [args EXCEPT ![q] = <<Exe, Flag, p>>],
             child' = [child EXCEPT ![p] = q],
             inbox' = inbox
      PROVE  TypeOK' /\ Tokens' /\ Met'
  <2>1. pc[p] = "spawn" /\ p # q /\ p # None /\ q # None
    BY <1>2, StartupAssumption DEF SpawnService
  <2>2. child[p] = None
    BY <2>1 DEF Spawned, Endings
  <2>3. inbox[p] = None /\ inbox[q] = None
    BY <1>2, <2>1 DEF TypeOK
  <2>4. <<Exe, Flag, p>> \in Seq(Argument)
    BY DEF Argument
  <2>5. TypeOK'
    BY <1>2, <2>1, <2>3, <2>4 DEF TypeOK, AppLabels
  <2>6. ASSUME NEW r \in Processes
        PROVE  \/ args'[r] \in Seq({Flag, Exe, Other})
               \/ \E s \in Processes : args'[r] = <<Exe, Flag, s>> /\ child'[s] = r
    <3>1. CASE r = q
      BY <1>2, <3>1 DEF TypeOK
    <3>2. CASE r # q /\ args[r] \in Seq({Flag, Exe, Other})
      BY <1>2, <3>2 DEF TypeOK
    <3>3. ASSUME r # q, NEW s \in Processes, args[r] = <<Exe, Flag, s>>, child[s] = r
          PROVE  args'[r] = <<Exe, Flag, s>> /\ child'[s] = r
      <4>1. s # p
        BY <2>2, <3>3, StartupAssumption
      <4> QED
        BY <1>2, <3>3, <4>1 DEF TypeOK
    <3> QED
      BY <3>1, <3>2, <3>3 DEF Tokens
  <2>7. ASSUME NEW r \in Processes
        PROVE  /\ pc'[r] \in {"accept", "send_hello", "wait"} => child'[r] # None
               /\ pc'[r] = "send_hello" \/ (pc'[r] = "accept" /\ inbox'[r] # None) =>
                    pc'[child'[r]] \in {"recv_hello"} \cup Endings
    <3>1. CASE r = p
      BY <1>2, <2>1, <2>3, <3>1 DEF TypeOK
    <3>2. CASE r = q
      BY <1>2, <2>1, <3>2 DEF TypeOK
    <3>3. CASE r # p /\ r # q
      <4>1. pc'[r] = pc[r] /\ child'[r] = child[r]
        BY <1>2, <3>3 DEF TypeOK
      <4>2. pc[r] = "send_hello" \/ (pc[r] = "accept" /\ inbox[r] # None) =>
              /\ pc[child[r]] \in {"recv_hello"} \cup Endings
              /\ child[r] # p /\ child[r] # q
        BY <1>2, <2>1 DEF Met, Endings
      <4>3. pc[r] \in {"accept", "send_hello", "wait"} => child[r] # None
        BY DEF Met
      <4> QED
        BY <1>2, <4>1, <4>2, <4>3 DEF TypeOK
    <3> QED
      BY <3>1, <3>2, <3>3
  <2> QED
    BY <2>5, <2>6, <2>7 DEF Tokens, Met
<1> QED
  BY <1>1, <1>2 DEF SpawnService

\* The Hello goes to a service that is waiting for it, or fails.
LEMMA SendHelloKeepsMet ==
  ASSUME TypeOK, Tokens, Met, Spawned, NEW p \in Processes, SendHello(p)
  PROVE  TypeOK' /\ Tokens' /\ Met'
<1>1. CASE Ends(p, "panicked")
  BY <1>1, EndKeepsMet DEF Endings
<1>2. CASE ~Ends(p, "panicked")
  <2> DEFINE service == child[p]
  <2>1. /\ pc[p] = "send_hello" /\ ~Ended(service)
        /\ inbox' = [inbox EXCEPT ![service] = p]
        /\ pc' = [pc EXCEPT ![p] = "wait"]
        /\ args' = args /\ child' = child
    BY <1>2 DEF SendHello, Goto
  <2>2. service # None /\ service \in Processes /\ pc[service] = "recv_hello" /\ inbox[p] = None
    BY <2>1 DEF Met, TypeOK, Ended
  <2> HIDE DEF service
  <2>3. TypeOK'
    BY <2>1, <2>2 DEF TypeOK, AppLabels
  <2>4. Tokens'
    BY <2>1 DEF Tokens
  <2>5. ASSUME NEW r \in Processes
        PROVE  /\ pc'[r] \in {"accept", "send_hello", "wait"} => child'[r] # None
               /\ pc'[r] = "send_hello" \/ (pc'[r] = "accept" /\ inbox'[r] # None) =>
                    pc'[child'[r]] \in {"recv_hello"} \cup Endings
    <3>1. CASE r = p
      <4>1. child[p] # None
        BY <2>1 DEF Met
      <4> QED
        BY <2>1, <3>1, <4>1 DEF TypeOK
    <3>2. CASE r # p
      <4>1. pc'[r] = pc[r] /\ child'[r] = child[r]
        BY <2>1, <3>2 DEF TypeOK
      <4>2. pc[r] = "accept" => inbox'[r] = inbox[r]
        BY <2>1, <2>2 DEF TypeOK
      <4>3. pc[child[r]] \in {"recv_hello"} \cup Endings => pc'[child[r]] = pc[child[r]]
        BY <2>1 DEF TypeOK, Endings
      <4> QED
        BY <4>1, <4>2, <4>3 DEF Met
    <3> QED
      BY <3>1, <3>2
  <2> QED
    BY <2>3, <2>4, <2>5 DEF Met
<1> QED
  BY <1>1, <1>2 DEF SendHello

\* Every step of every process keeps the handshake's order.
LEMMA HandshakeStep == Handshake /\ [Next]_vars => Handshake'
<1> SUFFICES ASSUME Handshake, [Next]_vars PROVE Handshake'
  OBVIOUS
<1> USE DEF Handshake
<1>1. Spawned'
  BY SpawnedStep
<1>2. ASSUME NEW p \in Processes, Launch(p) PROVE TypeOK' /\ Tokens' /\ Met'
  BY <1>2, GotoKeepsMet DEF Launch, ServiceLabels, Endings
<1>3. ASSUME NEW p \in Processes, GetToken(p) PROVE TypeOK' /\ Tokens' /\ Met'
  BY <1>3, GotoKeepsMet, EndKeepsMet DEF GetToken, ServiceLabels, Endings
<1>4. ASSUME NEW p \in Processes, Connect(p) PROVE TypeOK' /\ Tokens' /\ Met'
  BY <1>4, GotoKeepsMet, EndKeepsMet DEF Connect, ServiceLabels, Endings
<1>5. ASSUME NEW p \in Processes, SendSender(p) PROVE TypeOK' /\ Tokens' /\ Met'
  BY <1>5, SendSenderKeepsMet
<1>6. ASSUME NEW p \in Processes, ReceiveHello(p) PROVE TypeOK' /\ Tokens' /\ Met'
  BY <1>6, EndKeepsMet DEF ReceiveHello, Endings
<1>7. ASSUME NEW p \in Processes, NewOneShotServer(p) PROVE TypeOK' /\ Tokens' /\ Met'
  BY <1>7, GotoKeepsMet DEF NewOneShotServer, Endings
<1>8. ASSUME NEW p \in Processes, SpawnService(p) PROVE TypeOK' /\ Tokens' /\ Met'
  BY <1>8, SpawnKeepsMet
<1>9. ASSUME NEW p \in Processes, Accept(p) PROVE TypeOK' /\ Tokens' /\ Met'
  <2>1. /\ pc[p] = "accept" /\ inbox[p] # None
        /\ pc' = [pc EXCEPT ![p] = "send_hello"]
        /\ inbox' = [inbox EXCEPT ![p] = None]
        /\ args' = args /\ child' = child
    BY <1>9 DEF Accept, Goto
  <2>2. TypeOK'
    BY <2>1 DEF TypeOK, AppLabels
  <2>3. Tokens'
    BY <2>1 DEF Tokens
  <2>4. ASSUME NEW r \in Processes
        PROVE  /\ pc'[r] \in {"accept", "send_hello", "wait"} => child'[r] # None
               /\ pc'[r] = "send_hello" \/ (pc'[r] = "accept" /\ inbox'[r] # None) =>
                    pc'[child'[r]] \in {"recv_hello"} \cup Endings
    <3>1. pc[child[r]] \in {"recv_hello"} \cup Endings => pc'[child[r]] = pc[child[r]]
      BY <2>1 DEF TypeOK, Endings
    <3>2. CASE r = p
      BY <2>1, <3>1, <3>2 DEF TypeOK, Met
    <3>3. CASE r # p
      BY <2>1, <3>1, <3>3 DEF TypeOK, Met
    <3> QED
      BY <3>2, <3>3
  <2> QED
    BY <2>2, <2>3, <2>4 DEF Met
<1>10. ASSUME NEW p \in Processes, SendHello(p) PROVE TypeOK' /\ Tokens' /\ Met'
  BY <1>10, SendHelloKeepsMet
<1>11. ASSUME NEW p \in Processes, Wait(p) PROVE TypeOK' /\ Tokens' /\ Met'
  BY <1>11, EndKeepsMet DEF Wait, Endings
<1>12. ASSUME NEW p \in Processes, Kill(p) PROVE TypeOK' /\ Tokens' /\ Met'
  BY <1>12, EndKeepsMet DEF Kill, Endings
<1>13. CASE UNCHANGED vars
  BY <1>1, <1>13 DEF vars, TypeOK, Tokens, Met
<1> QED
  BY <1>1, <1>2, <1>3, <1>4, <1>5, <1>6, <1>7, <1>8, <1>9, <1>10, <1>11, <1>12, <1>13
  DEF Next, Step

\* For any number of processes, killed at any time: the types, and that a message only
\* ever waits for a process that is about to receive it.
THEOREM StartupTypeCorrect == Spec => []TypeOK
<1>1. Init => Handshake
  <2> SUFFICES ASSUME Init PROVE Handshake
    OBVIOUS
  <2>1. Spawned
    BY SpawnedInit
  <2>2. PICK given \in BoundedSeq({Flag, Other}, MaxArgs) :
          args = [p \in Processes |-> IF p = First THEN <<Exe>> \o given ELSE <<>>]
    BY DEF Init
  <2>3. given \in Seq({Flag, Other})
    BY <2>2, GivenArguments
  <2>4. <<Exe>> \o given \in Seq({Flag, Exe, Other})
    BY <2>3
  <2>5. Tokens
    <3> SUFFICES ASSUME NEW q \in Processes PROVE args[q] \in Seq({Flag, Exe, Other})
      BY DEF Tokens
    <3>1. <<>> \in Seq({Flag, Exe, Other})
      OBVIOUS
    <3> QED
      BY <2>2, <2>4, <3>1
  <2>6. \A p \in Processes : pc[p] \in {"launch", "absent"} /\ inbox[p] = None
    BY DEF Init
  <2>7. TypeOK
    BY <2>1, <2>6 DEF TypeOK, Spawned, Init
  <2>8. Met
    BY <2>6 DEF Met
  <2> QED
    BY <2>1, <2>5, <2>7, <2>8 DEF Handshake
<1>2. Handshake => TypeOK
  BY DEF Handshake
<1> QED
  BY <1>1, <1>2, HandshakeStep, PTL DEF Spec
=============================================================================
