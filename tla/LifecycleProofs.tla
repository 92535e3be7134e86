---------------------------- MODULE LifecycleProofs ----------------------------
(***************************************************************************)
(* Theorems about Lifecycle, for any tree of resources and blocks and any  *)
(* set of commands: the types, that no thread outlives what it runs, and   *)
(* the order of what the E_RESTARTs announce.  The invariant of the last   *)
(* follows an E_RESTART's event from the command that starts its chain     *)
(* through the list and the stages of executeEvent to the output, beside   *)
(* the place of the command's thread at the block.                         *)
(***************************************************************************)
EXTENDS Lifecycle, FiniteSetTheorems, SequenceTheorems, WellFoundedInduction, TLAPS
-----------------------------------------------------------------------------
(* The walk: least numbers, sequences of sequences                          *)

\* A set of places of the walk has a least one.
LEMMA LeastNumber ==
  ASSUME NEW T, T \subseteq Nat, T # {}
  PROVE  Min(T) \in T /\ \A n \in T : Min(T) <= n
  <1> DEFINE less == OpToRel(<, Nat)
  <1>1. IsWellFoundedOn(less, Nat)
    BY NatLessThanWellFounded
  <1>2. \A m, n \in Nat : n < m => <<n, m>> \in less
    BY DEF OpToRel
  <1> HIDE DEF less
  <1>3. PICK m \in T : \A n \in T : ~(<<n, m>> \in less)
    BY <1>1, WFMin
  <1>4. \A n \in T : m <= n
    <2> TAKE n \in T
    <2>1. m \in Nat /\ n \in Nat /\ ~(n < m) BY <1>2, <1>3
    <2> QED BY <2>1
  <1> QED BY <1>4 DEF Min

Holds(q, x) == \E i \in DOMAIN q : q[i] = x

\* A sequence put together holds what its parts hold.
LEMMA ConcatHolds ==
  ASSUME NEW S, NEW a \in Seq(S), NEW b \in Seq(S)
  PROVE  /\ a \o b \in Seq(S)
         /\ \A x : Holds(a, x) \/ Holds(b, x) => Holds(a \o b, x)
  <1>1. a \o b \in Seq(S)
    OBVIOUS
  <1>2. \A i \in DOMAIN a : i \in DOMAIN (a \o b) /\ (a \o b)[i] = a[i]
    OBVIOUS
  <1>3. \A j \in DOMAIN b : /\ Len(a) + j \in DOMAIN (a \o b)
                            /\ (a \o b)[Len(a) + j] = b[j]
    OBVIOUS
  <1> QED BY <1>1, <1>2, <1>3 DEF Holds

\* A sequence of walks put together is a walk.
LEMMA FlattenIsSeq ==
  ASSUME NEW S, NEW q, NEW n \in Nat, q \in [1..n -> Seq(S)]
  PROVE  FlattenSeq(q) \in Seq(S)
  <1> DEFINE Cat(a, b) == a \o b
             flat[i \in 1..Len(q)] == IF i = 1 THEN q[i] ELSE Cat(flat[i - 1], q[i])
             IsFlat(f, m) == f = [i \in 1..m |-> IF i = 1 THEN q[i] ELSE Cat(f[i - 1], q[i])]
  <1>1. q \in Seq(Seq(S)) /\ Len(q) = n
    OBVIOUS
  <1>2. CASE n = 0
    BY <1>1, <1>2 DEF FlattenSeq
  <1>3. CASE n > 0
    <2>1. FlattenSeq(q) = flat[n]
      BY <1>1, <1>3 DEF FlattenSeq
    <2> HIDE DEF Cat
    <2>2. \A m \in 1..n : \E f : IsFlat(f, m)
      <3> DEFINE T == {m \in 1..n : ~\E f : IsFlat(f, m)}
      <3> SUFFICES ASSUME T # {} PROVE FALSE
        OBVIOUS
      <3>1. PICK m \in T : \A k \in T : m <= k
        <4>1. T \subseteq Nat OBVIOUS
        <4> HIDE DEF T
        <4> QED BY <4>1, LeastNumber
      <3>2. m \in 1..n /\ ~\E f : IsFlat(f, m) BY <3>1
      <3>3. CASE m = 1
        <4>1. IsFlat([i \in 1..1 |-> q[1]], 1) OBVIOUS
        <4> QED BY <3>2, <3>3, <4>1
      <3>4. CASE m # 1
        <4>1. PICK f : IsFlat(f, m - 1)
          <5>1. m - 1 \in 1..n /\ m - 1 \notin T
            <6> HIDE DEF T
            <6> QED BY <3>1, <3>2, <3>4
          <5> QED BY <5>1
        <4> DEFINE g == [i \in 1..m |-> IF i = m THEN Cat(f[m - 1], q[m]) ELSE f[i]]
        <4>2. IsFlat(g, m)
          <5>1. \A i \in 1..m : g[i] = IF i = 1 THEN q[i] ELSE Cat(g[i - 1], q[i])
            <6> TAKE i \in 1..m
            <6>1. CASE i = m BY <3>2, <3>4, <6>1
            <6>2. CASE i # m
              <7>1. i \in 1..(m - 1) /\ (i # 1 => i - 1 \in 1..m /\ i - 1 # m)
                BY <3>2, <6>2
              <7>2. f[i] = IF i = 1 THEN q[i] ELSE Cat(f[i - 1], q[i]) BY <4>1, <7>1
              <7> QED BY <6>2, <7>1, <7>2
            <6> QED BY <6>1, <6>2
          <5> HIDE DEF g
          <5>2. g = [i \in 1..m |-> g[i]] BY DEF g
          <5> QED BY <5>1, <5>2
        <4> QED BY <3>2, <4>2
      <3> QED BY <3>3, <3>4
    <2>3. flat = [i \in 1..n |-> IF i = 1 THEN q[i] ELSE Cat(flat[i - 1], q[i])]
      <3>1. \E f : IsFlat(f, n)
        <4> HIDE DEF IsFlat
        <4> QED BY <1>3, <2>2
      <3> QED BY <3>1, <1>1
    <2> HIDE DEF flat
    <2>4. /\ flat[1] = q[1]
          /\ \A i \in 2..n : flat[i] = flat[i - 1] \o q[i]
      <3>1. flat[1] = q[1] /\ \A i \in 2..n : flat[i] = Cat(flat[i - 1], q[i])
        BY <2>3, <1>3
      <3> QED BY <3>1 DEF Cat
    <2> DEFINE T == {i \in 1..n : flat[i] \notin Seq(S)}
    <2> SUFFICES ASSUME T # {} PROVE FALSE
      <3>1. n \in 1..n BY <1>3
      <3> QED BY <2>1, <3>1
    <2>5. PICK i \in T : \A k \in T : i <= k
      <3>1. T \subseteq Nat OBVIOUS
      <3> HIDE DEF T
      <3> QED BY <3>1, LeastNumber
    <2>6. i \in 1..n /\ flat[i] \notin Seq(S) BY <2>5
    <2>7. CASE i = 1 BY <2>4, <2>6, <2>7
    <2>8. CASE i # 1
      <3>1. i - 1 \in 1..n /\ i \in 2..n /\ i - 1 \notin T
        <4> HIDE DEF T
        <4> QED BY <2>5, <2>6, <2>8
      <3>2. flat[i - 1] \in Seq(S) BY <3>1
      <3>3. flat[i] = flat[i - 1] \o q[i] /\ q[i] \in Seq(S) BY <2>4, <3>1
      <3> HIDE DEF flat, T
      <3> QED BY <2>6, <3>2, <3>3
    <2> QED BY <2>7, <2>8
  <1> QED BY <1>2, <1>3
Visits == {v \in [fb : FBs, part : {"state", "thread", "join"}] :
             v.part # "state" => v.fb \in Threads}

\* The visit of a resource is a walk.
LEMMA VisitResourceIsSeq ==
  ASSUME NEW r \in Resources
  PROVE  VisitResource(r) \in Seq(Visits)
  <1> DEFINE own == <<State(r)>>
             blocks == [i \in DOMAIN BlockList[r] |-> State(BlockList[r][i])]
             last == <<Thread(r)>>
  <1>1. BlockList[r] \in Seq(BlocksOf(r)) /\ BlocksOf(r) \subseteq FBs /\ r \in FBs
    BY TreeAssumption DEF FBs, Blocks, Threads
  <1>2. own \in Seq(Visits) /\ last \in Seq(Visits)
    <2>1. State(r) \in Visits /\ Thread(r) \in Visits
      BY <1>1 DEF Visits, State, Thread, Threads
    <2> QED BY <2>1
  <1>3. blocks \in Seq(Visits)
    <2>1. \A i \in DOMAIN BlockList[r] : BlockList[r][i] \in FBs BY <1>1
    <2>2. DOMAIN BlockList[r] = 1..Len(BlockList[r]) /\ Len(BlockList[r]) \in Nat BY <1>1
    <2> QED BY <2>1, <2>2 DEF Visits, State
  <1>4. VisitResource(r) = (own \o blocks) \o last
    BY DEF VisitResource
  <1> HIDE DEF own, blocks, last
  <1> QED BY <1>2, <1>3, <1>4

\* The walk comes to the end of every thread.
LEMMA WalkIsSeq ==
  /\ Walk \in Seq(Visits)
  /\ \A r \in Threads : Holds(Walk, Join(r))
  <1> DEFINE n == Len(ResourceList)
             inner == [i \in DOMAIN ResourceList |-> VisitResource(ResourceList[i])]
             a == <<State(Dev)>>
             b == FlattenSeq(inner)
             c == <<State(Mgr), Thread(Mgr), Join(Mgr)>>
             d == [i \in DOMAIN ResourceList |-> Join(ResourceList[i])]
  <1>1. /\ n \in Nat /\ DOMAIN ResourceList = 1..n
        /\ \A i \in 1..n : ResourceList[i] \in Resources
        /\ \A r \in Resources : \E i \in 1..n : ResourceList[i] = r
    BY TreeAssumption DEF Resources, ToSet
  <1>2. a \in Seq(Visits) /\ c \in Seq(Visits) /\ d \in Seq(Visits)
    <2>1. \A i \in 1..n : Join(ResourceList[i]) \in Visits
      BY <1>1 DEF Visits, Join, FBs, Threads
    <2>2. {State(Dev), State(Mgr), Thread(Mgr), Join(Mgr)} \subseteq Visits
      BY DEF Visits, State, Thread, Join, FBs, Threads
    <2> QED BY <1>1, <2>1, <2>2
  <1>3. inner \in [1..n -> Seq(Visits)]
    BY <1>1, VisitResourceIsSeq
  <1>4. b \in Seq(Visits)
    <2> HIDE DEF inner, n
    <2> QED BY <1>1, <1>3, FlattenIsSeq
  <1>5. ASSUME NEW r \in Resources PROVE Holds(d, Join(r))
    <2>1. PICK k \in 1..n : ResourceList[k] = r BY <1>1
    <2>2. d[k] = Join(r) /\ k \in DOMAIN d BY <1>1, <2>1
    <2> HIDE DEF d
    <2> QED BY <2>2 DEF Holds
  <1>6. Holds(c, Join(Mgr))
    <2>1. c[3] = Join(Mgr) /\ 3 \in DOMAIN c
      OBVIOUS
    <2> HIDE DEF c
    <2> QED BY <2>1 DEF Holds
  <1>7. Walk = ((a \o b) \o c) \o d
    BY DEF Walk
  <1> HIDE DEF a, b, c, d, n, inner
  <1> DEFINE ab == a \o b
             abc == ab \o c
  <1>8. ab \in Seq(Visits)
    BY <1>2, <1>4, ConcatHolds
  <1> HIDE DEF ab
  <1>9. abc \in Seq(Visits) /\ \A x : Holds(c, x) => Holds(abc, x)
    BY <1>2, <1>8, ConcatHolds
  <1> HIDE DEF abc
  <1>10. Walk \in Seq(Visits) /\ \A x : Holds(abc, x) \/ Holds(d, x) => Holds(Walk, x)
    <2>1. Walk = abc \o d BY <1>7 DEF abc, ab
    <2> QED BY <2>1, <1>2, <1>9, ConcatHolds
  <1> QED BY <1>5, <1>6, <1>9, <1>10 DEF Threads
-----------------------------------------------------------------------------
\* The manager waits for quiet threads, and leaves E_RESTARTs alone whose thread
\* cannot answer.
Considerately == {"quick", "stuck"} \cap Rough = {}

\* An event list has room for one event of each E_RESTART of its resource.
ListsSuffice ==
  \A r \in Resources : Cardinality(RestartFBs \cap BlocksOf(r)) <= QueueSize

Ops == {"Start", "Stop", "Kill", "Reset", "Delete"}
Serving == {"send", "test", "stop", "release"}
Window == {"announce", "again", "chain", "wait"}

TypeInv ==
  /\ TypeOK
  /\ queue \in [Threads -> Seq(FBs)] /\ executing \in [Threads -> FBs]
  /\ thread[Mgr] \notin Serving
  /\ cmd \in [op : Ops \cup {"none"}, target : FBs, by : {"mgr", "main"}]
  /\ cmd # NoCmd => cmd.op # "none" /\ cmd.target # Mgr
  /\ history \in [RestartFBs -> [last : Ops \cup {"none"}, warm : BOOLEAN,
                                 outs : Seq({"COLD", "WARM", "STOP"})]]

ItemInv(i) ==
  /\ Walk[i].part = "join" <=> (cmd.op = "Delete" \/ phase = "deleting")
  /\ cmd # NoCmd => Walk[i].fb \in Within(cmd.target) \cup {Mgr}
  /\ cmd # NoCmd /\ cmd.op # "Delete" => Walk[i].fb \in fbs

\* Where a command is, and what is left of its walk.
WalkInv ==
  /\ step \in Window => /\ cmd # NoCmd /\ work # {}
                        /\ Current.part = "state" /\ CurrentFB \in RestartFBs
  /\ step \in {"again", "wait"} => cmd.op = "Stop"
  /\ step = "chain" => cmd.op \in {"Start", "Stop"}
  /\ step = "join" => work # {} /\ Current.part = "join"
  /\ \A i \in work : ItemInv(i)
  /\ cmd = NoCmd /\ work # {} => phase = "deleting"
  /\ CASE phase = "running" -> cmd.by = "mgr"
       [] phase = "killing" -> cmd # NoCmd /\ cmd.by = "main" /\ cmd.op = "Kill"
       [] OTHER -> cmd = NoCmd

TreeInv == \A r \in Resources \cap fbs : BlocksOf(r) \subseteq fbs

\* What the threads do when the instance ends or is being stopped.
ThreadInv ==
  /\ phase # "running" =>
       \A r \in Resources : \/ thread[r] \in {"none", "ended"}
                            \/ thread[r] \in {"suspended", "loop"} /\ queue[r] = <<>>
  /\ cmd.op \in {"Stop", "Kill"} => \A r \in Resources : thread[r] # "created"

\* The way of an E_RESTART's event: its list, then the stages of executeEvent.
InQueue(b) == Holds(queue[ResourceOf(b)], b)
Served(b) == thread[ResourceOf(b)] \in Serving /\ executing[ResourceOf(b)] = b
Stage(b) == IF InQueue(b) THEN "queued"
            ELSE IF Served(b) THEN thread[ResourceOf(b)] ELSE "rest"

Once(q) == \A i, j \in DOMAIN q : q[i] = q[j] => i = j
QueueInv ==
  /\ \A r \in Resources : Once(queue[r])
  /\ \A b \in RestartFBs : ~(InQueue(b) /\ Served(b))

At(b) == step \in Window /\ CurrentFB = b
First(b) == IF history[b].warm THEN "WARM" ELSE "COLD"

\* The event an E_RESTART has to send after its last command.
EventInv(b) ==
  LET h == history[b] IN
  /\ At(b) => h.last = cmd.op
  /\ IF At(b) /\ step = "announce"
     THEN h.last = "Start" => (event[b] = "STOP" <=> h.warm)
     ELSE event[b] = CASE h.last = "Start" -> First(b)
                       [] h.last = "Stop" -> "STOP"
                       [] OTHER -> "none"

\* A stopped E_RESTART runs until it has sent STOP.
StateInv(b) ==
  state[b] = CASE history[b].last = "Start" -> "RUNNING"
               [] history[b].last = "Kill" -> "KILLED"
               [] history[b].last \in {"none", "Reset", "Delete"} -> "IDLE"
               [] OTHER -> IF At(b) /\ (\/ step = "chain"
                                        \/ /\ step = "wait"
                                           /\ Stage(b) \in {"queued", "send", "test", "stop"})
                           THEN "RUNNING" ELSE "STOPPED"

\* What it has sent, by the stage its event has reached.
OutsInv(b) ==
  LET h == history[b]
      one == <<First(b)>>
      two == <<First(b), "STOP">>
  IN  CASE h.last = "Start" ->
             /\ ~sem[b]
             /\ IF At(b) THEN h.outs = <<>> /\ Stage(b) = "rest"
                ELSE \/ h.outs = <<>> /\ Stage(b) \in {"queued", "send"}
                     \/ h.outs = one /\ Stage(b) \in {"test", "rest"}
        [] h.last = "Stop" ->
             IF At(b) /\ step # "wait" THEN ~sem[b] /\ h.outs = one /\ Stage(b) = "rest"
             ELSE IF At(b)
             THEN \/ ~sem[b] /\ h.outs = one /\ Stage(b) \in {"queued", "send"}
                  \/ ~sem[b] /\ h.outs = two /\ Stage(b) \in {"test", "stop", "release"}
                  \/ sem[b] /\ h.outs = two /\ Stage(b) = "rest"
             ELSE ~sem[b] /\ h.outs = two /\ Stage(b) = "rest"
        [] OTHER -> ~sem[b] /\ h.outs \in {<<>>, one, two} /\ Stage(b) = "rest"

\* No thread is at a running E_RESTART the command has yet to stop or kill.
SettledInv(b) ==
  /\ cmd.op \in {"Stop", "Kill"} /\ b \in Within(cmd.target) \cap fbs
  /\ state[b] = "RUNNING" /\ ~At(b)
  => Stage(b) = "rest"

BlockInv(b) == EventInv(b) /\ StateInv(b) /\ OutsInv(b) /\ SettledInv(b)
AnnounceInv ==
  IF phase = "running" THEN \A b \in RestartFBs : BlockInv(b) ELSE AnnouncedInOrder

IInv == TypeInv /\ WalkInv /\ TreeInv /\ ThreadInv /\ QueueInv /\ AnnounceInv

\* No thread goes without its resource, and the end of the instance has yet to
\* join every thread whose resource is left.
Left(visit) == \E i \in work : Walk[i] = visit
GoneInv ==
  /\ \A r \in Threads : r \notin fbs => Resting(r)
  /\ cmd # NoCmd /\ cmd.by = "mgr" => thread[Mgr] = "executing"
  /\ phase = "deleting" => \A r \in Threads \cap fbs : Left(Join(r))

\* The place a command has come to is a visit of the walk.
LEMMA CurrentIs ==
  ASSUME work \subseteq DOMAIN Walk, work # {}
  PROVE  /\ Min(work) \in work /\ Current \in Visits /\ Current = Walk[Min(work)]
         /\ CurrentFB \in FBs /\ CurrentFB = Walk[Min(work)].fb
  <1>1. Walk \in Seq(Visits) BY WalkIsSeq
  <1>2. DOMAIN Walk \subseteq Nat BY <1>1
  <1>3. Min(work) \in work BY <1>2, LeastNumber
  <1>4. Walk[Min(work)] \in Visits BY <1>1, <1>3
  <1> QED BY <1>3, <1>4 DEF Current, CurrentFB, Visits

\* An E_RESTART is in one resource, and is none itself.
LEMMA ResourceOfBlock ==
  ASSUME NEW b \in RestartFBs
  PROVE  /\ ResourceOf(b) \in Resources /\ b \in BlocksOf(ResourceOf(b))
         /\ \A r \in Resources : b \in BlocksOf(r) => r = ResourceOf(b)
         /\ b \in FBs /\ b \notin Resources /\ b \notin {Dev, Mgr}
         /\ ResourceOf(b) \in Threads /\ ResourceOf(b) # Mgr
  <1>1. b \in Blocks /\ \E r \in Resources : b \in BlocksOf(r)
    BY TreeAssumption DEF Blocks
  <1>2. ResourceOf(b) \in Resources /\ b \in BlocksOf(ResourceOf(b))
    BY <1>1 DEF ResourceOf
  <1> QED BY <1>1, <1>2, TreeAssumption DEF FBs, Threads

\* Taking from a list that is not empty.
LEMMA HeadTail ==
  ASSUME NEW S, NEW q \in Seq(S), q # <<>>
  PROVE  /\ Head(q) \in S /\ Tail(q) \in Seq(S)
         /\ Len(q) \in Nat /\ Len(Tail(q)) = Len(q) - 1
  OBVIOUS

\* Device, manager, resources and blocks are apart.
LEMMA TreeFacts ==
  /\ Resources \subseteq Threads /\ Threads \subseteq FBs /\ Mgr \in Threads /\ Dev \in FBs
  /\ Mgr \notin Resources /\ Dev \notin Threads /\ QueueSize \in Nat \ {0}
  /\ \A r \in Threads : r = Mgr \/ r \in Resources
  BY TreeAssumption DEF FBs, Threads

\* The first state has the types, and no command.
LEMMA TypeInit == Init => TypeInv /\ WalkInv
  <1> SUFFICES ASSUME Init PROVE TypeInv /\ WalkInv
    OBVIOUS
  <1>1. TypeOK
    <2>1. state \in [FBs -> States] BY DEF Init, States
    <2>2. /\ \A r \in Resources : queue[r] \in Seq(RestartFBs \cap BlocksOf(r))
          /\ queue[Mgr] = <<>> /\ \A r \in Threads : Len(queue[r]) <= QueueSize
      BY TreeFacts DEF Init
    <2> QED BY <2>1, <2>2, TreeFacts DEF Init, TypeOK, NoCmd
  <1>2. TypeInv
    BY <1>1, TreeFacts DEF Init, TypeInv, NoCmd, Serving, Ops
  <1>3. WalkInv
    BY DEF Init, WalkInv, NoCmd, Window
  <1> QED BY <1>2, <1>3

\* Every step keeps the types.
LEMMA TypeStep == TypeInv /\ WalkInv /\ [Next]_vars => TypeInv'
  <1> SUFFICES ASSUME TypeInv, WalkInv, [Next]_vars PROVE TypeInv'
    OBVIOUS
  <1> USE DEF TypeInv, TypeOK
  <1> USE TreeFacts
  <1>0. /\ \A f, op : Visit(op, f) \subseteq DOMAIN Walk
        /\ \A f : PassOver(f) \subseteq work
        /\ VisitDestruction \subseteq DOMAIN Walk
    BY DEF Visit, PassOver, VisitDestruction
  <1>1. ASSUME NEW c \in Commands, Command(c[1], c[2]) PROVE TypeInv'
    <2>1. c[1] \in Ops /\ c[2] \in FBs \ {Mgr} BY CommandAssumption DEF Ops
    <2>2. cmd' = [op |-> c[1], target |-> c[2], by |-> "mgr"]
      BY <1>1 DEF Command, Begin
    <2> QED BY <1>0, <1>1, <2>1, <2>2 DEF Command, Begin, NoCmd, restartVars, Serving, Ops
  <1>2. CASE StopInstance
    BY <1>0, <1>2, TreeAssumption
    DEF StopInstance, Begin, NoCmd, restartVars, threadVars, Serving, Ops, FBs
  <1>3. CASE ChangeState
    <2> DEFINE f == CurrentFB
    <2>1. work # {} /\ cmd # NoCmd BY <1>3 DEF ChangeState, Visiting
    <2>2. f \in FBs /\ cmd.op \in Ops \ {"Delete"}
      BY <1>3, <2>1, CurrentIs DEF ChangeState, Visiting, WalkInv, ItemInv, Ops
    <2>3. NextState(cmd.op) \in States /\ state' = [state EXCEPT ![f] = NextState(cmd.op)]
      <3>1. state' = [state EXCEPT ![f] = NextState(cmd.op)] BY <1>3 DEF ChangeState
      <3>2. NextState(cmd.op) \in States
        BY <2>2 DEF NextState, Ops, States
      <3> QED BY <3>1, <3>2
    <2>4. state' \in [FBs -> States] BY <2>2, <2>3
    <2>5. history' \in [RestartFBs -> [last : Ops \cup {"none"}, warm : BOOLEAN,
                                       outs : Seq({"COLD", "WARM", "STOP"})]]
      <3>1. CASE f \in RestartFBs
        <4> DEFINE h == history[f]
                   rec == [last |-> cmd.op,
                           warm |-> IF cmd.op = "Start" THEN h.last = "Stop" ELSE h.warm,
                           outs |-> IF cmd.op = "Start" THEN <<>> ELSE h.outs]
        <4>1. history' = [history EXCEPT ![f] = rec] BY <1>3, <3>1 DEF ChangeState
        <4>2. rec \in [last : Ops \cup {"none"}, warm : BOOLEAN,
                       outs : Seq({"COLD", "WARM", "STOP"})]
          <5>1. h.warm \in BOOLEAN /\ h.outs \in Seq({"COLD", "WARM", "STOP"}) BY <3>1
          <5>2. <<>> \in Seq({"COLD", "WARM", "STOP"}) OBVIOUS
          <5> HIDE DEF h
          <5> QED BY <2>2, <5>1, <5>2
        <4> HIDE DEF rec
        <4> QED BY <4>1, <4>2
      <3>2. CASE f \notin RestartFBs BY <1>3, <3>2 DEF ChangeState
      <3> QED BY <3>1, <3>2
    <2>6. /\ work' \subseteq DOMAIN Walk /\ step' \in Window \cup {"visit", "join"}
          /\ UNCHANGED <<fbs, threadVars, event, sem, cmd, handlers, phase>>
      BY <1>3 DEF ChangeState, Window
    <2> QED BY <2>4, <2>5, <2>6 DEF threadVars, Window
  <1>4. CASE RefuseState
    BY <1>0, <1>4, CurrentIs
    DEF RefuseState, Visiting, CommandDone, restartVars, Serving, NoCmd, FBs, Threads
  <1>5. CASE Announce
    <2>1. /\ event' = [event EXCEPT ![CurrentFB] = EventFor(cmd.op, event[CurrentFB])]
          /\ CurrentFB \in RestartFBs
      BY <1>5 DEF Announce, WalkInv, Window
    <2>2. event' \in [RestartFBs -> {"none", "COLD", "WARM", "STOP"}]
      BY <2>1 DEF EventFor
    <2> QED BY <1>5, <2>2 DEF Announce, NextVisit, threadVars
  <1>6. CASE KeepRunning
    BY <1>6 DEF KeepRunning, threadVars, restartVars, States
  <1>7. CASE StartNewEventChain
    <2> DEFINE b == CurrentFB
               r == ResourceOf(CurrentFB)
    <2>1. b \in RestartFBs BY <1>7 DEF StartNewEventChain, WalkInv, Window
    <2>2. r \in Resources /\ b \in BlocksOf(r) /\ b \in FBs /\ r \in Threads /\ r # Mgr
      BY <2>1, ResourceOfBlock
    <2>3. /\ queue' = IF Len(queue[r]) < QueueSize
                      THEN [queue EXCEPT ![r] = Append(@, b)] ELSE queue
          /\ wake' \in [Threads -> BOOLEAN]
          /\ step' \in {"wait", "visit"} /\ work' \subseteq work
          /\ UNCHANGED <<state, fbs, thread, alive, executing, restartVars, cmd, handlers, phase>>
      BY <1>7, <2>2 DEF StartNewEventChain, Executor, NextVisit
    <2>4. queue' \in [Threads -> Seq(FBs)] BY <2>2, <2>3
    <2>5. \A s \in Resources : queue'[s] \in Seq(RestartFBs \cap BlocksOf(s))
      BY <2>1, <2>2, <2>3
    <2>6. queue'[Mgr] = <<>> BY <2>2, <2>3
    <2>7. \A s \in Threads : Len(queue'[s]) <= QueueSize
      BY <2>2, <2>3, <2>4, TreeAssumption
    <2> HIDE DEF b, r
    <2> QED BY <2>3, <2>4, <2>5, <2>6, <2>7 DEF restartVars
  <1>8. CASE WaitForStop
    BY <1>8 DEF WaitForStop, NextVisit, threadVars
  <1>9. CASE ChangeThread
    <2>1. queue' \in [Threads -> Seq(FBs)] /\ queue'[Mgr] = <<>>
      BY <1>9 DEF ChangeThread, Threads
    <2>2. \A s \in Threads : queue'[s] = queue[s] \/ queue'[s] = <<>>
      BY <1>9 DEF ChangeThread
    <2>3. \A s \in Threads : Len(queue'[s]) <= QueueSize
      BY <2>2, TreeAssumption
    <2>4. \A s \in Resources : queue'[s] \in Seq(RestartFBs \cap BlocksOf(s))
      <3> TAKE s \in Resources
      <3>1. queue[s] \in Seq(RestartFBs \cap BlocksOf(s)) OBVIOUS
      <3>2. <<>> \in Seq(RestartFBs \cap BlocksOf(s)) OBVIOUS
      <3> QED BY <2>2, <3>1, <3>2
    <2>5. /\ thread' \in [Threads -> {"none", "created", "loop", "suspended", "receive", "send",
                             "test", "stop", "release", "executing", "ended"}]
          /\ \A s \in Threads : thread'[s] = thread[s] \/ thread'[s] \notin Serving
      BY <1>9 DEF ChangeThread, Serving
    <2>6. alive' \in [Threads -> BOOLEAN] /\ wake' \in [Threads -> BOOLEAN]
      BY <1>9 DEF ChangeThread
    <2>7. /\ step' = "visit" /\ work' \subseteq work
          /\ UNCHANGED <<state, fbs, executing, restartVars, cmd, handlers, phase>>
      BY <1>9 DEF ChangeThread, NextVisit
    <2> QED BY <2>1, <2>3, <2>4, <2>5, <2>6, <2>7 DEF restartVars, Serving, Threads
  <1>10. CASE Respond
    BY <1>10 DEF Respond, CommandDone, restartVars, Serving, NoCmd, FBs, Threads
  <1>11. CASE EndThread
    BY <1>11 DEF EndThread, restartVars
  <1>12. CASE Joined
    BY <1>12 DEF Joined, NextVisit, threadVars, restartVars
  <1>13. CASE JoinManager
    BY <1>0, <1>13 DEF JoinManager, threadVars, restartVars
  <1>14. CASE InstanceEnded
    BY <1>14 DEF InstanceEnded, threadVars, restartVars, cmdVars
  <1>15. ASSUME NEW r \in Threads, EcetThread(r) PROVE TypeInv'
    <2> USE DEF Untouched, cmdVars, restartVars, ThreadAt, Serving
    <2>1. CASE RunThread(r) BY <2>1 DEF RunThread
    <2>2. CASE Loop(r) BY <2>2 DEF Loop
    <2>3. CASE Resume(r) BY <2>3 DEF Resume
    <2>4. CASE Receive(r)
      <3>1. CASE queue[r] = <<>>
        <4>1. /\ thread' = [thread EXCEPT ![r] = "loop"]
              /\ UNCHANGED <<state, alive, wake, queue, executing, restartVars, Untouched>>
          BY <2>4, <3>1 DEF Receive
        <4>2. /\ thread' \in [Threads -> {"none", "created", "loop", "suspended", "receive", "send",
                                         "test", "stop", "release", "executing", "ended"}]
              /\ \A s \in Threads : thread'[s] \in Serving => thread[s] \in Serving
          BY <4>1
        <4> QED BY <4>1, <4>2
      <3>2. CASE queue[r] # <<>>
        <4>1. r # Mgr /\ r \in Resources BY <3>2 DEF Threads
        <4>2. /\ Head(queue[r]) \in RestartFBs \cap BlocksOf(r)
              /\ Tail(queue[r]) \in Seq(RestartFBs \cap BlocksOf(r))
              /\ Len(Tail(queue[r])) <= QueueSize
          <5> DEFINE q == queue[r]
                     S == RestartFBs \cap BlocksOf(r)
          <5>1. q \in Seq(S) /\ q # <<>> /\ Len(q) <= QueueSize BY <3>2, <4>1
          <5> HIDE DEF q, S
          <5>2. Head(q) \in S /\ Tail(q) \in Seq(S) /\ Len(Tail(q)) <= QueueSize
            BY <5>1, HeadTail
          <5> QED BY <5>2 DEF q, S
        <4>3. Head(queue[r]) \in FBs /\ Tail(queue[r]) \in Seq(FBs) BY <3>2
        <4>4. queue' = [queue EXCEPT ![r] = Tail(@)] BY <2>4, <3>2 DEF Receive
        <4>5. /\ queue' \in [Threads -> Seq(FBs)] /\ queue'[Mgr] = <<>>
              /\ \A s \in Resources : queue'[s] \in Seq(RestartFBs \cap BlocksOf(s))
              /\ \A s \in Threads : Len(queue'[s]) <= QueueSize
          BY <4>1, <4>2, <4>3, <4>4
        <4>6. \/ /\ thread' = [thread EXCEPT ![r] = "send"]
                 /\ executing' = [executing EXCEPT ![r] = Head(queue[r])]
              \/ thread' = [thread EXCEPT ![r] = "loop"] /\ executing' = executing
          BY <2>4 DEF Receive
        <4>7. /\ executing' \in [Threads -> FBs] /\ thread'[Mgr] \notin Serving
              /\ \A s \in Threads : thread'[s] \in Serving =>
                                      executing'[s] \in RestartFBs \cap BlocksOf(s)
          <5>1. CASE thread' = [thread EXCEPT ![r] = "loop"] /\ executing' = executing
            BY <4>1, <5>1
          <5>2. CASE /\ thread' = [thread EXCEPT ![r] = "send"]
                     /\ executing' = [executing EXCEPT ![r] = Head(queue[r])]
            <6>1. \A s \in Threads \ {r} : thread'[s] = thread[s] /\ executing'[s] = executing[s]
              BY <5>2
            <6>2. executing'[r] = Head(queue[r]) BY <5>2
            <6>3. executing' \in [Threads -> FBs] BY <4>3, <5>2
            <6> QED BY <4>1, <4>2, <6>1, <6>2, <6>3
          <5> QED BY <4>6, <5>1, <5>2
        <4>8. UNCHANGED <<state, alive, wake, restartVars, Untouched>> BY <2>4 DEF Receive
        <4>9. thread' \in [Threads -> {"none", "created", "loop", "suspended", "receive", "send",
                                       "test", "stop", "release", "executing", "ended"}]
          BY <4>6
        <4> QED BY <4>5, <4>7, <4>8, <4>9
      <3> QED BY <3>1, <3>2
    <2>5. CASE SendEvent(r)
      <3> DEFINE b == executing[r]
      <3>1. thread[r] = "send" /\ b \in RestartFBs BY <2>5 DEF SendEvent
      <3>2. history' \in [RestartFBs -> [last : Ops \cup {"none"}, warm : BOOLEAN,
                                         outs : Seq({"COLD", "WARM", "STOP"})]]
        <4>1. CASE event[b] = "none" BY <2>5, <4>1 DEF SendEvent
        <4>2. CASE event[b] # "none"
          <5>1. event[b] \in {"COLD", "WARM", "STOP"} BY <3>1, <4>2
          <5>2. history' = [history EXCEPT ![b].outs = Append(@, event[b])]
            BY <2>5, <4>2 DEF SendEvent
          <5>3. /\ history[b] \in [last : Ops \cup {"none"}, warm : BOOLEAN,
                                   outs : Seq({"COLD", "WARM", "STOP"})]
                /\ Append(history[b].outs, event[b]) \in Seq({"COLD", "WARM", "STOP"})
            BY <3>1, <5>1
          <5> HIDE DEF b
          <5> QED BY <3>1, <5>2, <5>3
        <4> QED BY <4>1, <4>2
      <3> QED BY <2>5, <3>2 DEF SendEvent
    <2>6. CASE TestForStop(r) BY <2>6 DEF TestForStop
    <2>7. CASE StopBlock(r) BY <2>7 DEF StopBlock, States
    <2>8. CASE ReleaseManager(r) BY <2>8 DEF ReleaseManager
    <2> QED BY <1>15, <2>1, <2>2, <2>3, <2>4, <2>5, <2>6, <2>7, <2>8 DEF EcetThread
  <1>16. CASE UNCHANGED vars
    BY <1>16 DEF vars, threadVars, restartVars, cmdVars
  <1> HIDE DEF TypeInv, TypeOK
  <1> QED BY <1>1, <1>2, <1>3, <1>4, <1>5, <1>6, <1>7, <1>8, <1>9, <1>10, <1>11, <1>12, <1>13,
             <1>14, <1>15, <1>16 DEF Next, CommandThread
-----------------------------------------------------------------------------
(* A command stays within its target, and every variable within its type *)

\* What is left of a walk stays within its command.
LEMMA ItemsStay ==
  ASSUME WalkInv, work' \subseteq work, UNCHANGED <<cmd, phase, fbs>>
  PROVE  \A i \in work' : ItemInv(i)'
  BY DEF WalkInv, ItemInv, Walk, Within, VisitResource, State, Thread, Join, FBs, Threads, Blocks,
         BlocksOf, Resources

\* A command begins with visits within its target.
LEMMA VisitItems ==
  ASSUME NEW op \in Ops, NEW f \in FBs \ {Mgr}, NEW by, cmd' = [op |-> op, target |-> f, by |-> by],
         phase' \notin {"deleting"}, work' = Visit(op, f), UNCHANGED fbs
  PROVE  \A i \in work' : ItemInv(i)'
  <1> SUFFICES ASSUME NEW i \in work' PROVE ItemInv(i)'
    OBVIOUS
  <1>1. /\ Walk[i].fb \in fbs
        /\ Walk[i].fb \in Within(f) \/ f = Dev
        /\ (Walk[i].part = "join" <=> op = "Delete")
        /\ i \in DOMAIN Walk
    BY DEF Visit
  <1>2. Walk[i].fb \in FBs
    BY <1>1, WalkIsSeq DEF Visits
  <1>3. Walk[i].fb \in Within(f) \cup {Mgr}
    BY <1>1, <1>2 DEF Within
  <1> QED BY <1>1, <1>3 DEF ItemInv

\* Every step keeps the place of the command and its walk.
LEMMA WalkStep == TypeInv /\ WalkInv /\ [Next]_vars => WalkInv'
  <1> SUFFICES ASSUME TypeInv, WalkInv, [Next]_vars PROVE WalkInv'
    OBVIOUS
  <1> USE DEF Window
  <1>0. /\ work \subseteq DOMAIN Walk /\ PassOver(CurrentFB) \subseteq work
        /\ cmd.op \in Ops \cup {"none"} /\ (cmd # NoCmd => cmd.op # "none" /\ cmd.target # Mgr)
        /\ phase \in {"running", "killing", "joining", "deleting", "deleted"}
    BY DEF TypeInv, TypeOK, PassOver
  <1>1. ASSUME NEW c \in Commands, Command(c[1], c[2]) PROVE WalkInv'
    <2>1. c[1] \in Ops /\ c[2] \in FBs \ {Mgr} BY CommandAssumption DEF Ops
    <2>2. /\ cmd' = [op |-> c[1], target |-> c[2], by |-> "mgr"] /\ work' = Visit(c[1], c[2])
          /\ step' = "visit" /\ phase = "running" /\ UNCHANGED <<fbs, phase>>
      BY <1>1 DEF Command, Begin
    <2>3. \A i \in work' : ItemInv(i)' BY <2>1, <2>2, VisitItems
    <2>4. cmd' # NoCmd BY <2>1, <2>2 DEF NoCmd, Ops
    <2> QED BY <2>2, <2>3, <2>4 DEF WalkInv
  <1>2. CASE StopInstance
    <2>1. Dev \in FBs \ {Mgr} BY TreeAssumption DEF FBs
    <2>2. /\ cmd' = [op |-> "Kill", target |-> Dev, by |-> "main"] /\ work' = Visit("Kill", Dev)
          /\ step' = "visit" /\ phase' = "killing" /\ UNCHANGED fbs
      BY <1>2 DEF StopInstance, Begin
    <2>3. \A i \in work' : ItemInv(i)' BY <2>1, <2>2, VisitItems DEF Ops
    <2>4. cmd' # NoCmd BY <2>2 DEF NoCmd
    <2> QED BY <2>2, <2>3, <2>4 DEF WalkInv
  <1>3. CASE ChangeState
    <2>1. /\ cmd # NoCmd /\ work # {} /\ step = "visit" /\ Current.part = "state"
          /\ UNCHANGED <<cmd, phase, fbs>>
      BY <1>3 DEF ChangeState, Visiting
    <2>2. \/ CurrentFB \in RestartFBs /\ step' = "announce" /\ work' = work
          \/ work' = work \ {Min(work)} /\ step' = step
      BY <1>3 DEF ChangeState
    <2>3. \A i \in work' : ItemInv(i)' BY <2>1, <2>2, ItemsStay
    <2>4. work' = work => Current' = Current /\ CurrentFB' = CurrentFB
      BY DEF Current, CurrentFB, Walk, VisitResource
    <2> QED BY <2>1, <2>2, <2>3, <2>4 DEF WalkInv
  <1>4. CASE RefuseState
    <2>1. /\ cmd # NoCmd /\ work # {} /\ step = "visit" /\ Current.part = "state"
          /\ UNCHANGED fbs
      BY <1>4 DEF RefuseState, Visiting
    <2>2. CASE GoesOn(cmd.op, CurrentFB)
      <3>1. work' = PassOver(CurrentFB) /\ UNCHANGED <<cmd, step, phase>>
        BY <1>4, <2>2 DEF RefuseState
      <3>2. \A i \in work' : ItemInv(i)' BY <1>0, <2>1, <3>1, ItemsStay
      <3> QED BY <2>1, <3>1, <3>2 DEF WalkInv
    <2>3. CASE ~GoesOn(cmd.op, CurrentFB)
      <3>1. CommandDone BY <1>4, <2>3 DEF RefuseState
      <3> QED BY <1>0, <2>1, <3>1 DEF CommandDone, WalkInv, NoCmd
    <2> QED BY <2>2, <2>3
  <1>5. ASSUME Announce \/ KeepRunning \/ StartNewEventChain PROVE WalkInv'
    <2>1. /\ step \in Window /\ UNCHANGED <<cmd, phase, fbs>>
          /\ \/ work' = work \ {Min(work)} /\ step' = "visit"
             \/ /\ work' = work
                /\ step' \in {"again", "wait"} => cmd.op = "Stop"
                /\ step' = "chain" => cmd.op \in {"Start", "Stop"}
                /\ step' \in Window
      BY <1>5 DEF Announce, KeepRunning, StartNewEventChain, NextVisit, WalkInv
    <2>2. \A i \in work' : ItemInv(i)' BY <2>1, ItemsStay
    <2>3. work' = work => Current' = Current /\ CurrentFB' = CurrentFB
      BY DEF Current, CurrentFB, Walk, VisitResource
    <2> QED BY <2>1, <2>2, <2>3 DEF WalkInv
  <1>6. ASSUME WaitForStop \/ ChangeThread PROVE WalkInv'
    <2>1. /\ cmd # NoCmd /\ UNCHANGED <<cmd, phase, fbs>>
          /\ work' = work \ {Min(work)} /\ step' = "visit"
      BY <1>6 DEF WaitForStop, ChangeThread, NextVisit, Visiting, WalkInv
    <2>2. \A i \in work' : ItemInv(i)' BY <2>1, ItemsStay
    <2> QED BY <2>1, <2>2 DEF WalkInv
  <1>7. CASE Respond
    BY <1>0, <1>7 DEF Respond, CommandDone, WalkInv, NoCmd
  <1>8. CASE EndThread
    <2>1. /\ work # {} /\ Current.part = "join" /\ UNCHANGED <<cmd, phase, fbs, work>> /\ step' = "join"
      BY <1>8 DEF EndThread
    <2>2. \A i \in work' : ItemInv(i)' BY <2>1, ItemsStay
    <2>3. Current' = Current BY <2>1 DEF Current, Walk, VisitResource
    <2> QED BY <2>1, <2>2, <2>3 DEF WalkInv
  <1>9. CASE Joined
    <2>1. /\ step = "join" /\ step' = "visit" /\ work' = work \ {Min(work)} /\ UNCHANGED <<cmd, phase>>
      BY <1>9 DEF Joined, NextVisit
    <2>2. work # {} /\ Current.part = "join" /\ Current = Walk[Min(work)] /\ Min(work) \in work
      BY <1>0, <2>1, CurrentIs DEF WalkInv
    <2>3. cmd.op = "Delete" \/ phase = "deleting" BY <2>2 DEF WalkInv, ItemInv
    <2>4. phase = "deleting" => cmd = NoCmd BY DEF WalkInv
    <2>5. \A i \in work' : ItemInv(i)' BY <2>1, <2>3, <2>4 DEF WalkInv, ItemInv
    <2> QED BY <2>1, <2>2, <2>5 DEF WalkInv
  <1>10. CASE JoinManager
    <2>1. /\ phase = "joining" /\ phase' = "deleting" /\ work' = VisitDestruction
          /\ UNCHANGED <<cmd, step, fbs>>
      BY <1>10 DEF JoinManager
    <2>2. cmd = NoCmd BY <2>1 DEF WalkInv
    <2>3. work = {} BY <2>1, <2>2 DEF WalkInv
    <2>4. \A i \in work' : ItemInv(i)' BY <2>1, <2>2 DEF VisitDestruction, ItemInv
    <2> QED BY <2>1, <2>2, <2>3, <2>4 DEF WalkInv
  <1>11. CASE InstanceEnded
    BY <1>11 DEF InstanceEnded, WalkInv, cmdVars
  <1>12. ASSUME UNCHANGED <<fbs, cmdVars, phase>> PROVE WalkInv'
    <2>1. \A i \in work' : ItemInv(i)' BY <1>12, ItemsStay DEF cmdVars
    <2>2. Current' = Current /\ CurrentFB' = CurrentFB
      BY <1>12 DEF Current, CurrentFB, Walk, VisitResource, cmdVars
    <2> QED BY <1>12, <2>1, <2>2 DEF WalkInv, cmdVars
  <1>13. ASSUME NEW r \in Threads, EcetThread(r) PROVE UNCHANGED <<fbs, cmdVars, phase>>
    BY <1>13 DEF EcetThread, RunThread, Loop, Resume, Receive, SendEvent, TestForStop, StopBlock,
                 ReleaseManager, Untouched
  <1>14. CASE UNCHANGED vars
    BY <1>12, <1>14 DEF vars
  <1> QED BY <1>1, <1>2, <1>3, <1>4, <1>5, <1>6, <1>7, <1>8, <1>9, <1>10, <1>11, <1>12, <1>13,
             <1>14 DEF Next, CommandThread

\* Type correctness of the state of resource.h, funcbloc.h, threadbase.h and
\* E_RESTART.h, whatever the commands and however rough the manager.
THEOREM TypeCorrect == Spec => []TypeOK
  <1>1. Init => TypeInv /\ WalkInv BY TypeInit
  <1>2. TypeInv /\ WalkInv /\ [Next]_vars => (TypeInv /\ WalkInv)' BY TypeStep, WalkStep
  <1>3. TypeInv => TypeOK BY DEF TypeInv
  <1> QED BY <1>1, <1>2, <1>3, PTL DEF Spec
-----------------------------------------------------------------------------
(* The event lists *)

\* What E_RESTART sends after nothing and after one output.
LEMMA AppendTwo ==
  ASSUME NEW S, NEW x \in S, NEW y \in S
  PROVE  Append(<<>>, y) = <<y>> /\ Append(<<x>>, y) = <<x, y>>
  <1>1. /\ <<x>> \in Seq(S) /\ Len(<<x>>) = 1 /\ <<x>>[1] = x /\ 1 \in 1..1
        /\ <<x, y>> \in Seq(S) /\ Len(<<x, y>>) = 2 /\ <<x, y>>[1] = x /\ <<x, y>>[2] = y
    OBVIOUS
  <1> DEFINE o == <<x>>
             a == Append(o, y)
             b == <<x, y>>
  <1>2. o \in Seq(S) /\ Len(o) = 1 /\ o[1] = x BY <1>1
  <1> HIDE DEF o
  <1>3. a \in Seq(S) /\ Len(a) = 2 /\ a[1] = x /\ a[2] = y
    <2>1. /\ a \in Seq(S) /\ Len(a) = Len(o) + 1 /\ a[Len(o) + 1] = y
          /\ \A i \in 1..Len(o) : a[i] = o[i]
      <3>1. o \in Seq(S) /\ y \in S BY <1>2
      <3>2. a \in Seq(S) /\ Len(a) = Len(o) + 1 BY <3>1, AppendProperties
      <3>3. a[Len(o) + 1] = y BY <3>1, AppendProperties
      <3>4. \A i \in 1..Len(o) : a[i] = o[i] BY <3>1, AppendProperties
      <3> QED BY <3>2, <3>3, <3>4
    <2> HIDE DEF a
    <2>2. 1 + 1 = 2 OBVIOUS
    <2> QED BY <1>1, <1>2, <2>1, <2>2
  <1>4. b \in Seq(S) /\ Len(b) = 2 /\ b[1] = x /\ b[2] = y BY <1>1
  <1> HIDE DEF a, b
  <1>5. a = b BY <1>3, <1>4
  <1> QED BY <1>5 DEF a, b, o

\* An event taken from a list without repetitions has left it.
LEMMA TailHolds ==
  ASSUME NEW S, NEW q \in Seq(S), q # <<>>, Once(q)
  PROVE  /\ Once(Tail(q)) /\ Holds(q, Head(q))
         /\ \A x : Holds(Tail(q), x) <=> Holds(q, x) /\ x # Head(q)
  <1>1. /\ Len(q) \in Nat \ {0} /\ DOMAIN q = 1..Len(q) /\ Head(q) = q[1]
        /\ Tail(q) \in Seq(S) /\ Len(Tail(q)) = Len(q) - 1
        /\ \A i \in 1..(Len(q) - 1) : Tail(q)[i] = q[i + 1]
    OBVIOUS
  <1>2. DOMAIN Tail(q) = 1..(Len(q) - 1)
    BY <1>1
  <1>3. Once(Tail(q))
    <2> SUFFICES ASSUME NEW i \in 1..(Len(q) - 1), NEW j \in 1..(Len(q) - 1),
                        Tail(q)[i] = Tail(q)[j] PROVE i = j
      BY <1>2 DEF Once
    <2>1. q[i + 1] = q[j + 1] /\ i + 1 \in 1..Len(q) /\ j + 1 \in 1..Len(q)
      BY <1>1
    <2> QED BY <1>1, <2>1 DEF Once
  <1>4. Holds(q, Head(q))
    BY <1>1 DEF Holds
  <1>5. ASSUME NEW x, Holds(Tail(q), x) PROVE Holds(q, x) /\ x # Head(q)
    <2>1. PICK i \in 1..(Len(q) - 1) : Tail(q)[i] = x BY <1>2, <1>5 DEF Holds
    <2>2. q[i + 1] = x /\ i + 1 \in 1..Len(q) /\ i + 1 # 1 /\ 1 \in 1..Len(q) BY <1>1, <2>1
    <2> QED BY <1>1, <2>2 DEF Holds, Once
  <1>6. ASSUME NEW x, Holds(q, x), x # Head(q) PROVE Holds(Tail(q), x)
    <2>1. PICK i \in 1..Len(q) : q[i] = x BY <1>1, <1>6 DEF Holds
    <2>2. i # 1 BY <1>1, <1>6, <2>1
    <2>3. i - 1 \in 1..(Len(q) - 1) /\ Tail(q)[i - 1] = x BY <1>1, <2>1, <2>2
    <2> QED BY <1>2, <2>3 DEF Holds
  <1> QED BY <1>3, <1>4, <1>5, <1>6

\* An event put into a list that did not hold it.
LEMMA AppendHolds ==
  ASSUME NEW S, NEW q \in Seq(S), NEW b \in S, ~Holds(q, b), Once(q)
  PROVE  /\ Once(Append(q, b))
         /\ \A x : Holds(Append(q, b), x) <=> Holds(q, x) \/ x = b
  <1> DEFINE n == Len(q)
             a == Append(q, b)
  <1>1. /\ n \in Nat /\ DOMAIN q = 1..n /\ DOMAIN a = 1..(n + 1)
        /\ a[n + 1] = b /\ \A i \in 1..n : a[i] = q[i]
    OBVIOUS
  <1> HIDE DEF n, a
  <1>2. \A i \in 1..(n + 1) : i = n + 1 \/ i \in 1..n
    BY <1>1
  <1>3. \A i \in 1..n : q[i] # b
    BY <1>1 DEF Holds
  <1>4. Once(a)
    BY <1>1, <1>2, <1>3 DEF Once
  <1>5. n + 1 \in 1..(n + 1) /\ 1..n \subseteq 1..(n + 1)
    BY <1>1
  <1>6. \A x : Holds(a, x) <=> Holds(q, x) \/ x = b
    BY <1>1, <1>2, <1>5 DEF Holds
  <1> QED BY <1>4, <1>6 DEF a

\* A list without the event of an E_RESTART has room for it.
LEMMA RoomForOne ==
  ASSUME ListsSuffice, TypeInv, QueueInv,
         NEW b \in RestartFBs, ~InQueue(b)
  PROVE  Len(queue[ResourceOf(b)]) < QueueSize
  <1> DEFINE r == ResourceOf(b)
             q == queue[r]
             S == RestartFBs \cap BlocksOf(r)
  <1>1. r \in Resources /\ b \in S
    BY ResourceOfBlock
  <1>2. IsFiniteSet(BlocksOf(r))
    <2>1. BlockList[r] \in Seq(BlocksOf(r)) /\ Len(BlockList[r]) \in Int
          /\ DOMAIN BlockList[r] = 1..Len(BlockList[r])
      BY <1>1, TreeAssumption
    <2>2. BlockList[r] \in Surjection(1..Len(BlockList[r]), BlocksOf(r))
      <3>1. BlockList[r] \in [1..Len(BlockList[r]) -> BlocksOf(r)] BY <2>1
      <3>2. \A f \in BlocksOf(r) : \E i \in 1..Len(BlockList[r]) : BlockList[r][i] = f
        BY <2>1 DEF BlocksOf, ToSet
      <3> QED BY <3>1, <3>2 DEF Surjection
    <2>3. IsFiniteSet(1..Len(BlockList[r])) BY <2>1, FS_Interval
    <2> QED BY <2>2, <2>3, FS_Surjection
  <1>3. /\ IsFiniteSet(S) /\ Cardinality(S) \in Nat
        /\ IsFiniteSet(S \ {b}) /\ Cardinality(S \ {b}) = Cardinality(S) - 1
    <2>1. S \in SUBSET BlocksOf(r) /\ b \in S BY <1>1
    <2> HIDE DEF S
    <2>2. IsFiniteSet(S) BY <1>2, <2>1, FS_Subset
    <2> QED BY <2>1, <2>2, FS_RemoveElement, FS_CardinalityType
  <1>4. Cardinality(S) <= QueueSize
    BY <1>1 DEF ListsSuffice
  <1>5. q \in Seq(S) /\ Once(q) /\ ~Holds(q, b)
    BY <1>1 DEF TypeInv, TypeOK, QueueInv, InQueue
  <1>6. Len(q) \in Nat /\ QueueSize \in Nat
    BY <1>5, TreeFacts
  <1>7. CASE Len(q) >= QueueSize
    <2>1. q \in [1..Len(q) -> S \ {b}]
      <3> HIDE DEF q, S
      <3>1. q \in [1..Len(q) -> S] /\ DOMAIN q = 1..Len(q) BY <1>5
      <3>2. \A i \in 1..Len(q) : q[i] # b BY <1>5, <3>1 DEF Holds
      <3> QED BY <3>1, <3>2
    <2>2. IsFiniteSet(1..Len(q)) /\ Cardinality(1..Len(q)) = Len(q)
      BY <1>6, FS_Interval
    <2>3. Cardinality(S \ {b}) < Cardinality(1..Len(q))
      <3> HIDE DEF q, S
      <3> QED BY <1>3, <1>4, <1>6, <1>7, <2>2
    <2>4. \E i, j \in 1..Len(q) : i # j /\ q[i] = q[j]
      <3> HIDE DEF q, S
      <3> QED BY <1>3, <2>1, <2>2, <2>3, FS_PigeonHole
    <2> QED BY <1>5, <2>4 DEF Once
  <1> QED BY <1>6, <1>7
-----------------------------------------------------------------------------
(* The tree, and the threads of an instance that ends *)

\* A block is deleted with its resource only.
LEMMA TreeStep == TypeInv /\ WalkInv /\ TreeInv /\ [Next]_vars => TreeInv'
  <1> SUFFICES ASSUME TypeInv, WalkInv, TreeInv, [Next]_vars PROVE TreeInv'
    OBVIOUS
  <1>1. CASE Joined
    <2>1. step = "join" /\ fbs' = fbs \ Within(CurrentFB) BY <1>1 DEF Joined
    <2>2. CurrentFB \in Threads
      BY <2>1, CurrentIs DEF WalkInv, TypeInv, TypeOK, Visits, CurrentFB
    <2>3. CASE CurrentFB = Mgr
      BY <2>1, <2>3, TreeAssumption, TreeFacts DEF TreeInv, Within, BlocksOf, Blocks, Resources
    <2>4. CASE CurrentFB \in Resources
      <3> DEFINE q == CurrentFB
      <3>1. Within(q) = {q} \cup BlocksOf(q)
        BY <2>4, TreeFacts DEF Within
      <3>2. ASSUME NEW r \in Resources, r \in fbs' PROVE BlocksOf(r) \subseteq fbs'
        <4>1. r # q /\ BlocksOf(r) \subseteq fbs BY <2>1, <3>1, <3>2 DEF TreeInv
        <4>2. BlocksOf(r) \cap BlocksOf(q) = {} BY <2>4, <4>1, TreeAssumption
        <4>3. q \notin BlocksOf(r) BY <2>4, TreeAssumption DEF Blocks
        <4> QED BY <2>1, <3>1, <4>1, <4>2, <4>3
      <3> QED BY <3>2 DEF TreeInv, Resources, BlocksOf
    <2> QED BY <2>2, <2>3, <2>4, TreeFacts
  <1>2. CASE InstanceEnded
    BY <1>2 DEF InstanceEnded, TreeInv
  <1>3. CASE UNCHANGED fbs
    BY <1>3 DEF TreeInv, Resources, BlocksOf
  <1>4. ASSUME NEW c \in Commands, Command(c[1], c[2]) PROVE UNCHANGED fbs
    BY <1>4 DEF Command
  <1>5. ASSUME NEW r \in Threads, EcetThread(r) PROVE UNCHANGED fbs
    BY <1>5 DEF EcetThread, RunThread, Loop, Resume, Receive, SendEvent, TestForStop, StopBlock,
                 ReleaseManager, Untouched
  <1>6. CASE StopInstance
    BY <1>3, <1>6 DEF StopInstance
  <1>7. CASE UNCHANGED vars
    BY <1>3, <1>7 DEF vars
  <1>8. (\/ ChangeState \/ RefuseState \/ Announce \/ KeepRunning \/ StartNewEventChain
         \/ WaitForStop \/ ChangeThread \/ Respond \/ EndThread \/ JoinManager) => UNCHANGED fbs
    <2>1. ChangeState => UNCHANGED fbs BY DEF ChangeState
    <2>2. RefuseState => UNCHANGED fbs BY DEF RefuseState
    <2>3. Announce => UNCHANGED fbs BY DEF Announce
    <2>4. KeepRunning => UNCHANGED fbs BY DEF KeepRunning
    <2>5. StartNewEventChain => UNCHANGED fbs BY DEF StartNewEventChain
    <2>6. WaitForStop => UNCHANGED fbs BY DEF WaitForStop
    <2>7. ChangeThread => UNCHANGED fbs BY DEF ChangeThread
    <2>8. Respond => UNCHANGED fbs BY DEF Respond
    <2>9. EndThread => UNCHANGED fbs BY DEF EndThread
    <2>10. JoinManager => UNCHANGED fbs BY DEF JoinManager
    <2> QED BY <2>1, <2>2, <2>3, <2>4, <2>5, <2>6, <2>7, <2>8, <2>9, <2>10
  <1> QED BY <1>1, <1>2, <1>3, <1>4, <1>5, <1>6, <1>7, <1>8 DEF Next, CommandThread

\* The end of the instance and a Stop or Kill find the threads quiet.
LEMMA ThreadStep ==
  ASSUME Considerately, TypeInv, WalkInv, ThreadInv, [Next]_vars
  PROVE  ThreadInv'
  <1> USE DEF TypeInv, TypeOK
  <1> USE TreeFacts
  <1>1. ASSUME NEW c \in Commands, Command(c[1], c[2]) PROVE ThreadInv'
    <2>1. /\ phase' = "running" /\ Quiet /\ thread' = [thread EXCEPT ![Mgr] = "executing"]
      BY <1>1 DEF Command, Considerate, Considerately
    <2> QED BY <2>1 DEF ThreadInv, Quiet, Resting, Suspended
  <1>2. CASE StopInstance
    <2>1. Quiet /\ UNCHANGED <<thread, queue>>
      BY <1>2 DEF StopInstance, Considerately, threadVars
    <2> QED BY <2>1 DEF ThreadInv, Quiet, Resting, Suspended
  <1>3. CASE RefuseState \/ Respond
    <2>1. \/ UNCHANGED <<cmd, thread, phase, queue>>
          \/ /\ cmd # NoCmd /\ cmd' = NoCmd /\ UNCHANGED queue
             /\ thread' = IF cmd.by = "mgr" THEN [thread EXCEPT ![Mgr] = "loop"] ELSE thread
             /\ phase' = IF cmd.by = "main" THEN "joining" ELSE phase
      <3>1. CASE RefuseState
        BY <3>1 DEF RefuseState, CommandDone, Visiting
      <3>2. CASE Respond
        BY <3>2 DEF Respond, CommandDone
      <3> QED BY <1>3, <3>1, <3>2
    <2>2. cmd # NoCmd /\ phase' # "running" => phase # "running"
      BY <2>1 DEF WalkInv
    <2>3. cmd' # cmd => cmd'.op \notin {"Stop", "Kill"} BY <2>1 DEF NoCmd
    <2>4. \A r \in Resources : thread'[r] = thread[r] BY <2>1
    <2> QED BY <2>1, <2>2, <2>3, <2>4 DEF ThreadInv
  <1>4. CASE StartNewEventChain
    <2>1. cmd.op \in {"Start", "Stop"} /\ cmd # NoCmd /\ UNCHANGED <<thread, cmd, phase>>
      BY <1>4 DEF StartNewEventChain, WalkInv, Window
    <2>2. phase = "running" BY <2>1 DEF WalkInv
    <2> QED BY <2>1, <2>2 DEF ThreadInv
  <1>5. CASE ChangeThread
    <2>1. /\ cmd # NoCmd /\ UNCHANGED <<cmd, phase>>
          /\ thread' = thread \/ cmd.op = "Start"
          /\ \A r \in Resources : queue'[r] = queue[r] \/ queue'[r] = <<>>
      BY <1>5 DEF ChangeThread, Visiting
    <2>2. phase # "running" => cmd.op = "Kill" BY <2>1 DEF WalkInv
    <2> QED BY <2>1, <2>2 DEF ThreadInv
  <1>6. ASSUME UNCHANGED <<thread, queue, cmd>>, phase' # "running" => phase # "running"
        PROVE  ThreadInv'
    BY <1>6 DEF ThreadInv, Resources
  <1>7. CASE ChangeState \/ Announce \/ KeepRunning \/ WaitForStop \/ EndThread \/ Joined
          \/ JoinManager \/ InstanceEnded \/ UNCHANGED vars
    <2>1. UNCHANGED <<thread, queue, cmd>> /\ (phase' = phase \/ phase \in {"joining", "deleting"})
      BY <1>7 DEF ChangeState, Announce, KeepRunning, WaitForStop, EndThread, Joined, JoinManager,
                  InstanceEnded, vars, threadVars, cmdVars
    <2> QED BY <1>6, <2>1
  <1>8. ASSUME NEW r \in Threads, EcetThread(r) PROVE ThreadInv'
    <2>1. /\ thread[r] = "created" => thread'[r] = "loop"
          /\ thread'[r] # "created" /\ thread[r] \notin {"none", "ended"}
          /\ thread[r] = "suspended" => thread'[r] = "loop"
          /\ thread[r] = "loop" /\ queue[r] = <<>> => thread'[r] \in {"ended", "suspended"}
          /\ thread[r] \in {"loop", "suspended"} => queue' = queue
          /\ UNCHANGED <<cmd, phase>>
          /\ \A s \in Threads \ {r} : thread'[s] = thread[s] /\ queue'[s] = queue[s]
      BY <1>8 DEF EcetThread, RunThread, Loop, Resume, Receive, SendEvent, TestForStop, StopBlock,
                  ReleaseManager, Untouched, ThreadAt, cmdVars
    <2> QED BY <2>1 DEF ThreadInv
  <1> QED BY <1>1, <1>2, <1>3, <1>4, <1>5, <1>7, <1>8 DEF Next, CommandThread
-----------------------------------------------------------------------------
(* A block the step does not disturb *)

\* What a block shows of its announcement, its stage and place apart.
Keeps(b) == /\ history'[b] = history[b] /\ event'[b] = event[b]
            /\ sem'[b] = sem[b] /\ state'[b] = state[b]

\* A step keeps the invariant of a block it does not disturb.
LEMMA BlockStays ==
  ASSUME NEW b \in RestartFBs, BlockInv(b), Keeps(b), Stage(b)' = Stage(b),
         \/ ~At(b) /\ ~At(b)'
         \/ At(b) /\ At(b)' /\ UNCHANGED <<step, cmd>>,
         \/ UNCHANGED <<cmd, fbs>>
         \/ cmd'.op \notin {"Stop", "Kill"}
         \/ Stage(b) = "rest"
  PROVE  BlockInv(b)'
  <1> USE DEF Keeps, BlockInv
  <1>1. First(b)' = First(b) BY DEF First
  <1>2. EventInv(b)' BY <1>1 DEF EventInv
  <1>3. StateInv(b)' BY DEF StateInv
  <1>4. OutsInv(b)' BY <1>1 DEF OutsInv
  <1>5. UNCHANGED <<cmd, fbs>> => (b \in Within(cmd.target) \cap fbs)' = (b \in Within(cmd.target) \cap fbs)
    BY DEF Within, FBs, Threads, Blocks, BlocksOf, Resources
  <1>6. SettledInv(b)' BY <1>5 DEF SettledInv
  <1> QED BY <1>2, <1>3, <1>4, <1>6

\* An event neither moved in its list nor served keeps its stage.
LEMMA StageStays ==
  ASSUME NEW b \in RestartFBs,
         \/ InQueue(b)' /\ InQueue(b)
         \/ ~InQueue(b)' /\ ~InQueue(b),
         LET r == ResourceOf(b) IN
           \/ thread'[r] = thread[r] /\ executing'[r] = executing[r]
           \/ thread[r] \notin Serving /\ thread'[r] \notin Serving
  PROVE  Stage(b)' = Stage(b)
  <1>1. ResourceOf(b)' = ResourceOf(b) BY DEF ResourceOf, Resources, BlocksOf
  <1>2. Served(b)' = Served(b) BY <1>1 DEF Served
  <1>3. Served(b) => thread'[ResourceOf(b)] = thread[ResourceOf(b)] BY DEF Served
  <1> QED BY <1>1, <1>2, <1>3 DEF Stage

\* The order of the outputs follows from the stage the event has reached.
LEMMA BlockOrder ==
  ASSUME TypeInv, \A b \in RestartFBs : BlockInv(b)
  PROVE  AnnouncedInOrder
  <1> SUFFICES ASSUME NEW b \in RestartFBs
               PROVE  /\ history[b].outs \in {<<>>, <<First(b)>>, <<First(b), "STOP">>}
                      /\ Len(history[b].outs) = 2 => history[b].last # "Start"
                      /\ sem[b] => history[b].outs = <<First(b), "STOP">>
    BY DEF AnnouncedInOrder, First
  <1>1. OutsInv(b) /\ Len(<<>>) # 2 /\ Len(<<First(b)>>) # 2 BY DEF BlockInv
  <1> QED BY <1>1 DEF OutsInv

\* Nothing is announced any more once the instance ends.
LEMMA OrderStays ==
  ASSUME TypeInv, WalkInv, ThreadInv, AnnouncedInOrder, phase # "running", [Next]_vars
  PROVE  AnnouncedInOrder' /\ phase' # "running"
  <1>0. /\ phase # "running" /\ \A r \in Resources : thread[r] \notin Serving
        /\ thread[Mgr] \notin Serving /\ \A r \in Threads : r = Mgr \/ r \in Resources
        /\ cmd # NoCmd => cmd.op = "Kill"
    <2>1. cmd # NoCmd => cmd.op = "Kill" BY DEF WalkInv
    <2> QED BY <2>1, TreeFacts DEF ThreadInv, TypeInv, Serving
  <1>1. ASSUME UNCHANGED <<history, sem>>, phase' = phase \/ phase' # "running"
        PROVE  AnnouncedInOrder' /\ phase' # "running"
    BY <1>0, <1>1 DEF AnnouncedInOrder
  <1>2. CASE ChangeState
    <2>1. /\ phase' = phase /\ sem' = sem /\ cmd.op = "Kill"
          /\ \/ history' = history
             \/ history' = [history EXCEPT ![CurrentFB] =
                              [last |-> cmd.op,
                               warm |-> IF cmd.op = "Start" THEN @.last = "Stop" ELSE @.warm,
                               outs |-> IF cmd.op = "Start" THEN <<>> ELSE @.outs]]
      BY <1>0, <1>2 DEF ChangeState, Visiting
    <2>2. ASSUME NEW b \in RestartFBs
          PROVE /\ history'[b].warm = history[b].warm /\ history'[b].outs = history[b].outs
                /\ history'[b].last \in {history[b].last, "Kill"}
      BY <2>1 DEF TypeInv
    <2>3. ASSUME NEW b \in RestartFBs
          PROVE  LET h == history'[b]
                     first == IF h.warm THEN "WARM" ELSE "COLD"
                 IN  /\ h.outs \in {<<>>, <<first>>, <<first, "STOP">>}
                     /\ Len(h.outs) = 2 => h.last # "Start"
                     /\ sem'[b] => h.outs = <<first, "STOP">>
      <3>1. LET h == history[b]
                first == IF h.warm THEN "WARM" ELSE "COLD"
            IN  /\ h.outs \in {<<>>, <<first>>, <<first, "STOP">>}
                /\ Len(h.outs) = 2 => h.last # "Start"
                /\ sem[b] => h.outs = <<first, "STOP">>
        BY DEF AnnouncedInOrder
      <3> QED BY <2>1, <2>2, <3>1
    <2>4. phase' # "running" BY <1>0, <2>1
    <2> QED BY <2>3, <2>4 DEF AnnouncedInOrder
  <1>3. CASE \E c \in Commands : Command(c[1], c[2])
    BY <1>0, <1>3 DEF Command
  <1>4. CASE StopInstance
    BY <1>0, <1>4 DEF StopInstance
  <1>5. CASE WaitForStop
    BY <1>0, <1>5 DEF WaitForStop, WalkInv, Window
  <1>6. CASE RefuseState
    BY <1>1, <1>6 DEF RefuseState, CommandDone, restartVars
  <1>7. CASE Respond
    BY <1>1, <1>7 DEF Respond, CommandDone, restartVars
  <1>8. CASE Announce BY <1>1, <1>8 DEF Announce
  <1>9. CASE KeepRunning BY <1>1, <1>9 DEF KeepRunning, restartVars
  <1>10. CASE StartNewEventChain BY <1>1, <1>10 DEF StartNewEventChain, restartVars
  <1>11. CASE ChangeThread BY <1>1, <1>11 DEF ChangeThread, restartVars
  <1>12. CASE EndThread BY <1>1, <1>12 DEF EndThread, restartVars
  <1>13. CASE Joined BY <1>1, <1>13 DEF Joined, restartVars
  <1>14. CASE JoinManager BY <1>1, <1>14 DEF JoinManager, restartVars
  <1>15. CASE InstanceEnded BY <1>1, <1>15 DEF InstanceEnded, restartVars
  <1>16. CASE \E r \in Threads : EcetThread(r)
    <2> PICK r \in Threads : EcetThread(r) BY <1>16
    <2>1. thread[r] \notin Serving BY <1>0
    <2>2. RunThread(r) \/ Loop(r) \/ Resume(r) \/ Receive(r)
      BY <2>1 DEF EcetThread, SendEvent, TestForStop, StopBlock, ReleaseManager, ThreadAt, Serving
    <2>3. UNCHANGED <<history, sem, phase>>
      BY <2>2 DEF RunThread, Loop, Resume, Receive, restartVars, Untouched
    <2> QED BY <1>1, <2>3
  <1>17. CASE UNCHANGED vars BY <1>1, <1>17 DEF vars, restartVars
  <1> QED BY <1>2, <1>3, <1>4, <1>5, <1>6, <1>7, <1>8, <1>9, <1>10, <1>11, <1>12, <1>13, <1>14,
             <1>15, <1>16, <1>17 DEF Next, CommandThread
-----------------------------------------------------------------------------
(* The steps of an event chain thread *)

\* The running state of the instance, in which the announcements are made.
Announcing ==
  /\ TypeInv /\ WalkInv /\ TreeInv /\ ThreadInv /\ QueueInv
  /\ phase = "running" /\ \A b \in RestartFBs : BlockInv(b)
Announced == QueueInv' /\ \A b \in RestartFBs : BlockInv(b)'

\* A step that leaves lists and served events alone.
LEMMA QueueStays ==
  ASSUME QueueInv, UNCHANGED <<queue, executing>>,
         \A r \in Resources : thread'[r] \in Serving => thread[r] \in Serving
  PROVE  QueueInv'
  BY ResourceOfBlock DEF QueueInv, InQueue, Served, Once, ResourceOf, Resources, BlocksOf

\* A step that leaves the command's thread at its place.
LEMMA PlaceStays ==
  ASSUME NEW b \in RestartFBs, UNCHANGED <<step, work>>
  PROVE  At(b)' = At(b)
  BY DEF At, Current, CurrentFB, Walk, VisitResource

\* Each stage of executeEvent moves one event on (E_RESTART.cpp:54).
LEMMA ServeStep ==
  ASSUME Announcing, NEW r \in Threads, EcetThread(r)
  PROVE  Announced
  <1> USE DEF Announcing, Announced
  <1>1. UNCHANGED <<fbs, step, work, cmd>>
    BY DEF EcetThread, RunThread, Loop, Resume, Receive, SendEvent, TestForStop, StopBlock,
           ReleaseManager, Untouched, cmdVars
  <1>2. ASSUME NEW b \in RestartFBs PROVE At(b)' = At(b)
    BY <1>1, PlaceStays
  <1>3. ASSUME NEW b \in RestartFBs, Keeps(b), Stage(b)' = Stage(b) PROVE BlockInv(b)'
    BY <1>1, <1>2, <1>3, BlockStays
  <1>4. ASSUME NEW b \in RestartFBs, ResourceOf(b) # r,
               queue'[ResourceOf(b)] = queue[ResourceOf(b)],
               thread'[ResourceOf(b)] = thread[ResourceOf(b)],
               executing'[ResourceOf(b)] = executing[ResourceOf(b)]
        PROVE  Stage(b)' = Stage(b)
    <2>1. InQueue(b)' = InQueue(b) BY <1>4 DEF InQueue, Holds, ResourceOf, Resources, BlocksOf
    <2> QED BY <1>4, <2>1, StageStays
  <1>6. CASE RunThread(r) \/ Loop(r) \/ Resume(r)
    <2>1. /\ UNCHANGED <<queue, executing, state, event, sem, history>>
          /\ \A s \in Threads \ {r} : thread'[s] = thread[s]
          /\ thread[r] \notin Serving /\ thread'[r] \notin Serving
      BY <1>6 DEF RunThread, Loop, Resume, ThreadAt, Serving, restartVars, TypeInv, TypeOK
    <2>2. QueueInv' BY <2>1, QueueStays, TreeFacts
    <2>3. ASSUME NEW b \in RestartFBs PROVE Stage(b)' = Stage(b)
      <3>1. InQueue(b)' = InQueue(b) BY <2>1 DEF InQueue, Holds, ResourceOf, Resources, BlocksOf
      <3> QED BY <2>1, <3>1, StageStays, ResourceOfBlock
    <2> QED BY <1>3, <2>1, <2>2, <2>3 DEF Keeps
  <1>7. CASE Receive(r)
    <2>1. /\ thread[r] = "receive" /\ UNCHANGED <<state, event, sem, history>>
          /\ \A s \in Threads \ {r} : /\ thread'[s] = thread[s] /\ queue'[s] = queue[s]
                                      /\ executing'[s] = executing[s]
      BY <1>7 DEF Receive, restartVars, TypeInv, TypeOK
    <2>2. \A b \in RestartFBs : Keeps(b) BY <2>1 DEF Keeps
    <2>3. CASE queue[r] = <<>>
      <3>1. thread'[r] = "loop" /\ UNCHANGED <<queue, executing>>
        BY <1>7, <2>3 DEF Receive, TypeInv, TypeOK
      <3>2. QueueInv' BY <2>1, <3>1, QueueStays, TreeFacts DEF Serving
      <3>3. ASSUME NEW b \in RestartFBs PROVE Stage(b)' = Stage(b)
        <4>1. InQueue(b)' = InQueue(b) BY <3>1 DEF InQueue, Holds, ResourceOf, Resources, BlocksOf
        <4> QED BY <2>1, <3>1, <4>1, StageStays, ResourceOfBlock DEF Serving
      <3> QED BY <1>3, <2>2, <3>2, <3>3
    <2>4. CASE queue[r] # <<>>
      <3> PICK c : c = Head(queue[r])
        OBVIOUS
      <3> DEFINE q == queue[r]
                 S == RestartFBs \cap BlocksOf(r)
      <3>1. r \in Resources BY <2>4, TreeFacts DEF TypeInv, TypeOK
      <3>2. q \in Seq(S) /\ q # <<>> /\ Once(q)
        BY <2>4, <3>1 DEF TypeInv, TypeOK, QueueInv
      <3>3. /\ Once(Tail(q)) /\ Holds(q, c) /\ c \in S
            /\ \A x : Holds(Tail(q), x) <=> Holds(q, x) /\ x # c
        <4> HIDE DEF S
        <4> QED BY <3>2, TailHolds, HeadTail
      <3>4. c \in RestartFBs /\ ResourceOf(c) = r
        BY <3>1, <3>3, ResourceOfBlock
      <3>5. Stage(c) = "queued" /\ InQueue(c) BY <3>3, <3>4 DEF Stage, InQueue
      <3>6. state[c] = "RUNNING" /\ event[c] # "none"
        <4>1. /\ history[c].last \in {"Start", "Stop"}
              /\ history[c].last = "Stop" => At(c) /\ step = "wait"
          BY <3>4, <3>5 DEF BlockInv, OutsInv
        <4>2. history[c].last = "Start" => ~At(c)
          BY <3>4, <3>5 DEF BlockInv, OutsInv
        <4> QED BY <3>4, <3>5, <4>1, <4>2 DEF BlockInv, StateInv, EventInv, First
      <3>7. /\ thread' = [thread EXCEPT ![r] = "send"]
            /\ executing' = [executing EXCEPT ![r] = c]
            /\ queue' = [queue EXCEPT ![r] = Tail(@)]
        BY <1>7, <2>4, <3>6 DEF Receive
      <3>8. thread'[r] = "send" /\ executing'[r] = c /\ queue'[r] = Tail(q)
        BY <3>7 DEF TypeInv, TypeOK
      <3> HIDE DEF q, S
      <3>9. ASSUME NEW b \in RestartFBs, ResourceOf(b) = r
            PROVE  /\ InQueue(b)' <=> InQueue(b) /\ b # c
                   /\ Served(b)' <=> b = c
                   /\ ~Served(b)
        <4>1. ResourceOf(b)' = ResourceOf(b) BY DEF ResourceOf, Resources, BlocksOf
        <4>2. InQueue(b)' <=> Holds(Tail(q), b) BY <3>8, <3>9, <4>1 DEF InQueue, Holds
        <4>3. InQueue(b) <=> Holds(q, b) BY <3>9 DEF InQueue, q
        <4>4. Served(b)' <=> b = c BY <3>8, <3>9, <4>1 DEF Served, Serving
        <4>5. ~Served(b) BY <2>1, <3>9 DEF Served, Serving
        <4> QED BY <3>3, <4>2, <4>3, <4>4, <4>5
      <3>10. ASSUME NEW b \in RestartFBs, ResourceOf(b) # r
             PROVE  /\ InQueue(b)' = InQueue(b) /\ Served(b)' = Served(b)
                    /\ Stage(b)' = Stage(b)
        <4>1. ResourceOf(b)' = ResourceOf(b) BY DEF ResourceOf, Resources, BlocksOf
        <4>2. ResourceOf(b) \in Threads \ {r} BY <3>10, ResourceOfBlock
        <4> QED BY <2>1, <4>1, <4>2 DEF InQueue, Holds, Served, Stage
      <3>11. QueueInv'
        <4>1. ASSUME NEW s \in Resources PROVE Once(queue'[s])
          <5>1. s = r \/ queue'[s] = queue[s] BY <2>1, TreeFacts
          <5> QED BY <3>3, <3>8, <5>1 DEF QueueInv
        <4>2. ASSUME NEW b \in RestartFBs PROVE ~(InQueue(b) /\ Served(b))'
          BY <3>9, <3>10 DEF QueueInv
        <4> QED BY <4>1, <4>2 DEF QueueInv, Once, Resources
      <3>12. ASSUME NEW b \in RestartFBs, b # c PROVE BlockInv(b)'
        <4>1. Stage(b)' = Stage(b)
          BY <3>9, <3>10, <3>12 DEF Stage
        <4> QED BY <1>3, <2>2, <4>1
      <3>13. BlockInv(c)'
        <4>1. Stage(c)' = "send"
          <5>1. ResourceOf(c)' = ResourceOf(c) BY DEF ResourceOf, Resources, BlocksOf
          <5> QED BY <3>4, <3>8, <3>9, <5>1 DEF Stage
        <4>2. Keeps(c) /\ At(c)' = At(c) /\ BlockInv(c) /\ First(c)' = First(c)
          BY <1>2, <2>2, <3>4 DEF Keeps, First
        <4>3. EventInv(c)' BY <1>1, <4>2 DEF Keeps, BlockInv, EventInv
        <4>4. StateInv(c)' BY <1>1, <3>5, <4>1, <4>2 DEF Keeps, BlockInv, StateInv
        <4>5. OutsInv(c)' BY <1>1, <3>5, <4>1, <4>2 DEF Keeps, BlockInv, OutsInv
        <4>6. SettledInv(c)'
          <5>1. Within(cmd.target)' = Within(cmd.target)
            BY <1>1 DEF Within, FBs, Threads, Blocks, BlocksOf, Resources
          <5> QED BY <1>1, <3>5, <4>2, <5>1 DEF Keeps, BlockInv, SettledInv
        <4> QED BY <4>3, <4>4, <4>5, <4>6 DEF BlockInv
      <3> QED BY <3>11, <3>12, <3>13
    <2> QED BY <2>3, <2>4
  <1>8. CASE SendEvent(r) \/ TestForStop(r) \/ StopBlock(r) \/ ReleaseManager(r)
    <2> PICK c : c = executing[r]
      OBVIOUS
    <2>1. /\ thread[r] \in Serving /\ UNCHANGED <<queue, executing, event>>
          /\ \A s \in Threads \ {r} : thread'[s] = thread[s]
          /\ \A b \in RestartFBs \ {c} : Keeps(b)
      <3> USE DEF ThreadAt, Serving, restartVars, TypeInv, TypeOK, Keeps
      <3>1. CASE SendEvent(r) BY <3>1 DEF SendEvent
      <3>2. CASE TestForStop(r) BY <3>2 DEF TestForStop
      <3>3. CASE StopBlock(r) BY <3>3, ResourceOfBlock DEF StopBlock
      <3>4. CASE ReleaseManager(r) BY <3>4 DEF ReleaseManager
      <3> QED BY <1>8, <3>1, <3>2, <3>3, <3>4
    <2>2. r \in Resources /\ c \in RestartFBs /\ c \in BlocksOf(r)
      BY <2>1, TreeFacts DEF TypeInv, TypeOK, Serving
    <2>3. ResourceOf(c) = r /\ Served(c) /\ ~InQueue(c) /\ Stage(c) = thread[r]
      BY <2>1, <2>2, ResourceOfBlock DEF Served, QueueInv, Stage
    <2>4. QueueInv' BY <2>1, QueueStays, TreeFacts
    <2>5. ASSUME NEW b \in RestartFBs
          PROVE  ResourceOf(b)' = ResourceOf(b) /\ InQueue(b)' = InQueue(b)
      BY <2>1 DEF InQueue, Holds, ResourceOf, Resources, BlocksOf
    <2>6. ASSUME NEW b \in RestartFBs \ {c} PROVE BlockInv(b)'
      <3>1. Stage(b)' = Stage(b)
        <4>1. CASE ResourceOf(b) = r BY <2>1, <2>5, <4>1 DEF Stage, Served
        <4>2. CASE ResourceOf(b) # r BY <2>1, <2>5, <4>2, ResourceOfBlock DEF Stage, Served
        <4> QED BY <4>1, <4>2
      <3> QED BY <1>3, <2>1, <3>1
    <2>7. Stage(c)' = IF thread'[r] \in Serving THEN thread'[r] ELSE "rest"
      BY <2>1, <2>2, <2>3, <2>5 DEF Stage, Served
    <2>8. BlockInv(c) /\ At(c)' = At(c) BY <1>2, <2>2
    <2>9. /\ history[c].last \in {"Start", "Stop"}
          /\ history[c].last = "Start" => ~At(c) /\ Stage(c) \in {"send", "test"}
          /\ history[c].last = "Stop" => At(c) /\ step = "wait"
          /\ ~sem[c] /\ event[c] = IF history[c].last = "Stop" THEN "STOP" ELSE First(c)
          /\ history[c].outs = CASE history[c].last = "Start" ->
                                      IF thread[r] = "send" THEN <<>> ELSE <<First(c)>>
                                 [] OTHER -> IF thread[r] = "send" THEN <<First(c)>>
                                             ELSE <<First(c), "STOP">>
      BY <2>1, <2>3, <2>8 DEF BlockInv, OutsInv, EventInv, Serving
    <2>10. history'[c].last = history[c].last /\ history'[c].warm = history[c].warm
      BY <1>8, <2>2 DEF SendEvent, TestForStop, StopBlock, ReleaseManager, restartVars, TypeInv
    <2>11. First(c)' = First(c) /\ First(c) \in {"COLD", "WARM"} BY <2>10 DEF First
    <2>12. EventInv(c)'
      BY <1>1, <2>1, <2>8, <2>10, <2>11 DEF BlockInv, EventInv
    <2>13. SettledInv(c)'
      <3>1. history[c].last = "Start" => ~SettledInv(c) \/ Stage(c) = "rest"
             \/ ~(cmd.op \in {"Stop", "Kill"} /\ c \in Within(cmd.target) \cap fbs)
        BY <2>8, <2>9 DEF BlockInv, StateInv, SettledInv
      <3>2. Stage(c) # "rest" BY <2>1, <2>3 DEF Serving
      <3>3. Within(cmd.target)' = Within(cmd.target)
        BY <1>1 DEF Within, FBs, Threads, Blocks, BlocksOf, Resources
      <3> QED BY <1>1, <2>8, <2>9, <3>1, <3>2, <3>3 DEF BlockInv, SettledInv
    <2>14. StateInv(c)' /\ OutsInv(c)'
      <3>1. CASE SendEvent(r)
        <4>1. /\ thread[r] = "send" /\ thread'[r] = "test" /\ UNCHANGED <<state, sem>>
              /\ history'[c].outs = Append(history[c].outs, event[c])
          BY <2>2, <2>9, <2>11, <3>1 DEF SendEvent, ThreadAt, TypeInv, TypeOK
        <4>2. Stage(c)' = "test" BY <2>7, <4>1 DEF Serving
        <4>3. StateInv(c)'
          BY <1>1, <2>3, <2>8, <2>9, <2>10, <4>1, <4>2 DEF BlockInv, StateInv
        <4>4. history'[c].outs = IF history[c].last = "Start" THEN <<First(c)>>
                                 ELSE <<First(c), "STOP">>
          <5> DEFINE S == {"COLD", "WARM", "STOP"}
          <5>1. \A x \in S : \A y \in S : Append(<<>>, y) = <<y>> /\ Append(<<x>>, y) = <<x, y>>
            BY AppendTwo
          <5> HIDE DEF S
          <5>2. First(c) \in S /\ event[c] \in S BY <2>9, <2>11 DEF S
          <5> QED BY <2>9, <4>1, <5>1, <5>2
        <4>5. OutsInv(c)'
          BY <1>1, <2>8, <2>9, <2>10, <2>11, <4>1, <4>2, <4>4 DEF OutsInv
        <4> QED BY <4>3, <4>5
      <3>2. CASE TestForStop(r)
        <4>1. /\ thread[r] = "test" /\ UNCHANGED <<state, sem, history>>
              /\ thread'[r] = IF history[c].last = "Stop" THEN "stop" ELSE "loop"
          BY <2>2, <2>9, <2>11, <3>2 DEF TestForStop, IsStop, restartVars, TypeInv, TypeOK
        <4>2. Stage(c)' = IF history[c].last = "Stop" THEN "stop" ELSE "rest"
          BY <2>7, <4>1 DEF Serving
        <4>3. StateInv(c)'
          BY <1>1, <2>3, <2>8, <2>9, <4>1, <4>2 DEF BlockInv, StateInv
        <4>4. OutsInv(c)'
          BY <1>1, <2>8, <2>9, <2>11, <4>1, <4>2 DEF OutsInv
        <4> QED BY <4>3, <4>4
      <3>3. CASE StopBlock(r)
        <4>1. /\ thread[r] = "stop" /\ thread'[r] = "release" /\ UNCHANGED <<sem, history>>
              /\ state' = [state EXCEPT ![c] = IF Accepts("Stop", @) THEN "STOPPED" ELSE @]
          BY <3>3 DEF StopBlock, ThreadAt, restartVars, TypeInv, TypeOK
        <4>2. Stage(c)' = "release" BY <2>7, <4>1 DEF Serving
        <4>3. history[c].last = "Stop" BY <2>3, <2>9, <4>1
        <4>4. state[c] = "RUNNING" BY <2>3, <2>8, <2>9, <4>1, <4>3 DEF BlockInv, StateInv
        <4>5. state'[c] = "STOPPED" BY <2>2, <4>1, <4>4, ResourceOfBlock DEF Accepts, TypeInv, TypeOK
        <4>6. StateInv(c)'
          BY <1>1, <2>8, <2>9, <4>1, <4>2, <4>3, <4>5 DEF StateInv
        <4>7. OutsInv(c)'
          BY <1>1, <2>8, <2>9, <2>11, <4>1, <4>2, <4>3 DEF OutsInv
        <4> QED BY <4>6, <4>7
      <3>4. CASE ReleaseManager(r)
        <4>1. /\ thread[r] = "release" /\ thread'[r] = "loop" /\ UNCHANGED <<state, history>>
              /\ sem'[c] = TRUE
          BY <2>2, <3>4 DEF ReleaseManager, ThreadAt, TypeInv, TypeOK
        <4>2. Stage(c)' = "rest" BY <2>7, <4>1 DEF Serving
        <4>3. history[c].last = "Stop" BY <2>3, <2>9, <4>1
        <4>4. StateInv(c)'
          BY <1>1, <2>3, <2>8, <2>9, <4>1, <4>2, <4>3 DEF BlockInv, StateInv
        <4>5. OutsInv(c)'
          BY <1>1, <2>8, <2>9, <2>11, <4>1, <4>2, <4>3 DEF OutsInv
        <4> QED BY <4>4, <4>5
      <3> QED BY <1>8, <3>1, <3>2, <3>3, <3>4
    <2>15. BlockInv(c)' BY <2>12, <2>13, <2>14 DEF BlockInv
    <2> QED BY <2>4, <2>6, <2>15
  <1> QED BY <1>6, <1>7, <1>8 DEF EcetThread
-----------------------------------------------------------------------------
(* The steps of a command *)

\* A step of the command's thread that moves no event.
LEMMA AllStays ==
  ASSUME Announcing, UNCHANGED <<queue, executing, event, sem, history>>,
         \A r \in Resources : thread'[r] = thread[r]
  PROVE  /\ QueueInv'
         /\ \A b \in RestartFBs : /\ Stage(b)' = Stage(b)
                                  /\ state'[b] = state[b] => Keeps(b)
  <1>1. QueueInv' BY QueueStays DEF Announcing
  <1>2. ASSUME NEW b \in RestartFBs PROVE Stage(b)' = Stage(b)
    <2>1. InQueue(b)' = InQueue(b) BY DEF InQueue, Holds, ResourceOf, Resources, BlocksOf
    <2> QED BY <2>1, StageStays, ResourceOfBlock
  <1> QED BY <1>1, <1>2 DEF Keeps

\* A considerate command finds the events of its target at rest.
LEMMA CommandAnnounced ==
  ASSUME Considerately, Announcing, NEW op \in Ops, NEW f \in FBs \ {Mgr}, Command(op, f)
  PROVE  Announced
  <1> USE DEF Announcing
  <1>1. /\ cmd = NoCmd /\ cmd' = [op |-> op, target |-> f, by |-> "mgr"] /\ step' = "visit"
        /\ UNCHANGED <<state, fbs, queue, executing, event, sem, history>>
        /\ \A r \in Resources : thread'[r] = thread[r]
    BY TreeFacts DEF Command, Begin, restartVars, TypeInv, TypeOK
  <1>2. step \notin Window BY <1>1 DEF WalkInv
  <1>3. ASSUME NEW b \in RestartFBs PROVE BlockInv(b)'
    <2>1. Stage(b)' = Stage(b) /\ Keeps(b) /\ ~At(b) /\ ~At(b)'
      BY <1>1, <1>2, AllStays DEF At, Window
    <2>2. CASE op \notin {"Stop", "Kill"} \/ Stage(b) = "rest"
      BY <1>1, <2>1, <2>2, BlockStays
    <2>3. CASE op \in {"Stop", "Kill"} /\ Stage(b) # "rest"
      <3>1. ~Suspended(ResourceOf(b))
        <4>1. InQueue(b) \/ Served(b) BY <2>3 DEF Stage
        <4>2. InQueue(b) => queue[ResourceOf(b)] # <<>> BY DEF InQueue, Holds
        <4> QED BY <4>1, <4>2 DEF Suspended, Served, Serving
      <3>2. ~(b \in Within(f) \cap fbs /\ state[b] = "RUNNING")
        BY <3>1 DEF Command, Considerate, Considerately
      <3>3. SettledInv(b)'
        <4>1. Within(f)' = Within(f) BY DEF Within, FBs, Threads, Blocks, BlocksOf, Resources
        <4> QED BY <1>1, <3>2, <4>1 DEF SettledInv, Within
      <3>4. EventInv(b)' /\ StateInv(b)' /\ OutsInv(b)'
        <4>1. First(b)' = First(b) BY <2>1 DEF Keeps, First
        <4> QED BY <2>1, <4>1 DEF Keeps, BlockInv, EventInv, StateInv, OutsInv
      <3> QED BY <3>3, <3>4 DEF BlockInv
    <2> QED BY <2>2, <2>3
  <1> QED BY <1>1, <1>3, AllStays DEF Announced

\* The state change of changeFBExecutionState, an E_RESTART's included.
LEMMA ChangeStateAnnounced ==
  ASSUME Announcing, ChangeState
  PROVE  Announced
  <1> USE DEF Announcing
  <1>1. PICK f : f = CurrentFB
    OBVIOUS
  <1>2. /\ cmd # NoCmd /\ work # {} /\ step = "visit" /\ Current.part = "state"
        /\ Accepts(cmd.op, state[f]) /\ state' = [state EXCEPT ![f] = NextState(cmd.op)]
        /\ UNCHANGED <<fbs, threadVars, event, sem, cmd, phase>>
    BY <1>1 DEF ChangeState, Visiting
  <1>3. /\ f \in FBs /\ cmd.op \in Ops \ {"Delete"}
        /\ f \in fbs /\ f \in Within(cmd.target) \cup {Mgr}
    BY <1>1, <1>2, CurrentIs DEF WalkInv, ItemInv, Ops, TypeInv, TypeOK
  <1>4. \A b \in RestartFBs : ~At(b) BY <1>2 DEF At, Window
  <1>5. UNCHANGED <<queue, executing, thread>> BY <1>2 DEF threadVars
  <1>6. QueueInv' BY <1>5, QueueStays
  <1>7. ASSUME NEW b \in RestartFBs PROVE Stage(b)' = Stage(b)
    <2>1. InQueue(b)' = InQueue(b) BY <1>5 DEF InQueue, Holds, ResourceOf, Resources, BlocksOf
    <2> QED BY <1>5, <2>1, StageStays, ResourceOfBlock
  <1>8. ASSUME NEW b \in RestartFBs, b # f PROVE BlockInv(b)'
    <2>1. history'[b] = history[b]
      BY <1>1, <1>8 DEF ChangeState, TypeInv
    <2>2. state'[b] = state[b] BY <1>2, <1>8, ResourceOfBlock DEF TypeInv, TypeOK
    <2>3. Keeps(b) BY <1>2, <2>1, <2>2 DEF Keeps
    <2>4. ~At(b)'
      <3>1. CASE f \in RestartFBs
        <4>1. UNCHANGED work BY <1>1, <3>1 DEF ChangeState
        <4>2. CurrentFB' = CurrentFB BY <4>1 DEF Current, CurrentFB, Walk, VisitResource
        <4> QED BY <1>1, <1>8, <4>2 DEF At
      <3>2. CASE f \notin RestartFBs
        <4>1. UNCHANGED step BY <1>1, <3>2 DEF ChangeState
        <4> QED BY <1>2, <4>1 DEF At, Window
      <3> QED BY <3>1, <3>2
    <2> QED BY <1>2, <1>4, <1>7, <2>3, <2>4, BlockStays
  <1>9. ASSUME f \in RestartFBs PROVE BlockInv(f)'
    <2>1. /\ step' = "announce" /\ UNCHANGED work
          /\ history' = [history EXCEPT ![f] =
               [last |-> cmd.op,
                warm |-> IF cmd.op = "Start" THEN @.last = "Stop" ELSE @.warm,
                outs |-> IF cmd.op = "Start" THEN <<>> ELSE @.outs]]
      BY <1>1, <1>9 DEF ChangeState
    <2>2. /\ history'[f].last = cmd.op
          /\ history'[f].warm = IF cmd.op = "Start" THEN history[f].last = "Stop" ELSE history[f].warm
          /\ history'[f].outs = IF cmd.op = "Start" THEN <<>> ELSE history[f].outs
      BY <1>9, <2>1 DEF TypeInv
    <2>3. At(f)'
      <3>1. CurrentFB' = CurrentFB BY <2>1 DEF Current, CurrentFB, Walk, VisitResource
      <3> QED BY <1>1, <2>1, <3>1 DEF At, Window
    <2>4. state'[f] = NextState(cmd.op) BY <1>2, <1>3 DEF TypeInv, TypeOK
    <2>5. Stage(f)' = Stage(f) /\ BlockInv(f) /\ ~At(f) /\ f # Mgr
      BY <1>4, <1>7, <1>9, ResourceOfBlock
    <2>6. EventInv(f)'
      BY <1>2, <1>3, <1>9, <2>1, <2>2, <2>3, <2>5
      DEF BlockInv, EventInv, StateInv, OutsInv, Accepts, Ops, First
    <2>7. StateInv(f)'
      BY <1>2, <1>3, <2>1, <2>2, <2>3, <2>4 DEF StateInv, NextState, Ops
    <2>8. Stage(f) = "rest" /\ ~sem[f]
      <3>1. history[f].last # "Start" => Stage(f) = "rest"
        BY <2>5 DEF BlockInv, OutsInv
      <3>2. history[f].last = "Start" => cmd.op \in {"Stop", "Kill"} /\ state[f] = "RUNNING"
        BY <1>2, <1>3, <2>5 DEF BlockInv, StateInv, Accepts, Ops
      <3>3. history[f].last = "Start" => Stage(f) = "rest"
        BY <1>3, <2>5, <3>2 DEF BlockInv, SettledInv
      <3>4. ~sem[f] BY <2>5 DEF BlockInv, OutsInv
      <3> QED BY <3>1, <3>3, <3>4
    <2>9. OutsInv(f)'
      <3>1. CASE cmd.op = "Start"
        BY <1>2, <2>1, <2>2, <2>3, <2>5, <2>8, <3>1 DEF OutsInv
      <3>2. CASE cmd.op # "Start"
        <4>1. First(f)' = First(f) BY <2>2, <3>2 DEF First
        <4>2. cmd.op = "Stop" => history[f].last = "Start"
          BY <1>2, <2>5 DEF BlockInv, StateInv, Accepts
        <4> QED BY <1>2, <1>3, <2>1, <2>2, <2>3, <2>5, <2>8, <3>2, <4>1, <4>2
            DEF BlockInv, OutsInv, Ops
      <3> QED BY <3>1, <3>2
    <2>10. SettledInv(f)' BY <2>3 DEF SettledInv
    <2> QED BY <2>6, <2>7, <2>9, <2>10 DEF BlockInv
  <1> QED BY <1>6, <1>8, <1>9 DEF Announced

\* A command that is refused or answered.
LEMMA DoneAnnounced ==
  ASSUME Announcing, RefuseState \/ Respond
  PROVE  Announced
  <1> USE DEF Announcing
  <1>1. /\ UNCHANGED <<state, fbs, queue, executing, event, sem, history>>
        /\ thread' = thread \/ thread' = [thread EXCEPT ![Mgr] = "loop"]
        /\ step \notin Window => step' \notin Window
        /\ cmd' = cmd \/ cmd' = NoCmd
    <2>1. CASE RefuseState
      BY <2>1 DEF RefuseState, CommandDone, restartVars, Visiting, Window
    <2>2. CASE Respond
      BY <2>2 DEF Respond, CommandDone, restartVars, Window
    <2> QED BY <2>1, <2>2
  <1>2. step \notin Window
    <2>1. CASE RefuseState BY <2>1 DEF RefuseState, Visiting, Window
    <2>2. CASE Respond BY <2>2 DEF Respond, WalkInv
    <2> QED BY <2>1, <2>2
  <1>3. \A r \in Resources : thread'[r] = thread[r] BY <1>1, TreeFacts DEF TypeInv, TypeOK
  <1>4. ASSUME NEW b \in RestartFBs PROVE BlockInv(b)'
    <2>1. Stage(b)' = Stage(b) /\ Keeps(b) /\ ~At(b) /\ ~At(b)'
      BY <1>1, <1>2, <1>3, AllStays DEF At
    <2> QED BY <1>1, <2>1, BlockStays DEF NoCmd
  <1> QED BY <1>1, <1>3, <1>4, AllStays DEF Announced

\* What a step does to the place of the command's thread at its block.
LEMMA PlaceMoves ==
  ASSUME NEW b \in RestartFBs, NEW c, c = CurrentFB, step \in Window
  PROVE  /\ At(b) <=> b = c
         /\ step' \notin Window => ~At(b)'
         /\ UNCHANGED work /\ step' \in Window => (At(b)' <=> b = c)
  <1>1. UNCHANGED work => CurrentFB' = CurrentFB
    BY DEF Current, CurrentFB, Walk, VisitResource
  <1> QED BY <1>1 DEF At, Window

\* The choice of the event to send.
LEMMA AnnounceAnnounced ==
  ASSUME Announcing, Announce
  PROVE  Announced
  <1> USE DEF Announcing
  <1>1. PICK c : c = CurrentFB
    OBVIOUS
  <1>2. /\ step = "announce" /\ event' = [event EXCEPT ![c] = EventFor(cmd.op, @)]
        /\ UNCHANGED <<state, fbs, threadVars, sem, history, cmd, phase>>
        /\ \/ cmd.op = "Start" /\ step' = "chain" /\ UNCHANGED work
           \/ cmd.op = "Stop" /\ step' = "again" /\ UNCHANGED work
           \/ cmd.op \notin {"Start", "Stop"} /\ step' = "visit"
    BY <1>1 DEF Announce, NextVisit
  <1>3. UNCHANGED <<queue, executing, thread>> BY <1>2 DEF threadVars
  <1>4. QueueInv' BY <1>3, QueueStays
  <1>5. ASSUME NEW b \in RestartFBs PROVE Stage(b)' = Stage(b)
    <2>1. InQueue(b)' = InQueue(b) BY <1>3 DEF InQueue, Holds, ResourceOf, Resources, BlocksOf
    <2> QED BY <1>3, <2>1, StageStays, ResourceOfBlock
  <1>6. c \in RestartFBs BY <1>1, <1>2 DEF WalkInv, Window
  <1>7. ASSUME NEW b \in RestartFBs, b # c PROVE BlockInv(b)'
    <2>1. Keeps(b) BY <1>2, <1>7 DEF Keeps, TypeInv, TypeOK
    <2>2. ~At(b) /\ ~At(b)' BY <1>1, <1>2, <1>7, PlaceMoves DEF Window
    <2> QED BY <1>2, <1>5, <2>1, <2>2, BlockStays
  <1>8. BlockInv(c)'
    <2>1. /\ At(c) /\ BlockInv(c) /\ Stage(c)' = Stage(c)
          /\ At(c)' <=> cmd.op \in {"Start", "Stop"}
      BY <1>1, <1>2, <1>5, <1>6, PlaceMoves DEF Window
    <2>2. /\ history'[c] = history[c] /\ sem'[c] = sem[c] /\ state'[c] = state[c]
          /\ First(c)' = First(c)
      BY <1>2 DEF First
    <2>3. event'[c] = EventFor(cmd.op, event[c]) /\ history[c].last = cmd.op
      BY <1>2, <1>6, <2>1 DEF TypeInv, TypeOK, BlockInv, EventInv
    <2>4. EventInv(c)'
      BY <1>2, <2>1, <2>2, <2>3 DEF BlockInv, EventInv, EventFor, First
    <2>5. StateInv(c)'
      BY <1>2, <2>1, <2>2, <2>3 DEF BlockInv, StateInv
    <2>6. OutsInv(c)'
      BY <1>2, <2>1, <2>2, <2>3 DEF BlockInv, OutsInv
    <2>7. SettledInv(c)'
      BY <1>2, <2>1, <2>2, <2>3 DEF BlockInv, StateInv, SettledInv
    <2> QED BY <2>4, <2>5, <2>6, <2>7 DEF BlockInv
  <1> QED BY <1>4, <1>7, <1>8 DEF Announced

\* A stopping E_RESTART runs again until STOP is out.
LEMMA KeepRunningAnnounced ==
  ASSUME Announcing, KeepRunning
  PROVE  Announced
  <1> USE DEF Announcing
  <1>1. PICK c : c = CurrentFB
    OBVIOUS
  <1>2. /\ step = "again" /\ step' = "chain" /\ UNCHANGED work
        /\ state' = [state EXCEPT ![c] = IF Accepts("Start", @) THEN "RUNNING" ELSE @]
        /\ UNCHANGED <<fbs, threadVars, event, sem, history, cmd, phase>>
    BY <1>1 DEF KeepRunning, restartVars
  <1>3. UNCHANGED <<queue, executing, thread>> BY <1>2 DEF threadVars
  <1>4. QueueInv' BY <1>3, QueueStays
  <1>5. ASSUME NEW b \in RestartFBs PROVE Stage(b)' = Stage(b)
    <2>1. InQueue(b)' = InQueue(b) BY <1>3 DEF InQueue, Holds, ResourceOf, Resources, BlocksOf
    <2> QED BY <1>3, <2>1, StageStays, ResourceOfBlock
  <1>6. c \in RestartFBs /\ cmd.op = "Stop" BY <1>1, <1>2 DEF WalkInv, Window
  <1>7. ASSUME NEW b \in RestartFBs, b # c PROVE BlockInv(b)'
    <2>1. Keeps(b) BY <1>2, <1>7, ResourceOfBlock DEF Keeps, TypeInv, TypeOK
    <2>2. ~At(b) /\ ~At(b)' BY <1>1, <1>2, <1>7, PlaceMoves DEF Window
    <2> QED BY <1>2, <1>5, <2>1, <2>2, BlockStays
  <1>8. BlockInv(c)'
    <2>1. /\ At(c) /\ BlockInv(c) /\ Stage(c)' = Stage(c) /\ At(c)'
      BY <1>1, <1>2, <1>5, <1>6, PlaceMoves DEF Window
    <2>2. /\ history'[c] = history[c] /\ sem'[c] = sem[c] /\ event'[c] = event[c]
          /\ First(c)' = First(c)
      BY <1>2 DEF First
    <2>3. history[c].last = "Stop"
      BY <1>6, <2>1 DEF BlockInv, EventInv
    <2>4. state[c] = "STOPPED" BY <1>2, <2>1, <2>3 DEF BlockInv, StateInv
    <2>5. state'[c] = "RUNNING"
      BY <1>2, <1>6, <2>4, ResourceOfBlock DEF Accepts, TypeInv, TypeOK
    <2>6. EventInv(c)'
      BY <1>2, <2>1, <2>2, <2>3 DEF BlockInv, EventInv
    <2>7. StateInv(c)'
      BY <1>2, <2>1, <2>2, <2>3, <2>5 DEF StateInv
    <2>8. OutsInv(c)'
      BY <1>2, <2>1, <2>2, <2>3 DEF BlockInv, OutsInv
    <2>9. SettledInv(c)' BY <2>1 DEF SettledInv
    <2> QED BY <2>6, <2>7, <2>8, <2>9 DEF BlockInv
  <1> QED BY <1>4, <1>7, <1>8 DEF Announced

\* The semaphore releases the command once STOP is out.
LEMMA WaitAnnounced ==
  ASSUME Announcing, WaitForStop
  PROVE  Announced
  <1> USE DEF Announcing
  <1>1. PICK c : c = CurrentFB
    OBVIOUS
  <1>2. /\ step = "wait" /\ step' = "visit" /\ sem[c] /\ sem' = [sem EXCEPT ![c] = FALSE]
        /\ UNCHANGED <<state, fbs, threadVars, event, history, cmd, phase>>
    BY <1>1 DEF WaitForStop, NextVisit
  <1>3. UNCHANGED <<queue, executing, thread>> BY <1>2 DEF threadVars
  <1>4. QueueInv' BY <1>3, QueueStays
  <1>5. ASSUME NEW b \in RestartFBs PROVE Stage(b)' = Stage(b)
    <2>1. InQueue(b)' = InQueue(b) BY <1>3 DEF InQueue, Holds, ResourceOf, Resources, BlocksOf
    <2> QED BY <1>3, <2>1, StageStays, ResourceOfBlock
  <1>6. c \in RestartFBs /\ cmd.op = "Stop" BY <1>1, <1>2 DEF WalkInv, Window
  <1>7. ASSUME NEW b \in RestartFBs, b # c PROVE BlockInv(b)'
    <2>1. Keeps(b) BY <1>2, <1>7 DEF Keeps, TypeInv, TypeOK
    <2>2. ~At(b) /\ ~At(b)' BY <1>1, <1>2, <1>7, PlaceMoves DEF Window
    <2> QED BY <1>2, <1>5, <2>1, <2>2, BlockStays
  <1>8. BlockInv(c)'
    <2>1. /\ At(c) /\ BlockInv(c) /\ Stage(c)' = Stage(c) /\ ~At(c)'
      BY <1>1, <1>2, <1>5, <1>6, PlaceMoves DEF Window
    <2>2. /\ history'[c] = history[c] /\ ~sem'[c] /\ event'[c] = event[c]
          /\ state'[c] = state[c] /\ First(c)' = First(c)
      BY <1>2, <1>6 DEF First, TypeInv, TypeOK
    <2>3. history[c].last = "Stop"
      BY <1>6, <2>1 DEF BlockInv, EventInv
    <2>4. Stage(c) = "rest" /\ history[c].outs = <<First(c), "STOP">>
      BY <1>2, <2>1, <2>3 DEF BlockInv, OutsInv
    <2>5. state[c] = "STOPPED" BY <1>2, <2>1, <2>3, <2>4 DEF BlockInv, StateInv
    <2>6. EventInv(c)'
      BY <1>2, <2>1, <2>2, <2>3 DEF BlockInv, EventInv
    <2>7. StateInv(c)'
      BY <1>2, <2>1, <2>2, <2>3, <2>5 DEF StateInv
    <2>8. OutsInv(c)'
      BY <1>2, <2>1, <2>2, <2>3, <2>4 DEF OutsInv
    <2>9. SettledInv(c)' BY <2>1, <2>4 DEF SettledInv
    <2> QED BY <2>6, <2>7, <2>8, <2>9 DEF BlockInv
  <1> QED BY <1>4, <1>7, <1>8 DEF Announced

\* A Delete meets no E_RESTART it would have to announce.
LEMMA DeleteAnnounced ==
  ASSUME Announcing, EndThread \/ Joined
  PROVE  Announced
  <1> USE DEF Announcing
  <1>1. /\ step \in {"visit", "join"} /\ step' \in {"visit", "join"}
        /\ work # {} /\ Current.part = "join" /\ UNCHANGED cmd
        /\ UNCHANGED <<state, queue, thread, executing, event, sem, history>>
    BY DEF EndThread, Joined, NextVisit, threadVars, restartVars, WalkInv
  <1>2. cmd.op = "Delete" BY <1>1, CurrentIs DEF WalkInv, ItemInv, TypeInv, TypeOK
  <1>3. ASSUME NEW b \in RestartFBs PROVE BlockInv(b)'
    <2>1. Stage(b)' = Stage(b) /\ Keeps(b) /\ ~At(b) /\ ~At(b)'
      BY <1>1, AllStays DEF At, Window
    <2> QED BY <1>1, <1>2, <2>1, BlockStays
  <1> QED BY <1>1, <1>3, AllStays DEF Announced

\* The list the event goes to has room and does not hold it.
LEMMA ChainAnnounced ==
  ASSUME ListsSuffice, Announcing, StartNewEventChain
  PROVE  Announced
  <1> USE DEF Announcing
  <1>1. PICK c : c = CurrentFB
    OBVIOUS
  <1>2. PICK r : r = ResourceOf(c)
    OBVIOUS
  <1>3. /\ step = "chain" /\ c \in RestartFBs /\ cmd.op \in {"Start", "Stop"}
        /\ UNCHANGED <<state, fbs, thread, executing, event, sem, history, cmd, phase>>
        /\ \/ cmd.op = "Stop" /\ step' = "wait" /\ UNCHANGED work
           \/ cmd.op = "Start" /\ step' = "visit"
    BY <1>1 DEF StartNewEventChain, NextVisit, restartVars, WalkInv, Window
  <1>4. /\ At(c) /\ (At(c)' <=> cmd.op = "Stop")
    BY <1>1, <1>3, PlaceMoves DEF Window
  <1>5. /\ r \in Resources /\ r \in Threads /\ c \in BlocksOf(r) /\ c \in FBs
    BY <1>2, <1>3, ResourceOfBlock
  <1>6. /\ history[c].last = cmd.op /\ Stage(c) = "rest"
        /\ ~InQueue(c) /\ ~Served(c) /\ ~sem[c]
        /\ history[c].outs = IF cmd.op = "Start" THEN <<>> ELSE <<First(c)>>
    <2>1. BlockInv(c) BY <1>3
    <2>2. history[c].last = cmd.op BY <1>4, <2>1 DEF BlockInv, EventInv
    <2>3. Stage(c) = "rest" BY <1>3, <1>4, <2>1, <2>2 DEF BlockInv, OutsInv
    <2>4. ~InQueue(c) /\ ~Served(c) BY <2>3 DEF Stage, Served, Serving
    <2> QED BY <1>3, <1>4, <2>1, <2>2, <2>3, <2>4 DEF BlockInv, OutsInv
  <1>7. Len(queue[r]) < QueueSize BY <1>2, <1>3, <1>6, RoomForOne
  <1>8. queue' = [queue EXCEPT ![r] = Append(@, c)]
    BY <1>1, <1>2, <1>7 DEF StartNewEventChain, Executor
  <1>9. /\ queue'[r] = Append(queue[r], c)
        /\ \A s \in Resources \ {r} : queue'[s] = queue[s]
    BY <1>5, <1>8, TreeFacts DEF TypeInv
  <1>10. /\ Once(Append(queue[r], c))
         /\ \A x : Holds(Append(queue[r], c), x) <=> Holds(queue[r], x) \/ x = c
    <2> DEFINE q == queue[r]
               S == RestartFBs \cap BlocksOf(r)
    <2>1. q \in Seq(S) /\ c \in S /\ Once(q) /\ ~Holds(q, c)
      BY <1>2, <1>3, <1>5, <1>6 DEF TypeInv, TypeOK, QueueInv, InQueue
    <2> HIDE DEF q, S
    <2>2. Once(Append(q, c)) /\ \A x : Holds(Append(q, c), x) <=> Holds(q, x) \/ x = c
      BY <2>1, AppendHolds
    <2> QED BY <2>2 DEF q
  <1>11. ASSUME NEW b \in RestartFBs
         PROVE  /\ InQueue(b)' <=> InQueue(b) \/ b = c
                /\ Served(b)' = Served(b)
    <2>1. ResourceOf(b)' = ResourceOf(b) BY DEF ResourceOf, Resources, BlocksOf
    <2>2. InQueue(b)' <=> Holds(queue'[ResourceOf(b)], b) BY <2>1 DEF InQueue, Holds
    <2>3. Served(b)' = Served(b) BY <1>3, <2>1 DEF Served
    <2>4. CASE ResourceOf(b) = r BY <1>9, <1>10, <2>2, <2>3, <2>4 DEF InQueue
    <2>5. CASE ResourceOf(b) # r
      <3>1. queue'[ResourceOf(b)] = queue[ResourceOf(b)] BY <1>9, <2>5, ResourceOfBlock
      <3> QED BY <1>2, <2>2, <2>3, <2>5, <3>1 DEF InQueue
    <2> QED BY <2>4, <2>5
  <1>12. QueueInv'
    <2>1. ASSUME NEW s \in Resources PROVE Once(queue'[s])
      BY <1>9, <1>10 DEF QueueInv
    <2>2. ASSUME NEW b \in RestartFBs PROVE ~(InQueue(b) /\ Served(b))'
      BY <1>6, <1>11 DEF QueueInv
    <2> QED BY <2>1, <2>2 DEF QueueInv, Once, Resources
  <1>13. ASSUME NEW b \in RestartFBs, b # c PROVE BlockInv(b)'
    <2>1. ResourceOf(b)' = ResourceOf(b) BY DEF ResourceOf, Resources, BlocksOf
    <2>2. Stage(b)' = Stage(b) BY <1>3, <1>11, <1>13, <2>1 DEF Stage
    <2>3. Keeps(b) BY <1>3 DEF Keeps
    <2>4. ~At(b) /\ ~At(b)' BY <1>1, <1>3, <1>13, PlaceMoves DEF Window
    <2> QED BY <1>3, <2>2, <2>3, <2>4, BlockStays
  <1>14. BlockInv(c)'
    <2>1. Stage(c)' = "queued" BY <1>3, <1>11 DEF Stage
    <2>2. Keeps(c) /\ BlockInv(c) /\ First(c)' = First(c)
      BY <1>3 DEF Keeps, First
    <2>3. EventInv(c)'
      BY <1>3, <1>4, <1>6, <2>2 DEF Keeps, BlockInv, EventInv
    <2>4. StateInv(c)'
      BY <1>3, <1>4, <1>6, <2>1, <2>2 DEF Keeps, BlockInv, StateInv
    <2>5. OutsInv(c)'
      BY <1>3, <1>4, <1>6, <2>1, <2>2 DEF Keeps, OutsInv
    <2>6. SettledInv(c)'
      BY <1>3, <1>4 DEF SettledInv
    <2> QED BY <2>3, <2>4, <2>5, <2>6 DEF BlockInv
  <1> QED BY <1>12, <1>13, <1>14 DEF Announced

\* A Kill that has come to a thread has come to all blocks of its resource.
LEMMA ThreadAnnounced ==
  ASSUME Announcing, ChangeThread
  PROVE  Announced
  <1> USE DEF Announcing
  <1>1. PICK r : r = CurrentFB
    OBVIOUS
  <1>2. /\ cmd # NoCmd /\ work # {} /\ step = "visit" /\ Current.part = "thread"
        /\ thread' = IF cmd.op = "Start" /\ thread[r] = "none"
                     THEN [thread EXCEPT ![r] = "created"] ELSE thread
        /\ queue' = IF cmd.op = "Kill" THEN [queue EXCEPT ![r] = <<>>] ELSE queue
        /\ step' = "visit"
        /\ UNCHANGED <<state, fbs, executing, event, sem, history, cmd, phase>>
    BY <1>1 DEF ChangeThread, Visiting, NextVisit, restartVars
  <1>3. /\ r \in Threads /\ cmd.op # "Delete"
        /\ r \in fbs /\ r \in Within(cmd.target) \cup {Mgr}
    BY <1>1, <1>2, CurrentIs DEF WalkInv, ItemInv, TypeInv, TypeOK, Visits
  <1>4. \A b \in RestartFBs : ~At(b) /\ ~At(b)' BY <1>2 DEF At, Window
  <1>5. ASSUME cmd.op = "Kill", NEW b \in RestartFBs, ResourceOf(b) = r PROVE ~InQueue(b)
    <2>1. /\ r \in Resources /\ b \in BlocksOf(r) /\ b \in FBs \ {Mgr} /\ r # Mgr
      BY <1>5, ResourceOfBlock
    <2>2. b \in fbs BY <1>3, <2>1 DEF TreeInv
    <2>3. b \in Within(cmd.target)
      <3>1. r \in Within(cmd.target) BY <1>3, <2>1
      <3>2. cmd.target = Dev \/ cmd.target = r
        BY <2>1, <3>1, TreeAssumption DEF Within, Blocks
      <3> QED BY <2>1, <3>2, TreeFacts DEF Within
    <2>4. BlockInv(b) /\ ~At(b) BY <1>4
    <2>5. state[b] = "RUNNING" => Stage(b) = "rest"
      BY <1>5, <2>2, <2>3, <2>4 DEF BlockInv, SettledInv
    <2>6. history[b].last # "Start" => Stage(b) = "rest" BY <2>4 DEF BlockInv, OutsInv
    <2>7. history[b].last = "Start" => state[b] = "RUNNING" BY <2>4 DEF BlockInv, StateInv
    <2>8. Stage(b) = "rest" BY <2>5, <2>6, <2>7
    <2> QED BY <2>8 DEF Stage
  <1>6. ASSUME NEW s \in Threads
        PROVE  /\ queue'[s] = queue[s] \/ (cmd.op = "Kill" /\ s = r /\ queue'[s] = <<>>)
               /\ thread'[s] = thread[s] \/ (thread[s] \notin Serving /\ thread'[s] \notin Serving)
    <2>1. queue'[s] = queue[s] \/ (cmd.op = "Kill" /\ s = r /\ queue'[s] = <<>>)
      <3>1. queue \in [Threads -> Seq(FBs)] BY DEF TypeInv
      <3> QED BY <1>2, <1>3, <3>1
    <2>2. thread'[s] = thread[s] \/ (thread[s] \notin Serving /\ thread'[s] \notin Serving)
      <3>1. DOMAIN thread = Threads BY DEF TypeInv, TypeOK
      <3> QED BY <1>2, <1>3, <3>1 DEF Serving
    <2> QED BY <2>1, <2>2
  <1>7. ASSUME NEW b \in RestartFBs
        PROVE  (InQueue(b)' <=> InQueue(b)) /\ Served(b)' = Served(b) /\ Stage(b)' = Stage(b)
    <2>1. ResourceOf(b)' = ResourceOf(b) BY DEF ResourceOf, Resources, BlocksOf
    <2>2. ResourceOf(b) \in Threads BY ResourceOfBlock
    <2>3. InQueue(b)' <=> Holds(queue'[ResourceOf(b)], b) BY <2>1 DEF InQueue, Holds
    <2>4. InQueue(b)' <=> InQueue(b)
      <3>1. CASE queue'[ResourceOf(b)] = queue[ResourceOf(b)]
        BY <2>3, <3>1 DEF InQueue
      <3>2. CASE cmd.op = "Kill" /\ ResourceOf(b) = r /\ queue'[r] = <<>>
        <4>1. ~Holds(<<>>, b)
          <5>1. DOMAIN <<>> = {} OBVIOUS
          <5> QED BY <5>1 DEF Holds
        <4> QED BY <1>5, <2>3, <3>2, <4>1
      <3> QED BY <1>6, <2>2, <3>1, <3>2
    <2>5. Served(b)' = Served(b)
      BY <1>2, <1>6, <2>1, <2>2 DEF Served
    <2>6. Stage(b)' = Stage(b)
      BY <1>2, <1>6, <2>1, <2>2, <2>4, <2>5 DEF Stage, Served
    <2> QED BY <2>4, <2>5, <2>6
  <1>8. QueueInv'
    <2>1. ASSUME NEW s \in Resources PROVE Once(queue'[s])
      <3>1. Once(<<>>) BY DEF Once
      <3> QED BY <1>6, <3>1, TreeFacts DEF QueueInv
    <2>2. ASSUME NEW b \in RestartFBs PROVE ~(InQueue(b) /\ Served(b))'
      BY <1>7 DEF QueueInv
    <2> QED BY <2>1, <2>2 DEF QueueInv, Once, Resources
  <1>9. ASSUME NEW b \in RestartFBs PROVE BlockInv(b)'
    <2>1. Keeps(b) BY <1>2 DEF Keeps
    <2> QED BY <1>2, <1>4, <1>7, <2>1, BlockStays
  <1> QED BY <1>8, <1>9 DEF Announced
-----------------------------------------------------------------------------
(* What E_RESTART announces *)

\* At first nothing is commanded and nothing announced.
LEMMA AnnounceInit == Init => TreeInv /\ ThreadInv /\ QueueInv /\ AnnounceInv
  <1> SUFFICES ASSUME Init PROVE TreeInv /\ ThreadInv /\ QueueInv /\ AnnounceInv
    OBVIOUS
  <1> USE DEF Init
  <1>1. TreeInv /\ ThreadInv
    BY DEF TreeInv, ThreadInv, NoCmd, FBs, Blocks
  <1>2. DOMAIN <<>> = {}
    OBVIOUS
  <1>3. ASSUME NEW b \in RestartFBs PROVE ~InQueue(b) /\ ~Served(b) /\ Stage(b) = "rest"
    <2>1. queue[ResourceOf(b)] = <<>> /\ thread[ResourceOf(b)] = "none" BY ResourceOfBlock
    <2> QED BY <1>2, <2>1 DEF InQueue, Holds, Served, Serving, Stage
  <1>4. QueueInv
    <2>1. \A r \in Resources : queue[r] = <<>> BY TreeFacts
    <2> QED BY <1>2, <1>3, <2>1 DEF QueueInv, Once
  <1>5. ASSUME NEW b \in RestartFBs PROVE BlockInv(b)
    <2>1. /\ ~At(b) /\ Stage(b) = "rest" /\ cmd.op = "none" /\ state[b] = "IDLE"
          /\ history[b].last = "none" /\ history[b].outs = <<>> /\ event[b] = "none" /\ ~sem[b]
      BY <1>3, ResourceOfBlock DEF At, Window, NoCmd
    <2> QED BY <2>1 DEF BlockInv, EventInv, StateInv, OutsInv, SettledInv
  <1> QED BY <1>1, <1>4, <1>5 DEF AnnounceInv

\* The lists while the instance ends.
LEMMA QueueStep ==
  ASSUME TypeInv, WalkInv, ThreadInv, QueueInv, phase # "running", [Next]_vars
  PROVE  QueueInv'
  <1>0. /\ step # "chain" /\ DOMAIN thread = Threads /\ DOMAIN queue = Threads
        /\ \A r \in Resources : thread[r] \notin Serving \cup {"created", "receive"}
        /\ queue[Mgr] = <<>> /\ thread[Mgr] \notin Serving
    BY DEF WalkInv, Window, ThreadInv, TypeInv, TypeOK, Serving
  <1>1. ASSUME UNCHANGED <<queue, executing>>,
               \A r \in Resources : thread'[r] \in Serving => thread[r] \in Serving
        PROVE  QueueInv'
    BY <1>1, QueueStays
  <1>2. ASSUME UNCHANGED <<queue, executing, thread>> PROVE QueueInv'
    BY <1>1, <1>2
  <1>3. CASE \E c \in Commands : Command(c[1], c[2])
    BY <1>3 DEF Command, WalkInv
  <1>4. CASE StopInstance BY <1>2, <1>4 DEF StopInstance, threadVars
  <1>5. CASE ChangeState BY <1>2, <1>5 DEF ChangeState, threadVars
  <1>6. CASE RefuseState \/ Respond
    <2>1. /\ UNCHANGED <<queue, executing>>
          /\ thread' = thread \/ thread' = [thread EXCEPT ![Mgr] = "loop"]
      <3>1. CASE RefuseState BY <3>1 DEF RefuseState, CommandDone
      <3>2. CASE Respond BY <3>2 DEF Respond, CommandDone
      <3> QED BY <1>6, <3>1, <3>2
    <2>2. \A r \in Resources : thread'[r] = thread[r] BY <1>0, <2>1, TreeFacts
    <2> QED BY <1>1, <2>1, <2>2
  <1>7. CASE Announce BY <1>2, <1>7 DEF Announce, threadVars
  <1>8. CASE KeepRunning BY <1>2, <1>8 DEF KeepRunning, threadVars
  <1>9. CASE StartNewEventChain BY <1>0, <1>9 DEF StartNewEventChain
  <1>10. CASE WaitForStop BY <1>2, <1>10 DEF WaitForStop, threadVars
  <1>11. CASE ChangeThread
    <2>1. /\ UNCHANGED executing
          /\ \A r \in Resources : /\ thread'[r] \in Serving => thread[r] = thread'[r]
                                  /\ queue'[r] = queue[r] \/ queue'[r] = <<>>
      BY <1>0, <1>11, TreeFacts DEF ChangeThread, Serving
    <2>2. DOMAIN <<>> = {} OBVIOUS
    <2>3. \A r \in Resources : Once(queue'[r]) BY <2>1, <2>2 DEF QueueInv, Once
    <2>4. ASSUME NEW b \in RestartFBs PROVE ~(InQueue(b) /\ Served(b))'
      <3>1. ResourceOf(b)' = ResourceOf(b) BY DEF ResourceOf, Resources, BlocksOf
      <3>2. InQueue(b)' => InQueue(b)
        <4>1. InQueue(b)' <=> Holds(queue'[ResourceOf(b)], b) BY <3>1 DEF InQueue, Holds
        <4>2. ~Holds(<<>>, b) BY <2>2 DEF Holds
        <4> QED BY <2>1, <4>1, <4>2, ResourceOfBlock DEF InQueue
      <3>3. Served(b)' => Served(b) BY <2>1, <3>1, ResourceOfBlock DEF Served
      <3> QED BY <3>2, <3>3 DEF QueueInv
    <2> QED BY <2>3, <2>4 DEF QueueInv, Once, Resources
  <1>12. CASE EndThread BY <1>2, <1>12 DEF EndThread
  <1>13. CASE Joined BY <1>2, <1>13 DEF Joined, threadVars
  <1>14. CASE JoinManager BY <1>2, <1>14 DEF JoinManager, threadVars
  <1>15. CASE InstanceEnded BY <1>2, <1>15 DEF InstanceEnded, threadVars
  <1>16. CASE \E r \in Threads : EcetThread(r)
    <2> PICK r \in Threads : EcetThread(r) BY <1>16
    <2>1. thread[r] \notin Serving BY <1>0, TreeFacts
    <2>2. CASE RunThread(r) \/ Loop(r) \/ Resume(r)
      <3>1. UNCHANGED <<queue, executing>> BY <2>2 DEF RunThread, Loop, Resume
      <3>2. \E to \in {"loop", "ended", "suspended", "receive"} : thread' = [thread EXCEPT ![r] = to]
        BY <2>2 DEF RunThread, Loop, Resume, ThreadAt
      <3>3. ASSUME NEW s \in Resources PROVE thread'[s] \in Serving => thread[s] \in Serving
        BY <1>0, <3>2, TreeFacts DEF Serving
      <3> QED BY <1>1, <3>1, <3>3
    <2>3. CASE Receive(r)
      <3>1. thread[r] = "receive" BY <2>3 DEF Receive
      <3>2. r = Mgr /\ queue[r] = <<>> BY <1>0, <3>1, TreeFacts
      <3>3. UNCHANGED <<queue, executing>> /\ thread' = [thread EXCEPT ![r] = "loop"]
        BY <2>3, <3>2 DEF Receive
      <3>4. ASSUME NEW s \in Resources PROVE thread'[s] \in Serving => thread[s] \in Serving
        BY <1>0, <3>3, TreeFacts DEF Serving
      <3> QED BY <1>1, <3>3, <3>4
    <2> QED BY <2>1, <2>2, <2>3
        DEF EcetThread, SendEvent, TestForStop, StopBlock, ReleaseManager, ThreadAt, Serving
  <1>17. CASE UNCHANGED vars BY <1>2, <1>17 DEF vars, threadVars
  <1> QED BY <1>3, <1>4, <1>5, <1>6, <1>7, <1>8, <1>9, <1>10, <1>11, <1>12, <1>13, <1>14,
             <1>15, <1>16, <1>17 DEF Next, CommandThread

\* Every step keeps the lists and what was announced.
LEMMA AnnounceStep ==
  ASSUME Considerately, ListsSuffice, IInv, [Next]_vars
  PROVE  QueueInv' /\ AnnounceInv'
  <1> USE DEF IInv
  <1>1. CASE phase # "running"
    <2>1. AnnouncedInOrder BY <1>1 DEF AnnounceInv
    <2>2. AnnouncedInOrder' /\ phase' # "running" BY <1>1, <2>1, OrderStays
    <2> QED BY <1>1, <2>2, QueueStep DEF AnnounceInv
  <1>2. CASE phase = "running"
    <2>1. Announcing BY <1>2 DEF AnnounceInv, Announcing
    <2>2. Announced /\ phase' = phase => QueueInv' /\ AnnounceInv'
      BY <1>2 DEF Announced, AnnounceInv
    <2>3. ASSUME NEW c \in Commands, Command(c[1], c[2]) PROVE QueueInv' /\ AnnounceInv'
      <3>1. c[1] \in Ops /\ c[2] \in FBs \ {Mgr} BY CommandAssumption DEF Ops
      <3>2. phase' = phase BY <2>3 DEF Command
      <3> QED BY <2>1, <2>2, <2>3, <3>1, <3>2, CommandAnnounced
    <2>4. CASE StopInstance
      <3>1. AnnouncedInOrder BY <2>1, BlockOrder DEF Announcing
      <3>2. phase' = "killing" /\ UNCHANGED <<history, sem>>
        BY <2>4 DEF StopInstance, restartVars
      <3>3. AnnouncedInOrder' BY <3>1, <3>2 DEF AnnouncedInOrder
      <3>4. QueueInv'
        <4>1. UNCHANGED <<queue, executing, thread>> BY <2>4 DEF StopInstance, threadVars
        <4> QED BY <4>1, QueueStays
      <3> QED BY <3>2, <3>3, <3>4 DEF AnnounceInv
    <2>5. CASE ChangeState BY <2>1, <2>2, <2>5, ChangeStateAnnounced DEF ChangeState
    <2>6. CASE RefuseState \/ Respond
      <3>1. cmd.by = "mgr" BY <1>2 DEF WalkInv
      <3>2. CASE RefuseState
        <4>1. phase' = phase BY <3>1, <3>2 DEF RefuseState, CommandDone
        <4> QED BY <2>1, <2>2, <2>6, <4>1, DoneAnnounced
      <3>3. CASE Respond
        <4>1. phase' = phase BY <3>1, <3>3 DEF Respond, CommandDone
        <4> QED BY <2>1, <2>2, <2>6, <4>1, DoneAnnounced
      <3> QED BY <2>6, <3>2, <3>3
    <2>7. CASE Announce BY <2>1, <2>2, <2>7, AnnounceAnnounced DEF Announce
    <2>8. CASE KeepRunning BY <2>1, <2>2, <2>8, KeepRunningAnnounced DEF KeepRunning
    <2>9. CASE StartNewEventChain BY <2>1, <2>2, <2>9, ChainAnnounced DEF StartNewEventChain
    <2>10. CASE WaitForStop BY <2>1, <2>2, <2>10, WaitAnnounced DEF WaitForStop
    <2>11. CASE ChangeThread BY <2>1, <2>2, <2>11, ThreadAnnounced DEF ChangeThread
    <2>12. CASE EndThread BY <2>1, <2>2, <2>12, DeleteAnnounced DEF EndThread
    <2>13. CASE Joined BY <2>1, <2>2, <2>13, DeleteAnnounced DEF Joined
    <2>14. ~JoinManager /\ ~InstanceEnded BY <1>2 DEF JoinManager, InstanceEnded
    <2>15. CASE \E r \in Threads : EcetThread(r)
      <3> PICK r \in Threads : EcetThread(r) BY <2>15
      <3>1. phase' = phase
        BY DEF EcetThread, RunThread, Loop, Resume, Receive, SendEvent, TestForStop, StopBlock,
               ReleaseManager, Untouched
      <3> QED BY <2>1, <2>2, <3>1, ServeStep
    <2>16. CASE UNCHANGED vars
      <3>1. /\ UNCHANGED <<state, fbs, queue, executing, thread, event, sem, history, step, work,
                           cmd, phase>>
        BY <2>16 DEF vars, threadVars, restartVars, cmdVars
      <3>2. ASSUME NEW b \in RestartFBs PROVE BlockInv(b)'
        <4>1. Stage(b)' = Stage(b) /\ Keeps(b) BY <2>1, <3>1, AllStays
        <4>2. At(b)' = At(b) BY <3>1, PlaceStays
        <4> QED BY <2>1, <3>1, <4>1, <4>2, BlockStays DEF Announcing
      <3>3. QueueInv' BY <3>1, QueueStays
      <3> QED BY <2>2, <3>1, <3>2, <3>3 DEF Announced
    <2> QED BY <2>3, <2>4, <2>5, <2>6, <2>7, <2>8, <2>9, <2>10, <2>11, <2>12, <2>13, <2>14,
               <2>15, <2>16 DEF Next, CommandThread
  <1> QED BY <1>1, <1>2

\* The inductive invariant.
LEMMA Inductive ==
  ASSUME Considerately, ListsSuffice
  PROVE  Spec => []IInv
  <1>1. Init => IInv BY TypeInit, AnnounceInit DEF IInv
  <1>2. IInv /\ [Next]_vars => IInv'
    BY TypeStep, WalkStep, TreeStep, ThreadStep, AnnounceStep DEF IInv
  <1> QED BY <1>1, <1>2, PTL DEF Spec

\* The invariant implies the order of the announcements.
LEMMA OrderFollows ==
  ASSUME IInv
  PROVE  AnnouncedInOrder
  BY BlockOrder DEF IInv, AnnounceInv

\* E_RESTART announces every start and every confirmed stop once and in order
\* (E_RESTART.cpp:54), if a considerate manager gives the commands and each
\* event list has room for an event of each E_RESTART of its resource.
THEOREM AnnouncementsInOrder ==
  ASSUME Considerately, ListsSuffice
  PROVE  Spec => []AnnouncedInOrder
  BY Inductive, OrderFollows, PTL
-----------------------------------------------------------------------------
(* Nothing is destroyed under a thread *)

\* A step that destroys nothing, starts no thread whose resource is gone and
\* leaves the end of the instance its places.
LEMMA GoneStays ==
  ASSUME GoneInv, UNCHANGED <<fbs, phase>>,
         \A r \in Threads : Resting(r) => Resting(r)' \/ r \in fbs,
         cmd' # NoCmd' /\ cmd'.by = "mgr" => thread'[Mgr] = "executing",
         phase = "deleting" => work' = work
  PROVE  GoneInv'
  <1>1. Walk' = Walk /\ Threads' = Threads /\ \A r : Join(r)' = Join(r)
    BY DEF Walk, Threads, Resources, VisitResource, Join, State, Thread
  <1> QED BY <1>1 DEF GoneInv, Left

\* The end of the instance has a place for every thread.
LEMMA DestructionIsWhole ==
  ASSUME NEW r \in Threads \cap fbs
  PROVE  \E i \in VisitDestruction : Walk[i] = Join(r)
  <1>1. PICK i \in DOMAIN Walk : Walk[i] = Join(r)
    BY WalkIsSeq DEF Holds
  <1> QED BY <1>1 DEF VisitDestruction, Join

\* Every step keeps the threads with their resources.
LEMMA GoneStep == TypeInv /\ WalkInv /\ GoneInv /\ [Next]_vars => GoneInv'
  <1> SUFFICES ASSUME TypeInv, WalkInv, GoneInv, [Next]_vars PROVE GoneInv'
    OBVIOUS
  <1>0. /\ thread \in [Threads -> {"none", "created", "loop", "suspended", "receive", "send",
                                  "test", "stop", "release", "executing", "ended"}]
        /\ Mgr \in Threads /\ cmd \in [op : Ops \cup {"none"}, target : FBs, by : {"mgr", "main"}]
    BY TreeFacts DEF TypeInv, TypeOK, Threads
  <1>1. ASSUME NEW c \in Commands, Command(c[1], c[2]) PROVE GoneInv'
    <2>1. /\ thread' = [thread EXCEPT ![Mgr] = "executing"] /\ thread[Mgr] = "suspended"
          /\ phase = "running" /\ UNCHANGED <<fbs, phase>>
      BY <1>1 DEF Command
    <2> QED BY <1>0, <2>1, GoneStays DEF Resting
  <1>2. CASE StopInstance
    <2>1. /\ cmd' = [op |-> "Kill", target |-> Dev, by |-> "main"] /\ phase' = "killing"
          /\ UNCHANGED <<fbs, thread>>
      BY <1>2 DEF StopInstance, Begin, threadVars
    <2> QED BY <2>1 DEF GoneInv, Resting, Threads, Resources
  <1>3. CASE ChangeState \/ Announce \/ KeepRunning \/ StartNewEventChain \/ WaitForStop
    <2>1. UNCHANGED <<fbs, thread, cmd, phase>>
      BY <1>3 DEF ChangeState, Announce, KeepRunning, StartNewEventChain, WaitForStop, threadVars,
                  restartVars
    <2>2. cmd # NoCmd
      BY <1>3 DEF ChangeState, Announce, KeepRunning, StartNewEventChain, WaitForStop, Visiting,
                  WalkInv, Window
    <2>3. phase # "deleting" BY <2>2 DEF WalkInv
    <2> QED BY <2>1, <2>3, GoneStays DEF GoneInv, NoCmd, Resting
  <1>4. ASSUME CommandDone, cmd # NoCmd, fbs' = fbs PROVE GoneInv'
    <2>1. /\ cmd' = NoCmd /\ phase' \in {phase, "joining"}
          /\ thread' = IF cmd.by = "mgr" THEN [thread EXCEPT ![Mgr] = "loop"] ELSE thread
      BY <1>4 DEF CommandDone
    <2>2. phase # "deleting" BY <1>4 DEF WalkInv
    <2>3. \A r \in Threads : r \notin fbs => Resting(r)'
      BY <1>0, <1>4, <2>1 DEF GoneInv, Resting
    <2> QED BY <1>4, <2>1, <2>2, <2>3 DEF GoneInv, NoCmd, Threads, Resources
  <1>5. CASE RefuseState
    <2>1. cmd # NoCmd /\ fbs' = fbs BY <1>5 DEF RefuseState, Visiting
    <2>2. CASE UNCHANGED <<cmd, thread, phase>>
      <3>1. phase # "deleting" BY <2>1 DEF WalkInv
      <3> QED BY <2>1, <2>2, <3>1, GoneStays DEF GoneInv, NoCmd, Resting
    <2>3. CASE CommandDone BY <1>4, <2>1, <2>3
    <2> QED BY <1>5, <2>2, <2>3 DEF RefuseState
  <1>6. CASE Respond
    BY <1>4, <1>6 DEF Respond
  <1>7. CASE ChangeThread
    <2> DEFINE r == CurrentFB
    <2>1. /\ thread' = IF cmd.op = "Start" /\ thread[r] = "none"
                       THEN [thread EXCEPT ![r] = "created"] ELSE thread
          /\ cmd # NoCmd /\ work # {} /\ Current.part = "thread" /\ UNCHANGED <<fbs, cmd, phase>>
      BY <1>7 DEF ChangeThread, Visiting
    <2>2. r \in fbs
      <3>1. Min(work) \in work /\ Current = Walk[Min(work)] /\ r = Walk[Min(work)].fb
        BY <2>1, CurrentIs DEF TypeInv, TypeOK, CurrentFB
      <3>2. ItemInv(Min(work)) BY <3>1 DEF WalkInv
      <3> QED BY <2>1, <3>1, <3>2 DEF ItemInv
    <2>3. phase # "deleting" BY <2>1 DEF WalkInv
    <2> HIDE DEF r
    <2> QED BY <1>0, <2>1, <2>2, <2>3, GoneStays DEF GoneInv, NoCmd, Resting
  <1>8. CASE EndThread
    BY <1>8, GoneStays DEF EndThread, GoneInv, NoCmd, Resting
  <1>9. CASE Joined
    <2> DEFINE r == CurrentFB
    <2>1. /\ Resting(r) /\ fbs' = fbs \ Within(r) /\ work' = work \ {Min(work)} /\ work # {}
          /\ Current.part = "join" /\ UNCHANGED <<thread, cmd, phase>>
      BY <1>9 DEF Joined, NextVisit, WalkInv, threadVars
    <2>2. Min(work) \in work /\ r = Walk[Min(work)].fb /\ r \in Threads /\ r \in FBs
      BY <2>1, CurrentIs DEF TypeInv, TypeOK, Visits
    <2>3. /\ r \in Within(r) /\ \A s \in Threads : s \in Within(r) => s = r
      BY <2>2, TreeFacts, TreeAssumption DEF Within, Threads, Blocks
    <2> HIDE DEF r
    <2>4. \A s \in Threads : s \notin fbs' => Resting(s)
      BY <2>1, <2>3 DEF GoneInv
    <2>5. ASSUME phase = "deleting", NEW s \in Threads \cap fbs' PROVE Left(Join(s))'
      <3>1. s \in fbs /\ s # r BY <2>1, <2>3, <2>5
      <3>2. PICK i \in work : Walk[i] = Join(s) BY <2>5, <3>1 DEF GoneInv, Left
      <3>3. i # Min(work) BY <2>2, <3>1, <3>2 DEF Join
      <3>4. Walk' = Walk /\ Join(s)' = Join(s)
        BY DEF Walk, Resources, VisitResource, Join, State, Thread
      <3> QED BY <2>1, <3>2, <3>3, <3>4 DEF Left
    <2> QED BY <2>1, <2>4, <2>5 DEF GoneInv, NoCmd, Resting, Threads, Resources
  <1>10. CASE JoinManager
    <2>1. /\ work' = VisitDestruction /\ phase' = "deleting" /\ UNCHANGED <<fbs, thread, cmd>>
      BY <1>10 DEF JoinManager, threadVars
    <2>2. ASSUME NEW s \in Threads \cap fbs PROVE Left(Join(s))'
      <3>1. PICK i \in VisitDestruction : Walk[i] = Join(s) BY DestructionIsWhole
      <3>2. Walk' = Walk /\ Join(s)' = Join(s)
        BY DEF Walk, Resources, VisitResource, Join, State, Thread
      <3> QED BY <2>1, <3>1, <3>2 DEF Left
    <2> QED BY <2>1, <2>2 DEF GoneInv, NoCmd, Resting, Threads, Resources
  <1>11. CASE InstanceEnded
    <2>1. /\ phase = "deleting" /\ work = {} /\ phase' = "deleted"
          /\ UNCHANGED <<thread, cmd>>
      BY <1>11 DEF InstanceEnded, threadVars, cmdVars
    <2>2. \A s \in Threads : Resting(s) BY <2>1 DEF GoneInv, Left
    <2> QED BY <2>1, <2>2 DEF GoneInv, NoCmd, Resting, Threads, Resources
  <1>12. ASSUME NEW r \in Threads, EcetThread(r) PROVE GoneInv'
    <2>1. UNCHANGED <<fbs, phase, cmd, work>>
      BY <1>12 DEF EcetThread, RunThread, Loop, Resume, Receive, SendEvent, TestForStop, StopBlock,
                   ReleaseManager, Untouched, cmdVars
    <2>2. ~Resting(r) /\ thread[r] # "executing"
      BY <1>12 DEF EcetThread, RunThread, Loop, Resume, Receive, SendEvent, TestForStop, StopBlock,
                   ReleaseManager, ThreadAt, Resting
    <2>3. \A s \in Threads \ {r} : thread'[s] = thread[s]
      BY <1>0, <1>12 DEF EcetThread, RunThread, Loop, Resume, Receive, SendEvent, TestForStop,
                         StopBlock, ReleaseManager, ThreadAt
    <2> QED BY <1>0, <2>1, <2>2, <2>3, GoneStays DEF GoneInv, NoCmd, Resting
  <1>13. CASE UNCHANGED vars
    BY <1>13, GoneStays DEF vars, threadVars, cmdVars, GoneInv, NoCmd, Resting
  <1> QED BY <1>1, <1>2, <1>3, <1>5, <1>6, <1>7, <1>8, <1>9, <1>10, <1>11, <1>12, <1>13
          DEF Next, CommandThread

\* What a thread executes and has in its list goes with its resource only.
LEMMA GoneFollows ==
  ASSUME TypeInv, TreeInv, GoneInv
  PROVE  NoThreadOutlives
  <1> SUFFICES ASSUME NEW r \in Threads, ~Resting(r)
               PROVE  /\ thread[r] \in Serving => executing[r] \in fbs
                      /\ \A i \in DOMAIN queue[r] : queue[r][i] \in fbs
    BY DEF NoThreadOutlives, GoneInv, Serving, Resting
  <1>1. r \in fbs BY DEF GoneInv
  <1>2. CASE r = Mgr
    BY <1>2 DEF TypeInv, TypeOK
  <1>3. CASE r \in Resources
    <2>1. BlocksOf(r) \subseteq fbs BY <1>1, <1>3 DEF TreeInv
    <2>2. thread[r] \in Serving => executing[r] \in BlocksOf(r)
      BY DEF TypeInv, TypeOK, Serving
    <2>3. queue[r] \in Seq(RestartFBs \cap BlocksOf(r))
      BY <1>3 DEF TypeInv, TypeOK
    <2> QED BY <2>1, <2>2, <2>3
  <1> QED BY <1>2, <1>3 DEF Threads

\* No thread outlives its resource, the block it executes or a block in its
\* list (resource.cpp:58, threadbase.tpp:27, fbcontainer.cpp:40), whatever is
\* commanded, deleted or ended and whenever.
THEOREM NoThreadLeft == Spec => []NoThreadOutlives
  <1> DEFINE Inv == TypeInv /\ WalkInv /\ TreeInv /\ GoneInv
  <1>1. Init => Inv
    <2>1. Init => TypeInv /\ WalkInv BY TypeInit
    <2>2. Init => TreeInv BY AnnounceInit
    <2>3. Init => GoneInv
      BY TreeFacts DEF Init, GoneInv, NoCmd, FBs
    <2> QED BY <2>1, <2>2, <2>3
  <1>2. Inv /\ [Next]_vars => Inv'
    BY TypeStep, WalkStep, TreeStep, GoneStep
  <1>3. Inv => NoThreadOutlives
    BY GoneFollows
  <1> QED BY <1>1, <1>2, <1>3, PTL DEF Spec
=============================================================================
