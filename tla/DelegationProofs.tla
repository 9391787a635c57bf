--------------------------- MODULE DelegationProofs ---------------------------
(* Proofs about Delegation, for any sessions, agents, allowed delegations,     *)
(* caps and scenarios: whatever happens in the other sessions, and however     *)
(* long the queue of posts is, rows tell who works for whom; and whatever the  *)
(* shape of the forest they make, the pages show what failed in it.            *)
EXTENDS Delegation, FiniteSetTheorems, WellFoundedInduction, TLAPS

-------------------------------------------------------------------------------
(* Types.                                                                  *)

Actors == [session : Sessions, by : Nat, cast : BOOLEAN, used : BOOLEAN]

Posts == [op : {"command", "stop", "start", "done", "skill"}, s : Sessions, a : Nat]

Rows == [kind : {"command", "subagent", "dispatched"}, agent : Agents, parent : Nat,
         session : Sessions \cup {None},
         status : {"pending", "running", "completed", "partial", "failed", "stuck", "deleted"},
         started : Nat, actor : Nat, goal : {"goal", SystemOps}, skills : SUBSET Nat, old : BOOLEAN]

Typing ==
    /\ scenario \in Scenarios
    /\ run \in Seq(Rows)
    /\ actors \in Seq(Actors)
    /\ live \in [Sessions -> SUBSET (1 .. Len(actors))]
    /\ wire \in Seq(Posts)
    /\ orderly \subseteq Sessions

-------------------------------------------------------------------------------
(* What holds of every session, whatever is lost and out of order.         *)

\* An actor was started by one before it, and is live in the session it started in, whose
\* oldest live actor is the only one that nobody started.
ActorsNest ==
    /\ \A a \in 1 .. Len(actors) : actors[a].by < a
    /\ \A s \in Sessions : \A a \in live[s] :
          /\ actors[a].session = s
          /\ actors[a].by = 0 => \A b \in live[s] : a <= b
    /\ \A s \in Sessions : live[s] # {} => \E a \in live[s] : actors[a].by = 0

\* A row stands for an actor of its kind, a dispatched one only once it was launched.
RowStands(r) ==
    LET a == run[r].actor IN
    /\ a = 0 => run[r].kind = "dispatched" /\ run[r].status # "running" /\ run[r].session = None
    /\ run[r].status = "pending" => a = 0
    /\ a # 0 =>
          /\ a <= Len(actors) /\ actors[a].cast
          /\ run[r].kind = "subagent" <=> actors[a].by # 0
          /\ run[r].kind = "command" => Where(r) \in UserSessions
          /\ run[r].kind = "dispatched" => Where(r) \in Terminals
          /\ run[r].session = Where(r) \/ (run[r].session = None /\ run[r].kind = "dispatched")

\* One row at most for an actor, started in the order in which the actors of a session appeared.
RowsOrdered ==
    \A q, r \in Runs : run[q].actor # 0 /\ run[r].actor # 0 =>
        /\ run[q].actor = run[r].actor => q = r
        /\ Where(q) = Where(r) /\ run[q].actor < run[r].actor => run[q].started < run[r].started

Opens(i)  == wire[i].op \in {"command", "start"}
Closes(i) == wire[i].op \in {"done", "stop"}

\* A post is of an actor of its session and kind.
PostStands(i) ==
    LET a == wire[i].a IN
    /\ a \in 1 .. Len(actors) /\ actors[a].session = wire[i].s
    /\ Opens(i) => actors[a].cast
    /\ wire[i].op \in {"start", "done"} => actors[a].by # 0
    /\ wire[i].op \in {"command", "stop"} => actors[a].by = 0 /\ wire[i].s \in UserSessions

\* Rows are opened in the order in which the actors of a session appeared.
PostsOrdered ==
    /\ \A i, k \in 1 .. Len(wire) : i < k /\ Opens(i) /\ Opens(k) /\ wire[i].s = wire[k].s =>
          wire[i].a < wire[k].a
    /\ \A i \in 1 .. Len(wire), r \in Runs : Opens(i) /\ run[r].actor # 0 /\ Where(r) = wire[i].s =>
          run[r].actor < wire[i].a

Timed == \E n \in Nat : \A r \in Runs : run[r].started <= n

Standing ==
    /\ Typing /\ ActorsNest /\ RowsOrdered /\ PostsOrdered /\ Timed
    /\ \A r \in Runs : RowStands(r)
    /\ \A i \in 1 .. Len(wire) : PostStands(i)

-------------------------------------------------------------------------------
(* What holds of an orderly session: the posts on the wire, served in their *)
(* order, will find the rows they are about.                               *)

Cast(s) == {c \in 1 .. Len(actors) : actors[c].session = s /\ actors[c].cast}

Running(c) == \E r \in Runs : run[r].actor = c /\ run[r].status = "running"

\* The row of c runs when the posts before the i-th have been served.
OpenAt(c, i) ==
    /\ Running(c) \/ \E k \in 1 .. Len(wire) : k < i /\ Opens(k) /\ wire[k].a = c
    /\ \A k \in 1 .. Len(wire) : k < i /\ Closes(k) => wire[k].a # c

\* Then the most recent running row of s is that of o, or there is none and o is 0.
TopAt(s, o, i) ==
    /\ o # 0 => /\ o \in Cast(s) /\ OpenAt(o, i)
                /\ \A r \in Runs : run[r].actor = o => run[r].session = s
    /\ \A c \in Cast(s) : OpenAt(c, i) => c <= o

Story(s, i) ==
    LET a == wire[i].a IN
    /\ wire[i].op = "start" => TopAt(s, Owner(actors[a].by), i)
    /\ wire[i].op = "skill" => TopAt(s, Owner(a), i)
    /\ Closes(i) /\ actors[a].cast => OpenAt(a, i)
    /\ wire[i].op = "stop" => \A c \in Cast(s) : OpenAt(c, i) /\ actors[c].by = 0 => c = a

\* When all posts have been served the rows that run are those of the live actors, but
\* for a launched agent's, which the monitor has yet to close.
AllTold(s) ==
    LET end == Len(wire) + 1 IN
    /\ \A c \in Cast(s) \cap live[s] : OpenAt(c, end)
    /\ \A c \in Cast(s) : OpenAt(c, end) =>
          \/ c \in live[s]
          \/ (actors[c].by = 0 /\ s \in Terminals /\ live[s] = {})

\* The owner of a live actor is the last cast-* actor up to it.
Chain(s) ==
    \A b \in live[s] :
        /\ Owner(b) <= b
        /\ Owner(b) # 0 => Owner(b) \in Cast(s) \cap live[s]
        /\ \A c \in Cast(s) \cap live[s] : c <= b => c <= Owner(b)

\* The part of the property that is about what the posts have done.
Attributed(r) ==
    LET a == run[r].actor
        o == Owner(actors[a].by) IN
    a # 0 =>
        /\ run[r].kind = "command" => ~run[r].old
        /\ run[r].kind # "dispatched" => run[r].skills \subseteq {a}
        /\ run[r].kind = "subagent" =>
              IF o = 0 THEN run[r].parent = 0 ELSE run[r].parent \in Runs /\ run[run[r].parent].actor = o

Telling(s) ==
    /\ Chain(s) /\ AllTold(s)
    /\ \A i \in 1 .. Len(wire) : wire[i].s = s => Story(s, i)
    /\ \A r \in Runs : Where(r) = s => Attributed(r)

Inv == Standing /\ \A s \in orderly : Telling(s)

-------------------------------------------------------------------------------
(* The oldest and the youngest of a set of actors, and the clock.          *)

Less == {ss \in Nat \X Nat : ss[1] < ss[2]}

LEMMA LessWellFounded == IsWellFoundedOn(Less, Nat)
BY NatLessThanWellFounded DEF OpToRel, Less

LEMMA LeastNat ==
  ASSUME NEW T, T \subseteq Nat, T # {}
  PROVE  \E x \in T : \A y \in T : x <= y
<1>1. \E x \in T : \A y \in T : ~(<<y, x>> \in Less)
  BY LessWellFounded, WFMin
<1>2. ASSUME NEW x \in T, NEW y \in T, ~(<<y, x>> \in Less)
      PROVE  x <= y
  BY <1>2 DEF Less
<1> QED
  BY <1>1, <1>2

LEMMA MinIsLeast ==
  ASSUME NEW T, T \subseteq Nat, T # {}
  PROVE  Min(T) \in T /\ \A y \in T : Min(T) <= y
BY LeastNat DEF Min

LEMMA MaxIsGreatest ==
  ASSUME NEW T, T \subseteq Nat, T # {}, NEW top \in Nat, \A y \in T : y <= top
  PROVE  Max(T) \in T /\ \A y \in T : y <= Max(T)
<1> DEFINE room == {top - y : y \in T}
<1>1. room \subseteq Nat /\ room # {}
  <2>1. \A y \in T : top - y \in Nat
    OBVIOUS
  <2> QED
    BY <2>1
<1>2. PICK x \in room : \A y \in room : x <= y
  BY <1>1, LeastNat
<1>3. PICK m \in T : x = top - m
  BY <1>2
<1>4. ASSUME NEW y \in T
      PROVE  m >= y
  <2>1. top - m <= top - y
    BY <1>2, <1>3
  <2> QED
    BY <2>1
<1>5. \A y \in T : Max(T) >= y
  BY <1>4 DEF Max
<1>6. Max(T) \in T
  BY <1>4 DEF Max
<1> QED
  BY <1>5, <1>6

LEMMA MainIsOldest ==
  ASSUME Typing, NEW s \in Sessions, live[s] # {}
  PROVE  Main(s) \in live[s] /\ \A b \in live[s] : Main(s) <= b
<1>1. live[s] \subseteq Nat
  BY DEF Typing
<1> QED
  BY <1>1, MinIsLeast DEF Main

LEMMA InnermostIsYoungest ==
  ASSUME Typing, NEW s \in Sessions, live[s] # {}
  PROVE  Innermost(s) \in live[s] /\ \A b \in live[s] : b <= Innermost(s)
<1>1. live[s] \subseteq Nat /\ Len(actors) \in Nat /\ \A b \in live[s] : b <= Len(actors)
  BY DEF Typing
<1> QED
  BY <1>1, MaxIsGreatest DEF Innermost

LEMMA NowIsLater ==
  ASSUME Typing, Timed
  PROVE  Now \in Nat /\ \A r \in Runs : run[r].started < Now
<1> DEFINE T == {run[r].started : r \in Runs} \cup {0}
<1>1. PICK n \in Nat : \A r \in Runs : run[r].started <= n
  BY DEF Timed
<1>2. \A r \in Runs : run[r].started \in Nat
  <2>1. \A r \in Runs : run[r] \in Rows
    BY DEF Typing, Runs
  <2> QED
    BY <2>1 DEF Rows
<1>3. T \subseteq Nat /\ T # {} /\ \A y \in T : y <= n
  BY <1>1, <1>2
<1>4. Max(T) \in T /\ \A y \in T : y <= Max(T)
  BY <1>1, <1>3, MaxIsGreatest
<1>5. Max(T) \in Nat /\ \A r \in Runs : run[r].started <= Max(T)
  BY <1>3, <1>4
<1>6. Now = 1 + Max(T)
  BY DEF Now
<1> HIDE DEF T
<1> QED
  BY <1>2, <1>5, <1>6

-------------------------------------------------------------------------------
(* The owner of an actor.                                                  *)

Owners(acts) == CHOOSE up : up = [x \in 0 .. Len(acts) |-> IF x = 0 \/ acts[x].cast THEN x ELSE up[acts[x].by]]

Nested(acts) == \A a \in 1 .. Len(acts) : acts[a].by < a

LEMMA OwnersExist ==
  ASSUME NEW acts \in Seq(Actors), Nested(acts)
  PROVE  Owners(acts) = [x \in 0 .. Len(acts) |->
                           IF x = 0 \/ acts[x].cast THEN x ELSE Owners(acts)[acts[x].by]]
<1> DEFINE Step(f, x) == IF x = 0 \/ acts[x].cast THEN x ELSE f[acts[x].by]
           Upto(n) == \E f : f = [x \in 0 .. n |-> Step(f, x)]
           missing == {n \in 0 .. Len(acts) : ~Upto(n)}
<1>1. Len(acts) \in Nat /\ \A x \in 1 .. Len(acts) : acts[x].by \in 0 .. x - 1
  <2>1. Len(acts) \in Nat /\ \A x \in 1 .. Len(acts) : acts[x] \in Actors
    OBVIOUS
  <2>2. \A x \in 1 .. Len(acts) : acts[x].by \in Nat /\ acts[x].by < x
    BY <2>1 DEF Nested, Actors
  <2> QED
    BY <2>1, <2>2
<1>2. Upto(0)
  <2>1. [x \in 0 .. 0 |-> x] = [x \in 0 .. 0 |-> Step([y \in 0 .. 0 |-> y], x)]
    OBVIOUS
  <2> QED
    BY <2>1
<1>3. ASSUME NEW n \in 0 .. Len(acts), n < Len(acts), Upto(n)
      PROVE  Upto(n + 1)
  <2>1. PICK f : f = [x \in 0 .. n |-> Step(f, x)]
    BY <1>3
  <2> DEFINE g == [x \in 0 .. n + 1 |-> IF x <= n THEN f[x] ELSE Step(f, x)]
  <2>2. ASSUME NEW x \in 0 .. n + 1
        PROVE  g[x] = Step(g, x)
    <3>0. n \in Nat /\ n + 1 \in 1 .. Len(acts)
      BY <1>1, <1>3
    <3>1. CASE x = 0
      BY <2>1, <3>0, <3>1
    <3>2. CASE x # 0
      <4>1. acts[x].by \in 0 .. n /\ acts[x].by \in 0 .. n + 1
        BY <1>1, <3>0, <3>2
      <4>2. g[acts[x].by] = f[acts[x].by]
        BY <4>1, <3>0
      <4>3. g[x] = Step(f, x)
        BY <2>1, <3>0
      <4> QED
        BY <4>2, <4>3
    <3> QED
      BY <3>1, <3>2
  <2>3. g = [x \in 0 .. n + 1 |-> Step(g, x)]
    BY <2>2
  <2> QED
    BY <2>3
<1>4. missing = {}
  <2> SUFFICES ASSUME missing # {} PROVE FALSE
    OBVIOUS
  <2>1. missing \subseteq Nat
    BY <1>1
  <2>2. PICK n \in missing : \A y \in missing : n <= y
    BY <2>1, LeastNat
  <2>3. n # 0 /\ n \in Nat /\ n <= Len(acts)
    <3>1. n \in 0 .. Len(acts) /\ ~Upto(n)
      BY <2>2
    <3> HIDE DEF Upto
    <3> QED
      BY <1>1, <1>2, <3>1
  <2>4. n - 1 \in 0 .. Len(acts) /\ n - 1 < Len(acts) /\ n - 1 \notin missing
    <3>1. n - 1 \in 0 .. Len(acts) /\ n - 1 < Len(acts) /\ ~(n <= n - 1)
      BY <1>1, <2>3
    <3> HIDE DEF missing
    <3> QED
      BY <2>2, <3>1
  <2>5. Upto(n - 1)
    BY <2>4
  <2>6. Upto((n - 1) + 1)
    BY <1>3, <2>4, <2>5
  <2>7. (n - 1) + 1 = n
    BY <2>3
  <2> HIDE DEF Upto
  <2> QED
    BY <2>2, <2>6, <2>7
<1>5. Upto(Len(acts))
  BY <1>1, <1>4
<1> QED
  BY <1>5 DEF Owners

LEMMA OwnerStep ==
  ASSUME Typing, ActorsNest, NEW a \in 0 .. Len(actors)
  PROVE  Owner(a) = IF a = 0 \/ actors[a].cast THEN a ELSE Owner(actors[a].by)
<1>1. actors \in Seq(Actors) /\ Nested(actors)
  BY DEF Typing, ActorsNest, Nested
<1>2. Owners(actors) = [x \in 0 .. Len(actors) |->
                           IF x = 0 \/ actors[x].cast THEN x ELSE Owners(actors)[actors[x].by]]
  BY <1>1, OwnersExist
<1>3. \A x : Owner(x) = Owners(actors)[x]
  BY DEF Owner, Owners
<1> QED
  BY <1>2, <1>3

LEMMA OwnerIsActor ==
  ASSUME Typing, ActorsNest, NEW a \in 0 .. Len(actors)
  PROVE  Owner(a) \in 0 .. Len(actors)
<1> DEFINE odd == {x \in 0 .. Len(actors) : Owner(x) \notin 0 .. Len(actors)}
<1>1. odd = {}
  <2> SUFFICES ASSUME odd # {} PROVE FALSE
    OBVIOUS
  <2>1. odd \subseteq Nat /\ Len(actors) \in Nat
    BY DEF Typing
  <2>2. PICK x \in odd : \A y \in odd : x <= y
    BY <2>1, LeastNat
  <2>3. x \in 0 .. Len(actors) /\ Owner(x) \notin 0 .. Len(actors)
    BY <2>2
  <2>4. x # 0 /\ ~actors[x].cast /\ Owner(x) = Owner(actors[x].by)
    BY <2>3, OwnerStep
  <2>5. actors[x] \in Actors /\ actors[x].by < x
    BY <2>1, <2>3, <2>4 DEF Typing, ActorsNest
  <2>6. actors[x].by \in 0 .. Len(actors)
    BY <2>1, <2>3, <2>5 DEF Actors
  <2>7. actors[x].by \notin odd
    BY <2>1, <2>2, <2>3, <2>5, <2>6
  <2> QED
    BY <2>3, <2>4, <2>6, <2>7
<1> QED
  BY <1>1

ActorStays(a) ==
    /\ actors'[a].session = actors[a].session
    /\ actors'[a].by = actors[a].by
    /\ actors'[a].cast = actors[a].cast

ActorsStay ==
    /\ Len(actors) <= Len(actors')
    /\ \A a \in 1 .. Len(actors) : ActorStays(a)

LEMMA OwnerStays ==
  ASSUME Typing, ActorsNest, Typing', ActorsNest', ActorsStay, NEW a \in 0 .. Len(actors)
  PROVE  Owner(a)' = Owner(a)
<1> DEFINE differ == {x \in 0 .. Len(actors) : Owners(actors)[x] # Owners(actors')[x]}
<1>0. Len(actors) \in Nat /\ Len(actors') \in Nat /\ Len(actors) <= Len(actors')
  BY DEF Typing, ActorsStay
<1>1. actors \in Seq(Actors) /\ Nested(actors) /\ actors' \in Seq(Actors) /\ Nested(actors')
  BY DEF Typing, ActorsNest, Nested
<1>2. Owners(actors) = [x \in 0 .. Len(actors) |->
                           IF x = 0 \/ actors[x].cast THEN x ELSE Owners(actors)[actors[x].by]]
  BY <1>1, OwnersExist
<1>3. Owners(actors') = [x \in 0 .. Len(actors') |->
                           IF x = 0 \/ actors'[x].cast THEN x ELSE Owners(actors')[actors'[x].by]]
  BY <1>1, OwnersExist
<1>4. differ = {}
  <2> SUFFICES ASSUME differ # {} PROVE FALSE
    OBVIOUS
  <2>1. differ \subseteq Nat
    BY <1>0
  <2>2. PICK x \in differ : \A y \in differ : x <= y
    BY <2>1, LeastNat
  <2>3. x \in 0 .. Len(actors) /\ x \in 0 .. Len(actors') /\ Owners(actors)[x] # Owners(actors')[x]
    BY <1>0, <2>2
  <2>4. x # 0 /\ ~actors[x].cast
    BY <1>2, <1>3, <2>3 DEF ActorsStay, ActorStays
  <2>5. x \in 1 .. Len(actors)
    BY <2>3, <2>4
  <2>6. actors[x].by \in 0 .. Len(actors) /\ actors[x].by < x
    <3>1. actors[x] \in Actors /\ actors[x].by < x
      BY <2>5 DEF Typing, ActorsNest
    <3> QED
      BY <1>0, <2>3, <3>1 DEF Actors
  <2>7. actors[x].by \notin differ
    BY <1>0, <2>2, <2>3, <2>6
  <2>8. Owners(actors)[actors[x].by] = Owners(actors')[actors[x].by]
    BY <2>6, <2>7
  <2>9. actors'[x].by = actors[x].by /\ ~actors'[x].cast
    BY <2>4, <2>5 DEF ActorsStay, ActorStays
  <2> QED
    BY <1>2, <1>3, <2>3, <2>4, <2>8, <2>9
<1>5. Owners(actors)[a] = Owners(actors')[a]
  BY <1>4
<1>6. Owner(a) = Owners(actors)[a]
  BY DEF Owner, Owners
<1>7. Owner(a)' = Owners(actors')[a]
  BY DEF Owner, Owners
<1> QED
  BY <1>5, <1>6, <1>7

-------------------------------------------------------------------------------
(* What a step does not disturb in the story of a session.                 *)

LEMMA CastTypes ==
  ASSUME Typing, NEW s \in Sessions, NEW c \in Cast(s)
  PROVE  c \in 1 .. Len(actors) /\ actors[c] \in Actors /\ actors[c].session = s /\ actors[c].cast
BY DEF Cast, Typing

LEMMA CastStays ==
  ASSUME Typing, Typing', ActorsStay, NEW s \in Sessions,
         \A a \in 1 .. Len(actors') : a > Len(actors) => actors'[a].session # s
  PROVE  Cast(s)' = Cast(s)
<1>1. Len(actors) \in Nat /\ Len(actors') \in Nat /\ Len(actors) <= Len(actors')
  BY DEF Typing, ActorsStay
<1>2. ASSUME NEW c \in 1 .. Len(actors')
      PROVE  actors'[c].session = s /\ actors'[c].cast <=>
             c \in 1 .. Len(actors) /\ actors[c].session = s /\ actors[c].cast
  BY <1>1 DEF ActorsStay, ActorStays
<1>3. \A c \in 1 .. Len(actors) : c \in 1 .. Len(actors')
  BY <1>1
<1>4. Cast(s)' = {c \in 1 .. Len(actors') : actors'[c].session = s /\ actors'[c].cast}
  BY DEF Cast
<1> QED
  BY <1>2, <1>3, <1>4 DEF Cast

SessionsStay(s) ==
    \A o \in Cast(s) : (\A r \in Runs : run[r].actor = o => run[r].session = s)
                       => \A r \in Runs' : run'[r].actor = o => run'[r].session = s

\* A post keeps telling the truth when it moves up from place i to place j.
LEMMA StoryStays ==
  ASSUME Standing, Standing', ActorsStay, NEW s \in Sessions,
         NEW i \in 1 .. Len(wire), NEW j \in 1 .. Len(wire'), wire'[j] = wire[i], wire[i].s = s,
         Cast(s) \subseteq Cast(s)',
         \A c \in Cast(s) : OpenAt(c, j)' <=> OpenAt(c, i),
         \A c \in Cast(s)' : c \notin Cast(s) => ~OpenAt(c, j)',
         SessionsStay(s), Story(s, i)
  PROVE  Story(s, j)'
<1>0. PICK a : a = wire[i].a
  OBVIOUS
<1>1. a \in 1 .. Len(actors) /\ actors[a] \in Actors /\ actors[a].session = s /\ ActorStays(a)
  BY <1>0 DEF Standing, PostStands, Typing, ActorsStay
<1>2. actors[a].by \in 0 .. Len(actors)
  <2>1. actors[a].by < a /\ Len(actors) \in Nat
    BY <1>1 DEF Standing, ActorsNest, Typing
  <2> QED
    BY <1>1, <2>1 DEF Actors
<1>3. PICK b : b = actors[a].by
  OBVIOUS
<1>4. PICK o, p : o = Owner(b) /\ p = Owner(a)
  OBVIOUS
<1>5. Owner(b)' = o /\ Owner(a)' = p
  <2>1. \A x \in 0 .. Len(actors) : Owner(x)' = Owner(x)
    BY OwnerStays DEF Standing
  <2> QED
    BY <1>1, <1>2, <1>3, <1>4, <2>1
<1>6. wire'[j].a = a /\ wire'[j].op = wire[i].op /\ actors'[a].by = b /\ actors'[a].cast = actors[a].cast
  BY <1>0, <1>1, <1>3 DEF ActorStays
<1>7. ASSUME NEW x, TopAt(s, x, i)
      PROVE  TopAt(s, x, j)'
  BY <1>7 DEF TopAt, SessionsStay
<1>8. wire[i].op = "start" => TopAt(s, o, j)'
  BY <1>0, <1>3, <1>4, <1>7 DEF Story
<1>9. wire[i].op = "skill" => TopAt(s, p, j)'
  BY <1>0, <1>4, <1>7 DEF Story
<1>10. wire[i].op \in {"done", "stop"} /\ actors[a].cast => OpenAt(a, j)'
  BY <1>0, <1>1 DEF Story, Closes, Cast
<1>11. wire[i].op = "stop" => \A c \in Cast(s)' : OpenAt(c, j)' /\ actors'[c].by = 0 => c = a
  <2>1. \A c \in Cast(s) : c \in 1 .. Len(actors) /\ actors'[c].by = actors[c].by
    BY DEF Cast, ActorsStay, ActorStays
  <2> QED
    BY <1>0, <2>1 DEF Story
<1> QED
  BY <1>5, <1>6, <1>8, <1>9, <1>10, <1>11 DEF Story, Closes

LEMMA ChainStays ==
  ASSUME Standing, Standing', ActorsStay, NEW s \in Sessions, Chain(s), live'[s] = live[s], Cast(s)' = Cast(s)
  PROVE  Chain(s)'
<1>1. live[s] \subseteq 0 .. Len(actors)
  BY DEF Standing, Typing
<1>2. \A x \in 0 .. Len(actors) : Owner(x)' = Owner(x)
  BY OwnerStays DEF Standing
<1>3. ASSUME NEW b \in live[s]
      PROVE  /\ Owner(b)' <= b
             /\ Owner(b)' # 0 => Owner(b)' \in Cast(s) \cap live[s]
             /\ \A c \in Cast(s) \cap live[s] : c <= b => c <= Owner(b)'
  BY <1>1, <1>2 DEF Chain
<1> QED
  BY <1>3 DEF Chain

ActorsOfRowsStay == \A q \in Runs : q \in Runs' /\ (run[q].actor # 0 => run'[q].actor = run[q].actor)

\* What the posts have done for a row stays done.
LEMMA AttributedStays ==
  ASSUME Standing, Standing', ActorsStay, ActorsOfRowsStay, NEW r \in Runs, Attributed(r), run[r].actor # 0,
         run'[r].kind = run[r].kind, run'[r].parent = run[r].parent,
         run'[r].kind = "command" /\ run'[r].old => run[r].old,
         run'[r].kind # "dispatched" => run'[r].skills \subseteq run[r].skills \cup {run[r].actor}
  PROVE  Attributed(r)'
<1>0. PICK a : a = run[r].actor
  OBVIOUS
<1>1. a \in 1 .. Len(actors) /\ ActorStays(a) /\ run'[r].actor = a
  <2>1. run[r] \in Rows
    BY DEF Standing, Typing, Runs
  <2>2. a \in Nat /\ a <= Len(actors) /\ Len(actors) \in Nat
    BY <1>0, <2>1 DEF Rows, Standing, RowStands, Typing
  <2> QED
    BY <1>0, <2>2 DEF ActorsStay, ActorsOfRowsStay
<1>2. PICK b : b = actors[a].by
  OBVIOUS
<1>3. b \in 0 .. Len(actors)
  <2>1. actors[a] \in Actors /\ b < a /\ Len(actors) \in Nat
    BY <1>1, <1>2 DEF Standing, ActorsNest, Typing
  <2> QED
    BY <1>1, <1>2, <2>1 DEF Actors
<1>4. PICK o : o = Owner(b)
  OBVIOUS
<1>5. Owner(b)' = o
  BY <1>3, <1>4, OwnerStays DEF Standing
<1>6. actors'[a].by = b
  BY <1>1, <1>2 DEF ActorStays
<1>7. run'[r].kind = "subagent" => IF o = 0 THEN run'[r].parent = 0
                                   ELSE run'[r].parent \in Runs' /\ run'[run'[r].parent].actor = o
  BY <1>0, <1>2, <1>4 DEF Attributed, ActorsOfRowsStay
<1>8. run'[r].kind = "command" => ~run'[r].old
  BY DEF Attributed
<1>9. run'[r].kind # "dispatched" => run'[r].skills \subseteq {a}
  BY <1>0 DEF Attributed
<1> QED
  BY <1>1, <1>5, <1>6, <1>7, <1>8, <1>9 DEF Attributed

\* The story of a session that the step does not touch, or of which it serves the first post:
\* the posts move up by d places.
LEMMA TellingStays ==
  ASSUME Standing, Standing', ActorsStay, NEW s \in Sessions, Telling(s), live'[s] = live[s],
         \A a \in 1 .. Len(actors') : a > Len(actors) => actors'[a].session # s,
         SessionsStay(s), \A r \in Runs' : Where(r)' = s => Attributed(r)',
         NEW d \in Nat,
         \A j \in 1 .. Len(wire') : wire'[j].s = s => j + d \in 1 .. Len(wire) /\ wire'[j] = wire[j + d],
         \A c \in Cast(s), j \in 1 .. Len(wire') : j + d \in 1 .. Len(wire) => (OpenAt(c, j)' <=> OpenAt(c, j + d)),
         NEW fin, fin = Len(wire) + 1, NEW end, end = Len(wire') + 1,
         \A c \in Cast(s) : OpenAt(c, end)' <=> OpenAt(c, fin)
  PROVE  Telling(s)'
<1>1. Cast(s)' = Cast(s)
  BY CastStays DEF Standing
<1>2. Chain(s)'
  BY <1>1, ChainStays DEF Telling
<1>3. AllTold(s)'
  <2>1. \A c \in Cast(s) : actors'[c].by = actors[c].by
    BY DEF Cast, ActorsStay, ActorStays
  <2>2. \A c \in Cast(s) \cap live[s] : OpenAt(c, fin)
    BY DEF Telling, AllTold
  <2>3. \A c \in Cast(s) : OpenAt(c, fin) =>
          c \in live[s] \/ (actors[c].by = 0 /\ s \in Terminals /\ live[s] = {})
    BY DEF Telling, AllTold
  <2>4. \A c \in Cast(s)' \cap live'[s] : OpenAt(c, end)'
    BY <1>1, <2>2
  <2>5. \A c \in Cast(s)' : OpenAt(c, end)' =>
          c \in live'[s] \/ (actors'[c].by = 0 /\ s \in Terminals /\ live'[s] = {})
    BY <1>1, <2>1, <2>3
  <2> QED
    BY <2>4, <2>5 DEF AllTold
<1>4. ASSUME NEW j \in 1 .. Len(wire'), wire'[j].s = s
      PROVE  Story(s, j)'
  <2>1. PICK i : i = j + d
    OBVIOUS
  <2>2. i \in 1 .. Len(wire) /\ wire'[j] = wire[i] /\ wire[i].s = s
    BY <1>4, <2>1
  <2>3. \A c \in Cast(s) : OpenAt(c, j)' <=> OpenAt(c, i)
    BY <2>1, <2>2
  <2>4. Story(s, i)
    BY <2>2 DEF Telling
  <2> QED
    BY <1>1, <2>2, <2>3, <2>4, StoryStays
<1> QED
  BY <1>2, <1>3, <1>4 DEF Telling

-------------------------------------------------------------------------------
(* What a step does not disturb of the rows and of the posts.              *)

LEMMA WhereStays ==
  ASSUME Standing, ActorsStay, NEW r \in Runs, run'[r].actor = run[r].actor
  PROVE  Where(r)' = Where(r)
<1>1. run[r] \in Rows /\ (run[r].actor # 0 => run[r].actor <= Len(actors)) /\ Len(actors) \in Nat
  BY DEF Standing, Typing, Runs, RowStands
<1>2. run[r].actor # 0 => run[r].actor \in 1 .. Len(actors)
  BY <1>1 DEF Rows
<1> QED
  BY <1>2 DEF Where, ActorsStay, ActorStays

RowStays(r) ==
    /\ run'[r].kind = run[r].kind
    /\ run'[r].actor = run[r].actor
    /\ run'[r].started = run[r].started

RowsStay == Len(run') = Len(run) /\ \A r \in Runs : RowStays(r)

LEMMA RowsKept ==
  ASSUME Standing, Typing', ActorsStay, RowsStay
  PROVE  RowsOrdered' /\ Timed' /\ Runs' = Runs
<1>1. Runs' = Runs
  BY DEF Runs, RowsStay
<1>2. \A r \in Runs : Where(r)' = Where(r)
  BY WhereStays DEF RowsStay, RowStays
<1>3. RowsOrdered'
  BY <1>1, <1>2 DEF Standing, RowsOrdered, RowsStay, RowStays
<1>4. Timed'
  BY <1>1 DEF Standing, Timed, RowsStay, RowStays
<1> QED
  BY <1>1, <1>3, <1>4

\* A row keeps standing for its actor when its status changes, or when its session is found.
LEMMA RowKept ==
  ASSUME Standing, ActorsStay, NEW r \in Runs, RowStays(r),
         run[r].actor = 0 => run'[r].status # "running",
         run'[r].status = "pending" => run[r].status = "pending",
         run'[r].session = run[r].session \/ (run[r].kind = "dispatched" /\ run[r].actor # 0 /\ run'[r].session = Where(r))
  PROVE  RowStands(r)'
<1>0. PICK a : a = run[r].actor
  OBVIOUS
<1>1. run[r] \in Rows /\ RowStands(r) /\ Len(actors) \in Nat
  BY DEF Standing, Typing, Runs
<1>2. a \in Nat
  BY <1>0, <1>1 DEF Rows
<1>3. a # 0 => a \in 1 .. Len(actors)
  BY <1>0, <1>1, <1>2 DEF RowStands
<1>4. Where(r)' = Where(r) /\ run'[r].actor = a
  BY <1>0, WhereStays DEF RowStays
<1>5. PICK w : w = Where(r)
  OBVIOUS
<1>6. a # 0 => a <= Len(actors') /\ actors'[a].cast = actors[a].cast /\ actors'[a].by = actors[a].by
  BY <1>1, <1>3 DEF ActorsStay, ActorStays, Standing, Typing
<1>7. Where(r)' = w
  BY <1>4, <1>5
<1>8. run'[r].status = "pending" => a = 0
  BY <1>0, <1>1 DEF RowStands
<1>9. a = 0 => run'[r].kind = "dispatched" /\ run'[r].status # "running" /\ run'[r].session = None
  BY <1>0, <1>1 DEF RowStands, RowStays
<1>10. a # 0 =>
          /\ a <= Len(actors') /\ actors'[a].cast
          /\ run'[r].kind = "subagent" <=> actors'[a].by # 0
          /\ run'[r].kind = "command" => w \in UserSessions
          /\ run'[r].kind = "dispatched" => w \in Terminals
          /\ run'[r].session = w \/ (run'[r].session = None /\ run'[r].kind = "dispatched")
  BY <1>0, <1>1, <1>5, <1>6 DEF RowStands, RowStays
<1> QED
  BY <1>4, <1>7, <1>8, <1>9, <1>10 DEF RowStands

LEMMA PostsKept ==
  ASSUME Standing, Typing', ActorsStay, NEW d \in Nat,
         \A j \in 1 .. Len(wire') : j + d \in 1 .. Len(wire) /\ wire'[j] = wire[j + d]
  PROVE  /\ \A j \in 1 .. Len(wire') : PostStands(j)'
         /\ \A i, k \in 1 .. Len(wire') : i < k /\ Opens(i)' /\ Opens(k)' /\ wire'[i].s = wire'[k].s =>
               wire'[i].a < wire'[k].a
<1>1. ASSUME NEW j \in 1 .. Len(wire')
      PROVE  PostStands(j)'
  <2>1. PICK i : i = j + d
    OBVIOUS
  <2>2. i \in 1 .. Len(wire) /\ wire'[j] = wire[i]
    BY <2>1
  <2>3. PICK a : a = wire[i].a
    OBVIOUS
  <2>4. PostStands(i)
    BY <2>2 DEF Standing
  <2>5. a \in 1 .. Len(actors) /\ a \in 1 .. Len(actors') /\ ActorStays(a)
    BY <2>3, <2>4 DEF PostStands, ActorsStay, Standing, Typing
  <2> QED
    BY <2>2, <2>3, <2>4, <2>5 DEF PostStands, ActorStays, Opens
<1>2. ASSUME NEW i \in 1 .. Len(wire'), NEW k \in 1 .. Len(wire'),
             i < k, Opens(i)', Opens(k)', wire'[i].s = wire'[k].s
      PROVE  wire'[i].a < wire'[k].a
  <2>1. i + d \in 1 .. Len(wire) /\ k + d \in 1 .. Len(wire) /\ i + d < k + d
    BY <1>2
  <2>2. wire'[i] = wire[i + d] /\ wire'[k] = wire[k + d]
    OBVIOUS
  <2> QED
    BY <1>2, <2>1, <2>2 DEF Standing, PostsOrdered, Opens
<1> QED
  BY <1>1, <1>2

LEMMA OrderKept ==
  ASSUME Standing, Typing', ActorsStay, RowsStay, NEW d \in Nat,
         \A j \in 1 .. Len(wire') : j + d \in 1 .. Len(wire) /\ wire'[j] = wire[j + d]
  PROVE  PostsOrdered' /\ \A j \in 1 .. Len(wire') : PostStands(j)'
<1>1. Runs' = Runs /\ \A r \in Runs : Where(r)' = Where(r) /\ run'[r].actor = run[r].actor
  BY WhereStays DEF RowsStay, RowStays, Runs
<1>2. ASSUME NEW i \in 1 .. Len(wire'), NEW r \in Runs', Opens(i)', run'[r].actor # 0, Where(r)' = wire'[i].s
      PROVE  run'[r].actor < wire'[i].a
  <2>1. i + d \in 1 .. Len(wire) /\ wire'[i] = wire[i + d]
    OBVIOUS
  <2> QED
    BY <1>1, <1>2, <2>1 DEF Standing, PostsOrdered, Opens
<1>3. PostsOrdered'
  BY <1>2, PostsKept DEF PostsOrdered
<1> QED
  BY <1>3, PostsKept

-------------------------------------------------------------------------------
(* Steps that change rows and no posts.                                    *)

LEMMA RowWithStatus ==
  ASSUME NEW x \in Rows, NEW st \in {"pending", "running", "completed", "partial", "failed", "stuck", "deleted"}
  PROVE  [x EXCEPT !.status = st] \in Rows
BY DEF Rows

LEMMA NoneIsNoSession == None \notin Sessions
BY DelegationAssumption DEF Sessions

LEMMA LocatedRow ==
  ASSUME NEW s \in Sessions, NEW r \in Runs, Where(r) = s
  PROVE  run[r].actor # 0
BY DelegationAssumption DEF Where, Sessions

LEMMA RowOfCast ==
  ASSUME Typing, NEW s \in Sessions, NEW c \in Cast(s), NEW r \in Runs, run[r].actor = c
  PROVE  Where(r) = s
<1>1. c \in 1 .. Len(actors) /\ actors[c].session = s /\ Len(actors) \in Nat
  BY DEF Cast, Typing
<1> QED
  BY <1>1 DEF Where

LEMMA RunningStays ==
  ASSUME Standing, RowsStay, NEW s \in Sessions, NEW c \in Cast(s),
         \A r \in Runs : Where(r) = s => (run'[r].status = "running" <=> run[r].status = "running")
  PROVE  Running(c)' <=> Running(c)
<1>1. \A r \in Runs : run[r].actor = c => (run'[r].status = "running" <=> run[r].status = "running")
  BY RowOfCast DEF Standing
<1>2. Runs' = Runs /\ \A r \in Runs : run'[r].actor = run[r].actor
  BY DEF RowsStay, RowStays, Runs
<1> QED
  BY <1>1, <1>2 DEF Running

LEMMA OpenStays ==
  ASSUME Typing, NEW c, Running(c)' <=> Running(c),
         wire' = wire \/ \E m \in Posts : wire' = Append(wire, m),
         NEW i \in 1 .. Len(wire) + 1
  PROVE  OpenAt(c, i)' <=> OpenAt(c, i)
<1>1. Len(wire) \in Nat /\ wire \in Seq(Posts)
  BY DEF Typing
<1>2. /\ \A k \in 1 .. Len(wire) : k \in 1 .. Len(wire') /\ wire'[k] = wire[k]
      /\ \A k \in 1 .. Len(wire') : k < i => k \in 1 .. Len(wire)
  BY <1>1
<1> QED
  BY <1>1, <1>2 DEF OpenAt, Opens, Closes

LEMMA UnchangedActorsStay ==
  ASSUME Typing, actors' = actors
  PROVE  ActorsStay
BY DEF ActorsStay, ActorStays, Typing

\* What is said of the rows of s stays true when the step only adds to it.
LEMMA RowsTell ==
  ASSUME Standing, Standing', actors' = actors, RowsStay, NEW s \in Sessions, Telling(s),
         \A r \in Runs : Where(r) = s =>
             /\ run[r].session = s => run'[r].session = s
             /\ run'[r].parent = run[r].parent
             /\ run'[r].skills \subseteq run[r].skills \cup {run[r].actor}
             /\ run'[r].old = run[r].old
  PROVE  /\ SessionsStay(s)
         /\ \A r \in Runs' : Where(r)' = s => Attributed(r)'
<1>1. ActorsStay
  BY UnchangedActorsStay DEF Standing
<1>2. Runs' = Runs /\ \A r \in Runs : RowStays(r)
  BY DEF RowsStay, Runs
<1>3. SessionsStay(s)
  <2> SUFFICES ASSUME NEW o \in Cast(s), \A r \in Runs : run[r].actor = o => run[r].session = s,
                      NEW r \in Runs', run'[r].actor = o
               PROVE  run'[r].session = s
    BY DEF SessionsStay
  <2> QED
    BY <1>2, RowOfCast DEF Standing, RowStays
<1>4. ASSUME NEW r \in Runs', Where(r)' = s
      PROVE  Attributed(r)'
  <2>1. r \in Runs /\ RowStays(r)
    BY <1>2
  <2>2. Where(r) = s
    BY <1>1, <1>4, <2>1, WhereStays DEF RowStays
  <2>3. Attributed(r) /\ run[r].actor # 0
    BY <2>1, <2>2, LocatedRow DEF Telling
  <2>4. ActorsOfRowsStay
    BY <1>2 DEF ActorsOfRowsStay, RowStays
  <2> QED
    BY <1>1, <2>1, <2>2, <2>3, <2>4, AttributedStays DEF RowStays
<1> QED
  BY <1>3, <1>4

\* A step that leaves claude and the wire alone, and the rows of s but for what it adds to them.
LEMMA QuietStep ==
  ASSUME Standing, Standing', RowsStay, UNCHANGED <<actors, live, wire>>, NEW s \in Sessions, Telling(s),
         \A r \in Runs : Where(r) = s =>
             /\ run'[r].status = "running" <=> run[r].status = "running"
             /\ run[r].session = s => run'[r].session = s
             /\ run'[r].parent = run[r].parent
             /\ run'[r].skills = run[r].skills
             /\ run'[r].old = run[r].old
  PROVE  Telling(s)'
<1>1. ActorsStay
  BY UnchangedActorsStay DEF Standing
<1>2. \A a \in 1 .. Len(actors') : ~(a > Len(actors))
  BY DEF Standing, Typing
<1>5. SessionsStay(s) /\ \A r \in Runs' : Where(r)' = s => Attributed(r)'
  BY RowsTell
<1>6. \A c \in Cast(s) : \A i \in 1 .. Len(wire) + 1 : OpenAt(c, i)' <=> OpenAt(c, i)
  BY RunningStays, OpenStays DEF Standing
<1>7. Len(wire) \in Nat /\ Len(wire') = Len(wire) /\ wire' = wire
  BY DEF Standing, Typing
<1>8. PICK fin : fin = Len(wire) + 1
  OBVIOUS
<1>9. \A j \in 1 .. Len(wire') : j + 0 \in 1 .. Len(wire) /\ wire'[j] = wire[j + 0] /\ j + 0 = j
  BY <1>7
<1>10. \A c \in Cast(s), j \in 1 .. Len(wire') : OpenAt(c, j)' <=> OpenAt(c, j + 0)
  BY <1>6, <1>7, <1>9
<1>11. \A c \in Cast(s) : OpenAt(c, fin)' <=> OpenAt(c, fin)
  BY <1>6, <1>7, <1>8
<1>12. fin = Len(wire') + 1 /\ 0 \in Nat /\ live'[s] = live[s]
  BY <1>7, <1>8
<1> QED
  BY <1>1, <1>2, <1>5, <1>8, <1>9, <1>10, <1>11, <1>12, TellingStays

\* A session with nobody in it and no post on the wire: its rows may end.
LEMMA DeadStep ==
  ASSUME Standing, Standing', RowsStay, UNCHANGED <<actors, live, wire>>, NEW s \in Sessions, Telling(s), ~Busy(s),
         \A r \in Runs : Where(r) = s =>
             /\ run'[r].status = "running" => run[r].status = "running"
             /\ run'[r].session = run[r].session
             /\ run'[r].parent = run[r].parent
             /\ run'[r].skills = run[r].skills
             /\ run'[r].old = run[r].old
  PROVE  Telling(s)'
<1>1. ActorsStay
  BY UnchangedActorsStay DEF Standing
<1>2. Runs' = Runs /\ \A r \in Runs : RowStays(r)
  BY DEF RowsStay, Runs
<1>3. \A r \in Runs' : Where(r)' = s => Attributed(r)'
  BY RowsTell
<1>4. live[s] = {} /\ \A i \in 1 .. Len(wire) : wire[i].s # s
  BY DEF Busy, Told
<1>5. Chain(s)'
  BY <1>4 DEF Chain
<1>6. Cast(s)' = Cast(s)
  BY DEF Cast
<1>7. ASSUME NEW c \in Cast(s), NEW i, OpenAt(c, i)'
      PROVE  OpenAt(c, i)
  <2>1. \A r \in Runs : run[r].actor = c => Where(r) = s
    BY RowOfCast DEF Standing
  <2>2. Running(c)' => Running(c)
    BY <1>2, <2>1 DEF Running, RowStays
  <2> QED
    BY <1>7, <2>2 DEF OpenAt, Opens, Closes
<1>8. PICK fin : fin = Len(wire) + 1
  OBVIOUS
<1>9. fin = Len(wire') + 1
  BY <1>8
<1>10. \A c \in Cast(s)' : OpenAt(c, fin)' => actors[c].by = 0 /\ s \in Terminals
  BY <1>4, <1>6, <1>7, <1>8 DEF Telling, AllTold
<1>11. AllTold(s)'
  BY <1>4, <1>9, <1>10 DEF AllTold
<1> QED
  BY <1>3, <1>4, <1>5, <1>11 DEF Telling

\* The rows stay where they are and posts move up by d places.
LEMMA StandingKept ==
  ASSUME Standing, Typing', actors' = actors, live' = live, RowsStay,
         \A r \in Runs :
             /\ run[r].actor = 0 => run'[r].status # "running"
             /\ run'[r].status = "pending" => run[r].status = "pending"
             /\ \/ run'[r].session = run[r].session
                \/ run[r].kind = "dispatched" /\ run[r].actor # 0 /\ run'[r].session = Where(r),
         NEW d \in Nat, \A j \in 1 .. Len(wire') : j + d \in 1 .. Len(wire) /\ wire'[j] = wire[j + d]
  PROVE  Standing'
<1>1. ActorsStay
  BY UnchangedActorsStay DEF Standing
<1>2. Runs' = Runs /\ RowsOrdered' /\ Timed'
  BY <1>1, RowsKept
<1>3. \A q \in Runs' : RowStands(q)'
  <2> SUFFICES ASSUME NEW q \in Runs PROVE RowStands(q)'
    BY <1>2
  <2>1. RowStays(q)
    BY DEF RowsStay
  <2> QED
    BY <1>1, <2>1, RowKept
<1>4. ActorsNest'
  BY DEF Standing, ActorsNest
<1>5. PostsOrdered' /\ \A j \in 1 .. Len(wire') : PostStands(j)'
  BY <1>1, OrderKept
<1> QED
  BY <1>2, <1>3, <1>4, <1>5 DEF Standing

\* A row ends, and its session leaves the story unless nothing more can be told of it.
LEMMA RowEnds ==
  ASSUME Inv, NEW r \in Runs, NEW st \in {"completed", "partial", "failed", "stuck", "deleted"},
         run' = [run EXCEPT ![r] = [run[r] EXCEPT !.status = st]], orderly' = Ended(r),
         UNCHANGED <<scenario, actors, live, wire>>
  PROVE  Inv'
<1>0. Standing /\ \A s \in orderly : Telling(s)
  BY DEF Inv
<1>1. ActorsStay
  BY <1>0, UnchangedActorsStay DEF Standing
<1>2. run \in Seq(Rows) /\ Len(run') = Len(run)
  BY <1>0 DEF Standing, Typing
<1>14. Typing'
  <2>1. run[r] \in Rows
    BY <1>2 DEF Runs
  <2>2. [run[r] EXCEPT !.status = st] \in Rows
    BY <2>1 DEF Rows
  <2>3. run' \in Seq(Rows)
    BY <1>2, <2>2 DEF Runs
  <2>4. orderly' \subseteq Sessions
    BY <1>0 DEF Ended, Standing, Typing
  <2> QED
    BY <1>0, <2>3, <2>4 DEF Standing, Typing
<1>3. \A q \in Runs : run[q] \in Rows /\ run'[q] = IF q = r THEN [run[r] EXCEPT !.status = st] ELSE run[q]
  BY <1>2 DEF Runs
<1>4. \A q \in Runs :
          /\ RowStays(q) /\ run'[q].session = run[q].session /\ run'[q].parent = run[q].parent
          /\ run'[q].skills = run[q].skills /\ run'[q].old = run[q].old
          /\ run'[q].status = IF q = r THEN st ELSE run[q].status
  BY <1>3 DEF RowStays, Rows
<1>5. RowsStay
  BY <1>2, <1>4 DEF RowsStay
<1>6. \A q \in Runs : run[q].actor = 0 => run'[q].status # "running"
  BY <1>0, <1>4 DEF Standing, RowStands
<1>7. Len(wire) \in Nat /\ Len(wire') = Len(wire) /\ \A j \in 1 .. Len(wire') : j + 0 \in 1 .. Len(wire) /\ wire'[j] = wire[j + 0]
  BY <1>0 DEF Standing, Typing
<1>11. Standing'
  BY <1>0, <1>4, <1>5, <1>6, <1>7, <1>14, StandingKept
<1>12. ASSUME NEW s \in orderly'
       PROVE  Telling(s)'
  <2>1. s \in orderly /\ s \in Sessions /\ (Where(r) = s => ~Busy(s))
    BY <1>0, <1>12, NoneIsNoSession DEF Ended, Standing, Typing
  <2>2. CASE Where(r) = s
    BY <1>0, <1>4, <1>5, <1>11, <2>1, <2>2, DeadStep
  <2>3. CASE Where(r) # s
    BY <1>0, <1>4, <1>5, <1>11, <2>1, <2>3, QuietStep
  <2> QED
    BY <2>2, <2>3
<1> QED
  BY <1>11, <1>12 DEF Inv

LEMMA FinalizeStep ==
  ASSUME Inv, NEW r \in Runs, Finalize(r)
  PROVE  Inv'
<1>1. run' = [run EXCEPT ![r] = [run[r] EXCEPT !.status = StatusOf(r)]]
  BY DEF Finalize
<1>2. PICK st : st = StatusOf(r)
  OBVIOUS
<1>3. st \in {"completed", "partial", "failed", "stuck", "deleted"}
  BY <1>2 DEF StatusOf, Terminal
<1>4. orderly' = Ended(r) /\ UNCHANGED <<scenario, actors, live, wire>>
  BY DEF Finalize, claude
<1> QED
  BY <1>1, <1>2, <1>3, <1>4, RowEnds

LEMMA StuckStep ==
  ASSUME Inv, NEW r \in Runs, Stuck(r)
  PROVE  Inv'
<1>1. run' = [run EXCEPT ![r] = [run[r] EXCEPT !.status = "stuck"]]
  BY DEF Stuck
<1>2. orderly' = Ended(r) /\ UNCHANGED <<scenario, actors, live, wire>>
  BY DEF Stuck, claude
<1> QED
  BY <1>1, <1>2, RowEnds

LEMMA FailRunStep ==
  ASSUME Inv, NEW r \in Runs, FailRun(r)
  PROVE  Inv'
<1>1. run' = [run EXCEPT ![r] = [run[r] EXCEPT !.status = "failed"]]
  BY DEF FailRun
<1>2. orderly' = Ended(r) /\ UNCHANGED <<scenario, actors, live, wire>>
  BY DEF FailRun, claude
<1> QED
  BY <1>1, <1>2, RowEnds

LEMMA DeleteRunStep ==
  ASSUME Inv, NEW r \in Runs, DeleteRun(r)
  PROVE  Inv'
<1>1. run' = [run EXCEPT ![r] = [run[r] EXCEPT !.status = "deleted"]]
  BY DEF DeleteRun
<1>2. orderly' = Ended(r) /\ UNCHANGED <<scenario, actors, live, wire>>
  BY DEF DeleteRun, claude
<1> QED
  BY <1>1, <1>2, RowEnds

LEMMA RefuseStep ==
  ASSUME Inv, NEW r \in Runs, Refuse(r)
  PROVE  Inv'
<1>1. run' = [run EXCEPT ![r] = [run[r] EXCEPT !.status = "failed"]]
  BY DEF Refuse
<1>2. run[r].actor = 0
  BY DEF Refuse, Inv, Standing, RowStands
<1>3. orderly' = Ended(r)
  BY <1>2 DEF Refuse, Ended, Where
<1>4. UNCHANGED <<scenario, actors, live, wire>>
  BY DEF Refuse, claude
<1> QED
  BY <1>1, <1>3, <1>4, RowEnds

LEMMA DiscoverSessionStep ==
  ASSUME Inv, NEW r \in Runs, DiscoverSession(r)
  PROVE  Inv'
<1>0. Standing /\ Typing /\ \A s \in orderly : s \in Sessions /\ Telling(s)
  BY DEF Inv, Standing, Typing
<1>1. run \in Seq(Rows) /\ run[r] \in Rows /\ run[r].actor # 0 /\ run[r].kind = "dispatched" /\ RowStands(r)
  BY <1>0 DEF Typing, Runs, Standing, RowStands, DiscoverSession
<1>2. Where(r) \in Sessions
  BY <1>1 DEF RowStands, Sessions
<1>3. run' = [run EXCEPT ![r] = [run[r] EXCEPT !.session = Where(r)]]
  BY DEF DiscoverSession
<1>4. UNCHANGED <<scenario, actors, live, wire, orderly>>
  BY DEF DiscoverSession, claude
<1>5. Typing'
  <2>1. [run[r] EXCEPT !.session = Where(r)] \in Rows
    BY <1>1, <1>2 DEF Rows
  <2>2. run' \in Seq(Rows)
    BY <1>1, <1>3, <2>1 DEF Runs
  <2> QED
    BY <1>0, <1>4, <2>2 DEF Typing
<1>6. \A q \in Runs : run[q] \in Rows /\ run'[q] = IF q = r THEN [run[r] EXCEPT !.session = Where(r)] ELSE run[q]
  BY <1>1, <1>3 DEF Runs
<1>7. \A q \in Runs :
          /\ RowStays(q) /\ run'[q].status = run[q].status /\ run'[q].parent = run[q].parent
          /\ run'[q].skills = run[q].skills /\ run'[q].old = run[q].old
          /\ run'[q].session = IF q = r THEN Where(r) ELSE run[q].session
  BY <1>6 DEF RowStays, Rows
<1>8. RowsStay
  BY <1>1, <1>3, <1>7 DEF RowsStay
<1>9. \A q \in Runs : run[q].actor = 0 => run'[q].status # "running"
  BY <1>0, <1>7 DEF Standing, RowStands
<1>10. \A q \in Runs : \/ run'[q].session = run[q].session
                       \/ run[q].kind = "dispatched" /\ run[q].actor # 0 /\ run'[q].session = Where(q)
  BY <1>1, <1>7
<1>11. Len(wire) \in Nat /\ Len(wire') = Len(wire) /\ \A j \in 1 .. Len(wire') : j + 0 \in 1 .. Len(wire) /\ wire'[j] = wire[j + 0]
  BY <1>0, <1>4 DEF Typing
<1>12. Standing'
  BY <1>0, <1>4, <1>5, <1>7, <1>8, <1>9, <1>10, <1>11, StandingKept
<1>13. ASSUME NEW s \in orderly'
       PROVE  Telling(s)'
  <2>1. s \in Sessions /\ Telling(s)
    BY <1>0, <1>4
  <2>2. \A q \in Runs : Where(q) = s /\ run[q].session = s => run'[q].session = s
    BY <1>7
  <2> QED
    BY <1>0, <1>4, <1>7, <1>8, <1>12, <2>1, <2>2, QuietStep
<1> QED
  BY <1>12, <1>13 DEF Inv

LEMMA HourPassesStep ==
  ASSUME Inv, HourPasses
  PROVE  Inv'
<1>0. Standing /\ Typing /\ \A s \in orderly : s \in Sessions /\ Telling(s)
  BY DEF Inv, Standing, Typing
<1> DEFINE long == {r \in Runs : run[r].kind = "command" /\ run[r].status = "running" /\ ~run[r].old}
<1>1. run \in Seq(Rows) /\ Len(run) \in Nat /\ \A q \in Runs : run[q] \in Rows
  BY <1>0 DEF Typing, Runs
<1>2. run' = [r \in Runs |-> [run[r] EXCEPT !.old = run[r].old \/ r \in long]]
  BY DEF HourPasses
<1>3. orderly' = orderly \ {Where(r) : r \in long} /\ UNCHANGED <<scenario, actors, live, wire>>
  BY DEF HourPasses, claude
<1>4. \A q \in Runs : run'[q] = [run[q] EXCEPT !.old = run[q].old \/ q \in long]
  BY <1>2
<1>5. Typing'
  <2>1. ASSUME NEW q \in Runs
        PROVE  run'[q] \in Rows
    <3>1. PICK v \in BOOLEAN : run'[q] = [run[q] EXCEPT !.old = v]
      BY <1>4
    <3> QED
      BY <1>1, <3>1 DEF Rows
  <2>2. run' \in Seq(Rows)
    BY <1>1, <1>2, <2>1 DEF Runs
  <2> QED
    BY <1>0, <1>3, <2>2 DEF Typing
<1>6. \A q \in Runs :
          /\ RowStays(q) /\ run'[q].status = run[q].status /\ run'[q].parent = run[q].parent
          /\ run'[q].skills = run[q].skills /\ run'[q].session = run[q].session
          /\ q \notin long => run'[q].old = run[q].old
  <2> SUFFICES ASSUME NEW q \in Runs
               PROVE  /\ RowStays(q) /\ run'[q].status = run[q].status /\ run'[q].parent = run[q].parent
                      /\ run'[q].skills = run[q].skills /\ run'[q].session = run[q].session
                      /\ q \notin long => run'[q].old = run[q].old
    OBVIOUS
  <2>1. PICK v : v = (run[q].old \/ q \in long)
    OBVIOUS
  <2>2. run'[q] = [run[q] EXCEPT !.old = v]
    BY <1>4, <2>1
  <2>3. run[q].old \in BOOLEAN
    BY <1>1 DEF Rows
  <2>4. q \notin long => v = run[q].old
    BY <2>1, <2>3
  <2> HIDE DEF long
  <2> QED
    BY <1>1, <2>2, <2>4 DEF RowStays, Rows
<1>7. RowsStay
  BY <1>1, <1>2, <1>6 DEF RowsStay, Runs
<1>8. \A q \in Runs : run[q].actor = 0 => run'[q].status # "running"
  BY <1>0, <1>6 DEF Standing, RowStands
<1>9. Len(wire) \in Nat /\ Len(wire') = Len(wire) /\ \A j \in 1 .. Len(wire') : j + 0 \in 1 .. Len(wire) /\ wire'[j] = wire[j + 0]
  BY <1>0, <1>3 DEF Typing
<1>10. Standing'
  BY <1>0, <1>3, <1>5, <1>6, <1>7, <1>8, <1>9, StandingKept
<1>11. ASSUME NEW s \in orderly'
       PROVE  Telling(s)'
  <2>1. s \in Sessions /\ Telling(s) /\ \A q \in Runs : Where(q) = s => q \notin long
    BY <1>0, <1>3, <1>11
  <2> HIDE DEF long
  <2> QED
    BY <1>0, <1>3, <1>6, <1>7, <1>10, <2>1, QuietStep
<1> QED
  BY <1>10, <1>11 DEF Inv

LEMMA IdleStep ==
  ASSUME Inv, UNCHANGED <<scenario, run, actors, live, wire, orderly>>
  PROVE  Inv'
<1>0. Standing /\ Typing /\ \A s \in orderly : s \in Sessions /\ Telling(s)
  BY DEF Inv, Standing, Typing
<1>1. Typing'
  BY <1>0 DEF Typing
<1>2. RowsStay /\ \A r \in Runs : RowStays(r)
  BY DEF RowsStay, RowStays
<1>3. \A q \in Runs : run[q].actor = 0 => run[q].status # "running"
  BY <1>0 DEF Standing, RowStands
<1>4. Len(wire) \in Nat /\ \A j \in 1 .. Len(wire') : j + 0 \in 1 .. Len(wire) /\ wire'[j] = wire[j + 0]
  BY <1>0 DEF Typing
<1>5. Standing'
  BY <1>0, <1>1, <1>2, <1>3, <1>4, StandingKept
<1>6. \A s \in orderly' : Telling(s)'
  BY <1>0, <1>2, <1>5, QuietStep
<1> QED
  BY <1>5, <1>6 DEF Inv

LEMMA RestartStep ==
  ASSUME Inv, Restart
  PROVE  Inv'
<1>0. Standing /\ Typing /\ \A s \in orderly : s \in Sessions /\ Telling(s)
  BY DEF Inv, Standing, Typing
<1> DEFINE lost == {r \in Runs : /\ run[r].status = "running"
                                 /\ run[r].kind = "dispatched" => live[Where(r)] = {}}
<1>1. run \in Seq(Rows) /\ Len(run) \in Nat /\ \A q \in Runs : run[q] \in Rows
  BY <1>0 DEF Typing, Runs
<1>2. run' = [r \in Runs |-> IF r \in lost THEN [run[r] EXCEPT !.status = StatusOf(r)] ELSE run[r]]
  BY DEF Restart
<1>3. orderly' = {s \in orderly : ~Told(s) /\ \A r \in lost : Where(r) # s}
  BY DEF Restart
<1>4. wire' = <<>> /\ UNCHANGED <<scenario, actors, live>>
  BY DEF Restart, claude
<1> HIDE DEF lost
<1>5. \A q \in Runs : StatusOf(q) \in {"completed", "partial", "failed"}
  BY DEF StatusOf, Terminal
<1>6. \A q \in Runs : run'[q] = IF q \in lost THEN [run[q] EXCEPT !.status = StatusOf(q)] ELSE run[q]
  BY <1>2
<1>7. Typing'
  <2>1. ASSUME NEW q \in Runs
        PROVE  run'[q] \in Rows
    <3>1. CASE q \in lost
      <4>1. PICK st \in {"completed", "partial", "failed"} : st = StatusOf(q)
        BY <1>5
      <4>2. run'[q] = [run[q] EXCEPT !.status = st]
        BY <1>6, <3>1, <4>1
      <4> QED
        BY <1>1, <4>2 DEF Rows
    <3>2. CASE q \notin lost
      BY <1>1, <1>6, <3>2
    <3> QED
      BY <3>1, <3>2
  <2>2. run' \in Seq(Rows)
    <3>1. run' \in [1 .. Len(run) -> Rows]
      BY <1>2, <2>1 DEF Runs
    <3> QED
      BY <1>1, <3>1
  <2>3. wire' \in Seq(Posts)
    BY <1>4
  <2> QED
    BY <1>0, <1>3, <1>4, <2>2, <2>3 DEF Typing
<1>8. \A q \in Runs :
          /\ RowStays(q) /\ run'[q].parent = run[q].parent /\ run'[q].session = run[q].session
          /\ run'[q].skills = run[q].skills /\ run'[q].old = run[q].old
          /\ run'[q].status = IF q \in lost THEN StatusOf(q) ELSE run[q].status
  BY <1>1, <1>6 DEF RowStays, Rows
<1>9. RowsStay /\ Runs' = Runs
  BY <1>1, <1>2, <1>8 DEF RowsStay, Runs
<1>10. \A q \in Runs : /\ run[q].actor = 0 => run'[q].status # "running"
                       /\ run'[q].status = "pending" => run[q].status = "pending"
  BY <1>0, <1>5, <1>8 DEF Standing, RowStands
<1>11. Len(wire') = 0
  BY <1>4
<1>12. Standing'
  <2>1. \A j \in 1 .. Len(wire') : j + 0 \in 1 .. Len(wire) /\ wire'[j] = wire[j + 0]
    BY <1>11
  <2> QED
    BY <1>0, <1>4, <1>7, <1>8, <1>9, <1>10, <2>1, StandingKept
<1>13. ActorsStay /\ \A a \in 1 .. Len(actors') : ~(a > Len(actors))
  BY <1>0, <1>4, UnchangedActorsStay DEF Typing
<1>14. ASSUME NEW s \in orderly'
       PROVE  Telling(s)'
  <2>1. s \in Sessions /\ Telling(s) /\ ~Told(s) /\ \A r \in Runs : Where(r) = s => r \notin lost
    BY <1>0, <1>3, <1>14
  <2>2. SessionsStay(s) /\ \A r \in Runs' : Where(r)' = s => Attributed(r)'
    BY <1>0, <1>4, <1>8, <1>9, <1>12, <2>1, RowsTell
  <2>4. PICK fin : fin = Len(wire) + 1
    OBVIOUS
  <2>5. ASSUME NEW c \in Cast(s)
        PROVE  OpenAt(c, 1)' <=> OpenAt(c, fin)
    <3>1. Running(c)' <=> Running(c)
      BY <1>0, <1>8, <1>9, <2>1, RunningStays
    <3>2. \A k \in 1 .. Len(wire) : wire[k].a # c
      BY <1>0, <2>1, CastTypes DEF Standing, PostStands, Told
    <3> QED
      BY <1>11, <3>1, <3>2 DEF OpenAt
  <2>6. PICK end : end = Len(wire') + 1
    OBVIOUS
  <2>7. end = 1 /\ live'[s] = live[s] /\ 0 \in Nat
    BY <1>4, <1>11, <2>6
  <2>8. \A c \in Cast(s) : OpenAt(c, end)' <=> OpenAt(c, fin)
    BY <2>5, <2>7
  <2>9. \A j \in 1 .. Len(wire') : wire'[j].s = s => j + 0 \in 1 .. Len(wire) /\ wire'[j] = wire[j + 0]
    BY <1>11
  <2>10. \A c \in Cast(s), j \in 1 .. Len(wire') : j + 0 \in 1 .. Len(wire) => (OpenAt(c, j)' <=> OpenAt(c, j + 0))
    BY <1>11
  <2> QED
    BY <1>0, <1>12, <1>13, <2>1, <2>2, <2>4, <2>6, <2>7, <2>8, <2>9, <2>10, TellingStays
<1> QED
  BY <1>12, <1>14 DEF Inv

-------------------------------------------------------------------------------
(* Steps that add a row.                                                   *)

Opened(x) ==
    LET a == x.actor IN
    /\ a = 0 => x.kind = "dispatched" /\ x.status = "pending" /\ x.session = None
    /\ a # 0 =>
          /\ x.kind \in {"command", "subagent"} /\ x.status = "running" /\ x.started = Now
          /\ a <= Len(actors) /\ actors[a].cast
          /\ x.kind = "subagent" <=> actors[a].by # 0
          /\ x.kind = "command" => actors[a].session \in UserSessions
          /\ x.session = actors[a].session
          /\ \A r \in Runs : run[r].actor # 0 /\ Where(r) = x.session => run[r].actor < a
          /\ \A j \in 1 .. Len(wire') : Opens(j)' /\ wire'[j].s = x.session => a < wire'[j].a

Grown(x, n) ==
    /\ Runs' = Runs \cup {n} /\ n \notin Runs
    /\ run'[n] = x /\ \A r \in Runs : run'[r] = run[r]

LEMMA AppendedGrows ==
  ASSUME Typing, NEW x, run' = Append(run, x), NEW n, n = Len(run) + 1
  PROVE  Grown(x, n)
<1>1. run \in Seq(Rows) /\ Len(run) \in Nat
  BY DEF Typing
<1> QED
  BY <1>1 DEF Runs, Grown

LEMMA StandingGrown ==
  ASSUME Standing, Typing', actors' = actors, live' = live,
         NEW x \in Rows, x.started \in {0, Now}, Opened(x), NEW n, Grown(x, n),
         NEW d \in Nat, \A j \in 1 .. Len(wire') : j + d \in 1 .. Len(wire) /\ wire'[j] = wire[j + d]
  PROVE  Standing'
<1>1. ActorsStay
  BY UnchangedActorsStay DEF Standing
<1>2. run \in Seq(Rows) /\ Len(run) \in Nat /\ Len(actors) \in Nat
  BY DEF Standing, Typing
<1>4. Runs' = Runs \cup {n} /\ n \notin Runs /\ run'[n] = x /\ \A r \in Runs : run'[r] = run[r]
  BY DEF Grown
<1>5. \A r \in Runs : Where(r)' = Where(r)
  BY <1>1, <1>4, WhereStays
<1>6. PICK a : a = x.actor
  OBVIOUS
<1>7. a \in Nat /\ (a # 0 => a \in 1 .. Len(actors) /\ actors[a] \in Actors)
  BY <1>2, <1>6 DEF Rows, Opened, Standing, Typing
<1>8. Where(n)' = IF a = 0 THEN None ELSE actors[a].session
  BY <1>4, <1>6 DEF Where
<1>9. PICK w : w = Where(n)'
  OBVIOUS
<1>10. Now \in Nat /\ \A r \in Runs : run[r].started < Now
  BY NowIsLater DEF Standing
<1>11. Timed'
  <2>1. \A r \in Runs' : run'[r].started <= Now
    <3>1. run'[n].started <= Now
      BY <1>4, <1>10
    <3>2. \A r \in Runs : run'[r].started <= Now
      <4>1. \A r \in Runs : run[r].started \in Nat
        <5>1. \A r \in Runs : run[r] \in Rows
          BY <1>2 DEF Runs
        <5> QED
          BY <5>1 DEF Rows
      <4> QED
        <5>1. ASSUME NEW r \in Runs
              PROVE  run[r].started <= Now
          BY <1>10, <4>1
        <5> QED
          BY <1>4, <5>1
    <3> QED
      BY <1>4, <3>1, <3>2
  <2>2. PICK m : m = Now
    OBVIOUS
  <2>3. m \in Nat /\ \A r \in Runs' : run'[r].started <= m
    BY <1>10, <2>1, <2>2
  <2> QED
    BY <2>3 DEF Timed
<1>12. a # 0 => w = x.session /\ \A r \in Runs : run[r].actor # 0 /\ Where(r) = w => run[r].actor < a
  BY <1>6, <1>8, <1>9 DEF Opened
<1>13. ASSUME NEW r \in Runs', run'[r].actor # 0, a # 0, run'[r].actor = a \/ Where(r)' = w
       PROVE  r = n \/ (run'[r].actor < a /\ run'[r].started < x.started)
  <2> SUFFICES ASSUME r \in Runs PROVE run'[r].actor < a /\ run'[r].started < x.started
    BY <1>4
  <2>1. Where(r) = w
    <3>1. run[r].actor = a => Where(r) = w
      BY <1>8, <1>9, <1>13 DEF Where
    <3> QED
      BY <1>4, <1>5, <1>13, <3>1
  <2> QED
    BY <1>4, <1>6, <1>10, <1>12, <1>13, <2>1 DEF Opened
<1>14. RowsOrdered'
  <2> SUFFICES ASSUME NEW q \in Runs', NEW r \in Runs', run'[q].actor # 0, run'[r].actor # 0
               PROVE  /\ run'[q].actor = run'[r].actor => q = r
                      /\ Where(q)' = Where(r)' /\ run'[q].actor < run'[r].actor => run'[q].started < run'[r].started
    BY DEF RowsOrdered
  <2>0. \A z \in Runs' : run'[z].actor \in Nat
    <3>1. \A z \in Runs : run[z] \in Rows
      BY <1>2 DEF Runs
    <3> QED
      BY <1>4, <3>1 DEF Rows
  <2>1. CASE q \in Runs /\ r \in Runs
    <3>1. run'[q] = run[q] /\ run'[r] = run[r] /\ Where(q)' = Where(q) /\ Where(r)' = Where(r)
      BY <1>4, <1>5, <2>1
    <3>2. run[q].actor # 0 /\ run[r].actor # 0
      BY <3>1
    <3>3. /\ run[q].actor = run[r].actor => q = r
          /\ Where(q) = Where(r) /\ run[q].actor < run[r].actor => run[q].started < run[r].started
      BY <2>1, <3>2 DEF Standing, RowsOrdered
    <3> QED
      BY <3>1, <3>3
  <2>2. CASE r = n
    <3>1. run'[r].actor = a /\ Where(r)' = w /\ run'[r].started = x.started
      BY <1>4, <1>6, <1>9, <2>2
    <3>2. run'[q].actor = a \/ Where(q)' = w => q = n \/ (run'[q].actor < a /\ run'[q].started < x.started)
      BY <1>13, <3>1
    <3>3. a \in Nat /\ run'[q].actor \in Nat
      BY <2>0, <3>1
    <3>4. run'[q].actor = a => q = n
      BY <3>2, <3>3
    <3>5. Where(q)' = w /\ run'[q].actor < a => run'[q].started < x.started
      <4>1. q = n => run'[q].actor = a
        BY <2>2, <3>1
      <4> QED
        BY <3>2, <3>3, <4>1
    <3> QED
      BY <2>2, <3>1, <3>4, <3>5
  <2>3. CASE q = n /\ r \in Runs
    <3>1. run'[q].actor = a /\ Where(q)' = w /\ r # n
      BY <1>4, <1>6, <1>9, <2>3
    <3>2. run'[r].actor = a \/ Where(r)' = w => run'[r].actor < a /\ run'[r].started < x.started
      BY <1>13, <3>1
    <3>3. a \in Nat /\ run'[r].actor \in Nat
      BY <2>0, <3>1
    <3>4. run'[r].actor # a
      BY <3>2, <3>3
    <3>5. ~(Where(r)' = w /\ a < run'[r].actor)
      BY <3>2, <3>3
    <3> QED
      BY <3>1, <3>4, <3>5
  <2> QED
    BY <1>4, <2>1, <2>2, <2>3
<1>15. ASSUME NEW r \in Runs'
       PROVE  RowStands(r)'
  <2>1. CASE r \in Runs
    <3>1. RowStays(r) /\ run'[r] = run[r]
      BY <1>4, <2>1 DEF RowStays
    <3>2. run[r].actor = 0 => run[r].status # "running"
      BY <2>1 DEF Standing, RowStands
    <3> QED
      BY <1>1, <2>1, <3>1, <3>2, RowKept
  <2>2. CASE r = n
    BY <1>4, <1>6, <1>8, <2>2, DelegationAssumption DEF RowStands, Opened
  <2> QED
    BY <1>4, <2>1, <2>2
<1>16. ActorsNest'
  BY DEF Standing, ActorsNest
<1>17. ASSUME NEW i \in 1 .. Len(wire'), NEW r \in Runs', Opens(i)', run'[r].actor # 0, Where(r)' = wire'[i].s
       PROVE  run'[r].actor < wire'[i].a
  <2>1. CASE r \in Runs
    <3>1. i + d \in 1 .. Len(wire) /\ wire'[i] = wire[i + d]
      OBVIOUS
    <3> QED
      BY <1>4, <1>5, <1>17, <2>1, <3>1 DEF Standing, PostsOrdered, Opens
  <2>2. CASE r = n
    BY <1>4, <1>6, <1>8, <1>17, <2>2 DEF Opened
  <2> QED
    BY <1>4, <2>1, <2>2
<1>18. PostsOrdered' /\ \A j \in 1 .. Len(wire') : PostStands(j)'
  BY <1>1, <1>17, PostsKept DEF PostsOrdered
<1> QED
  BY <1>11, <1>14, <1>15, <1>16, <1>18 DEF Standing

LEMMA GrownStays ==
  ASSUME Standing, Standing', actors' = actors, NEW x \in Rows, Opened(x), NEW n, Grown(x, n),
         NEW s \in Sessions, Telling(s)
  PROVE  /\ SessionsStay(s)
         /\ \A r \in Runs : Where(r)' = s => Attributed(r)'
<1>1. ActorsStay /\ ActorsOfRowsStay
  BY UnchangedActorsStay DEF Standing, Grown, ActorsOfRowsStay
<1>2. SessionsStay(s)
  <2> SUFFICES ASSUME NEW o \in Cast(s), \A r \in Runs : run[r].actor = o => run[r].session = s,
                      NEW r \in Runs', run'[r].actor = o
               PROVE  run'[r].session = s
    BY DEF SessionsStay
  <2>1. o \in 1 .. Len(actors) /\ actors[o].session = s /\ Len(actors) \in Nat
    BY DEF Cast, Standing, Typing
  <2>2. CASE r = n
    BY <2>1, <2>2 DEF Grown, Opened
  <2>3. CASE r \in Runs
    BY <2>3 DEF Grown
  <2> QED
    BY <2>2, <2>3 DEF Grown
<1>3. ASSUME NEW r \in Runs, Where(r)' = s
      PROVE  Attributed(r)'
  <2>1. run'[r] = run[r]
    BY DEF Grown
  <2>2. Where(r) = s
    BY <1>1, <1>3, <2>1, WhereStays
  <2>3. Attributed(r) /\ run[r].actor # 0
    BY <2>2, LocatedRow DEF Telling
  <2> QED
    BY <1>1, <2>1, <2>3, AttributedStays
<1> QED
  BY <1>2, <1>3

LEMMA TriggerAgentStep ==
  ASSUME Inv, NEW parent \in 0 .. Len(run), NEW g \in scenario.agents, TriggerAgent(parent, g)
  PROVE  Inv'
<1>0. Standing /\ Typing /\ \A s \in orderly : s \in Sessions /\ Telling(s)
  BY DEF Inv, Standing, Typing
<1>1. PICK x : x = Row("dispatched", g, parent, None, "pending", 0, "goal")
  OBVIOUS
<1>2. PICK n : n = Len(run) + 1
  OBVIOUS
<1>3. run' = Append(run, x) /\ UNCHANGED <<scenario, actors, live, wire, orderly>>
  BY <1>1 DEF TriggerAgent, claude
<1>4. Len(run) \in Nat /\ Len(wire) \in Nat
  BY <1>0 DEF Typing
<1>5. g \in Agents
  BY <1>0, DelegationAssumption DEF Typing
<1>6. x \in Rows /\ x.started = 0 /\ x.actor = 0 /\ x.kind = "dispatched" /\ x.status = "pending" /\ x.session = None
  BY <1>1, <1>4, <1>5 DEF Row, Rows
<1>7. Typing'
  <2>1. run' \in Seq(Rows)
    BY <1>0, <1>3, <1>6 DEF Typing
  <2> QED
    BY <1>0, <1>3, <2>1 DEF Typing
<1>8. Grown(x, n)
  BY <1>0, <1>2, <1>3, AppendedGrows
<1>9. Opened(x)
  BY <1>6 DEF Opened
<1>10. \A j \in 1 .. Len(wire') : j + 0 \in 1 .. Len(wire) /\ wire'[j] = wire[j + 0] /\ j + 0 = j
  BY <1>3, <1>4
<1>11. Standing'
  BY <1>0, <1>3, <1>6, <1>7, <1>8, <1>9, <1>10, StandingGrown
<1>12. ActorsStay /\ \A a \in 1 .. Len(actors') : ~(a > Len(actors))
  BY <1>0, <1>3, UnchangedActorsStay DEF Typing
<1>13. ASSUME NEW s \in orderly'
       PROVE  Telling(s)'
  <2>1. s \in Sessions /\ Telling(s) /\ SessionsStay(s) /\ \A r \in Runs : Where(r)' = s => Attributed(r)'
    BY <1>0, <1>3, <1>6, <1>8, <1>9, <1>11, GrownStays
  <2>2. Where(n)' = None
    BY <1>6, <1>8 DEF Where, Grown
  <2>3. \A r \in Runs' : Where(r)' = s => Attributed(r)'
    BY <1>8, <2>1, <2>2, NoneIsNoSession DEF Grown
  <2>4. ASSUME NEW c \in Cast(s)
        PROVE  Running(c)' <=> Running(c)
    <3>1. c # 0
      BY <1>0 DEF Cast, Typing
    <3> QED
      BY <1>6, <1>8, <3>1 DEF Running, Grown
  <2>5. \A c \in Cast(s) : \A i \in 1 .. Len(wire) + 1 : OpenAt(c, i)' <=> OpenAt(c, i)
    BY <1>0, <1>3, <2>4, OpenStays
  <2>6. PICK fin : fin = Len(wire) + 1
    OBVIOUS
  <2>7. fin = Len(wire') + 1 /\ live'[s] = live[s] /\ 0 \in Nat
    BY <1>3, <2>6
  <2>8. \A c \in Cast(s) : OpenAt(c, fin)' <=> OpenAt(c, fin)
    BY <1>4, <2>5, <2>6
  <2>9. \A c \in Cast(s), j \in 1 .. Len(wire') : OpenAt(c, j)' <=> OpenAt(c, j + 0)
    BY <1>3, <1>4, <1>10, <2>5
  <2> QED
    BY <1>0, <1>10, <1>11, <1>12, <2>1, <2>3, <2>6, <2>7, <2>8, <2>9, TellingStays
<1> QED
  BY <1>11, <1>13 DEF Inv

-------------------------------------------------------------------------------
(* The next post is served.                                                *)

LEMMA Tails ==
  ASSUME Typing, wire # <<>>, wire' = Tail(wire)
  PROVE  /\ Len(wire) \in Nat /\ 1 \in 1 .. Len(wire) /\ Head(wire) = wire[1]
         /\ Len(wire') = Len(wire) - 1 /\ wire' \in Seq(Posts)
         /\ \A j \in 1 .. Len(wire') : j + 1 \in 1 .. Len(wire) /\ wire'[j] = wire[j + 1]
         /\ \A k \in 1 .. Len(wire) : k # 1 => k - 1 \in 1 .. Len(wire') /\ wire'[k - 1] = wire[k]
BY DEF Typing

\* A session keeps to its story when its rows do what the post that is served says.
LEMMA ServedTells ==
  ASSUME Standing, Standing', wire # <<>>, wire' = Tail(wire), actors' = actors, live' = live,
         NEW s \in Sessions, Telling(s), SessionsStay(s), \A r \in Runs' : Where(r)' = s => Attributed(r)',
         \A c \in Cast(s) : Running(c)' <=> /\ Running(c) \/ (Opens(1) /\ wire[1].a = c)
                                            /\ ~(Closes(1) /\ wire[1].a = c)
  PROVE  Telling(s)'
<1>1. /\ Len(wire) \in Nat /\ 1 \in 1 .. Len(wire)
      /\ Len(wire') = Len(wire) - 1
      /\ \A j \in 1 .. Len(wire') : j + 1 \in 1 .. Len(wire) /\ wire'[j] = wire[j + 1]
      /\ \A k \in 1 .. Len(wire) : k # 1 => k - 1 \in 1 .. Len(wire') /\ wire'[k - 1] = wire[k]
  BY Tails DEF Standing
<1>2. ActorsStay /\ \A a \in 1 .. Len(actors') : ~(a > Len(actors))
  BY UnchangedActorsStay DEF Standing, Typing
<1>3. ASSUME NEW c \in Cast(s), NEW j \in 1 .. Len(wire), NEW i, i = j + 1
      PROVE  OpenAt(c, j)' <=> OpenAt(c, i)
  <2>1. \A k \in 1 .. Len(wire') : k + 1 \in 1 .. Len(wire) /\ (k < j <=> k + 1 < i) /\ wire'[k] = wire[k + 1]
    BY <1>1, <1>3
  <2>2. \A k \in 1 .. Len(wire) : k # 1 => k - 1 \in 1 .. Len(wire') /\ (k < i <=> k - 1 < j) /\ wire'[k - 1] = wire[k]
    BY <1>1, <1>3
  <2>3. 1 < i
    BY <1>3
  <2>4. ASSUME OpenAt(c, i)
        PROVE  OpenAt(c, j)'
    <3>1. ~(Closes(1) /\ wire[1].a = c)
      BY <1>1, <2>3, <2>4 DEF OpenAt
    <3>2. Running(c)' \/ \E k \in 1 .. Len(wire') : k < j /\ Opens(k)' /\ wire'[k].a = c
      <4>1. CASE Running(c)
        BY <3>1, <4>1
      <4>2. CASE ~Running(c)
        <5>1. PICK k \in 1 .. Len(wire) : k < i /\ Opens(k) /\ wire[k].a = c
          BY <2>4, <4>2 DEF OpenAt
        <5>2. CASE k = 1
          BY <3>1, <5>1, <5>2
        <5>3. CASE k # 1
          <6>1. PICK l : l = k - 1
            OBVIOUS
          <6>2. l \in 1 .. Len(wire') /\ l < j /\ wire'[l] = wire[k]
            BY <2>2, <5>1, <5>3, <6>1
          <6> QED
            BY <5>1, <6>2 DEF Opens
        <5> QED
          BY <5>2, <5>3
      <4> QED
        BY <4>1, <4>2
    <3>3. ASSUME NEW k \in 1 .. Len(wire'), k < j, Closes(k)'
          PROVE  wire'[k].a # c
      <4>1. k + 1 \in 1 .. Len(wire) /\ k + 1 < i /\ wire'[k] = wire[k + 1]
        BY <2>1, <3>3
      <4> QED
        BY <2>4, <3>3, <4>1 DEF OpenAt, Closes
    <3> QED
      BY <3>2, <3>3 DEF OpenAt
  <2>5. ASSUME OpenAt(c, j)'
        PROVE  OpenAt(c, i)
    <3>1. Running(c)' \/ \E k \in 1 .. Len(wire') : k < j /\ Opens(k)' /\ wire'[k].a = c
      BY <2>5 DEF OpenAt
    <3>2. ~(Closes(1) /\ wire[1].a = c)
      <4>1. CASE Running(c)'
        BY <4>1
      <4>2. CASE ~Running(c)'
        <5>0. SUFFICES ASSUME Closes(1), wire[1].a = c
                       PROVE  FALSE
          OBVIOUS
        <5>1. PICK k \in 1 .. Len(wire') : k < j /\ Opens(k)' /\ wire'[k].a = c
          BY <3>1, <4>2
        <5>2. k + 1 \in 1 .. Len(wire) /\ wire[k + 1].a = c /\ Opens(k + 1)
          BY <2>1, <5>1 DEF Opens
        <5>3. PostStands(1) /\ PostStands(k + 1)
          BY <1>1, <5>2 DEF Standing
        <5>4. wire[1].s = s /\ wire[k + 1].s = s /\ actors[c].cast
          BY <5>0, <5>2, <5>3, CastTypes DEF PostStands, Standing
        <5>5. OpenAt(c, 1)
          BY <1>1, <5>0, <5>4 DEF Telling, Story
        <5>6. PICK r \in Runs : run[r].actor = c
          BY <1>1, <5>5 DEF OpenAt, Running
        <5>7. Where(r) = s /\ c # 0 /\ c \in Nat
          BY <5>6, RowOfCast, CastTypes DEF Standing, Typing
        <5>8. run[r].actor < wire[k + 1].a
          BY <5>2, <5>4, <5>6, <5>7 DEF Standing, PostsOrdered
        <5> QED
          BY <5>2, <5>6, <5>7, <5>8
      <4> QED
        BY <4>1, <4>2
    <3>3. Running(c) \/ \E k \in 1 .. Len(wire) : k < i /\ Opens(k) /\ wire[k].a = c
      <4>1. CASE Running(c)'
        BY <1>1, <2>3, <4>1
      <4>2. CASE ~Running(c)'
        <5>1. PICK k \in 1 .. Len(wire') : k < j /\ Opens(k)' /\ wire'[k].a = c
          BY <3>1, <4>2
        <5>2. k + 1 \in 1 .. Len(wire) /\ k + 1 < i /\ wire[k + 1].a = c /\ Opens(k + 1)
          BY <2>1, <5>1 DEF Opens
        <5> QED
          BY <5>2
      <4> QED
        BY <4>1, <4>2
    <3>4. ASSUME NEW k \in 1 .. Len(wire), k < i, Closes(k)
          PROVE  wire[k].a # c
      <4>1. CASE k = 1
        BY <3>2, <3>4, <4>1
      <4>2. CASE k # 1
        <5>1. PICK l : l = k - 1
          OBVIOUS
        <5>2. l \in 1 .. Len(wire') /\ l < j /\ wire'[l] = wire[k]
          BY <2>2, <3>4, <4>2, <5>1
        <5> QED
          BY <2>5, <3>4, <5>2 DEF OpenAt, Closes
      <4> QED
        BY <4>1, <4>2
    <3> QED
      BY <3>3, <3>4 DEF OpenAt
  <2> QED
    BY <2>4, <2>5
<1>4. PICK fin, end : fin = Len(wire) + 1 /\ end = Len(wire') + 1
  OBVIOUS
<1>5. \A c \in Cast(s) : OpenAt(c, end)' <=> OpenAt(c, fin)
  <2>1. end \in 1 .. Len(wire) /\ fin = end + 1
    BY <1>1, <1>4
  <2> QED
    BY <1>3, <2>1
<1>6. \A c \in Cast(s), j \in 1 .. Len(wire') : OpenAt(c, j)' <=> OpenAt(c, j + 1)
  <2> SUFFICES ASSUME NEW c \in Cast(s), NEW j \in 1 .. Len(wire')
               PROVE  OpenAt(c, j)' <=> OpenAt(c, j + 1)
    OBVIOUS
  <2>1. PICK i : i = j + 1
    OBVIOUS
  <2>2. j \in 1 .. Len(wire)
    BY <1>1
  <2> QED
    BY <1>3, <2>1, <2>2
<1> QED
  BY <1>1, <1>2, <1>4, <1>5, <1>6, TellingStays

LEMMA MostRecentIsRunning ==
  ASSUME Typing, Timed, NEW h
  PROVE  LET m == MostRecent(h) IN
         m = 0 \/ (m \in Runs /\ run[m].session = h /\ run[m].status = "running")
<1> DEFINE rows == {r \in Runs : run[r].session = h /\ run[r].status = "running"}
<1>1. MostRecent(h) = IF rows = {} THEN 0 ELSE CHOOSE r \in rows : \A q \in rows : run[q].started <= run[r].started
  BY DEF MostRecent
<1>2. PICK n \in Nat : \A r \in Runs : run[r].started <= n
  BY DEF Timed
<1> DEFINE T == {run[r].started : r \in rows}
<1>3. ASSUME rows # {}
      PROVE  \E r \in rows : \A q \in rows : run[q].started <= run[r].started
  <2>1. \A r \in rows : run[r].started \in Nat
    <3>1. \A r \in rows : run[r] \in Rows
      BY DEF Typing, Runs
    <3> QED
      BY <3>1 DEF Rows
  <2>2. T \subseteq Nat /\ T # {} /\ \A y \in T : y <= n
    BY <1>2, <1>3, <2>1
  <2>3. Max(T) \in T /\ \A y \in T : y <= Max(T)
    BY <1>2, <2>2, MaxIsGreatest
  <2>4. PICK r \in rows : run[r].started = Max(T)
    BY <2>3
  <2>5. \A q \in rows : run[q].started <= run[r].started
    BY <2>3, <2>4
  <2> QED
    BY <2>5
<1>4. MostRecent(h) = 0 \/ MostRecent(h) \in rows
  <2> HIDE DEF rows
  <2> QED
    BY <1>1, <1>3
<1> QED
  BY <1>4

LEMMA OpenNow ==
  ASSUME Typing, NEW c
  PROVE  OpenAt(c, 1) <=> Running(c)
<1>1. \A k \in 1 .. Len(wire) : ~(k < 1)
  BY DEF Typing
<1> QED
  BY <1>1 DEF OpenAt

\* The row that the server takes for the most recent one is that of the actor on top.
LEMMA TopIsMostRecent ==
  ASSUME Standing, NEW s \in Sessions, NEW o, TopAt(s, o, 1)
  PROVE  IF o = 0 THEN MostRecent(s) = 0
         ELSE MostRecent(s) \in Runs /\ run[MostRecent(s)].actor = o /\ run[MostRecent(s)].session = s
<1> DEFINE rows == {r \in Runs : run[r].session = s /\ run[r].status = "running"}
<1>1. MostRecent(s) = IF rows = {} THEN 0 ELSE CHOOSE r \in rows : \A q \in rows : run[q].started <= run[r].started
  BY DEF MostRecent
<1>2. \A r \in Runs : run[r] \in Rows /\ run[r].started \in Nat /\ run[r].actor \in Nat
  <2>1. \A r \in Runs : run[r] \in Rows
    BY DEF Standing, Typing, Runs
  <2> QED
    BY <2>1 DEF Rows
<1>3. ASSUME NEW r \in rows
      PROVE  run[r].actor \in Cast(s) /\ Where(r) = s /\ run[r].actor # 0 /\ run[r].actor <= o
  <2>1. RowStands(r) /\ run[r].session = s /\ run[r].status = "running"
    BY <1>3 DEF Standing
  <2>2. run[r].actor # 0 /\ run[r].actor <= Len(actors) /\ actors[run[r].actor].cast
    BY <2>1 DEF RowStands
  <2>3. Where(r) = s
    BY <2>1, <2>2, NoneIsNoSession DEF RowStands
  <2>4. run[r].actor \in Cast(s)
    BY <1>2, <1>3, <2>2, <2>3 DEF Cast, Where, Standing, Typing
  <2>5. PICK c : c = run[r].actor
    OBVIOUS
  <2>6. OpenAt(c, 1)
    BY <1>3, <2>1, <2>5, OpenNow DEF Running, Standing
  <2>7. c <= o
    BY <2>4, <2>5, <2>6 DEF TopAt
  <2> QED
    BY <2>2, <2>3, <2>4, <2>5, <2>7
<1>4. CASE o = 0
  <2>1. rows = {}
    <3> SUFFICES ASSUME NEW r \in rows PROVE FALSE
      OBVIOUS
    <3>1. run[r].actor \in Nat /\ run[r].actor # 0 /\ run[r].actor <= 0
      BY <1>2, <1>3, <1>4
    <3> QED
      BY <3>1
  <2> QED
    BY <1>1, <1>4, <2>1
<1>5. CASE o # 0
  <2>1. OpenAt(o, 1) /\ o \in Cast(s)
    BY <1>5 DEF TopAt
  <2>2. PICK t \in Runs : run[t].actor = o /\ run[t].status = "running"
    BY <2>1, OpenNow DEF Running, Standing
  <2>3. t \in rows
    BY <1>5, <2>2 DEF TopAt
  <2>4. ASSUME NEW q \in rows, q # t
        PROVE  run[q].started < run[t].started
    <3>1. Where(q) = s /\ Where(t) = s /\ run[q].actor # 0 /\ run[t].actor # 0 /\ run[q].actor <= o
      BY <1>3, <2>3, <2>4
    <3>2. run[q].actor # o
      BY <2>2, <2>4, <3>1 DEF Standing, RowsOrdered
    <3>3. run[q].actor < run[t].actor
      BY <1>2, <2>2, <3>1, <3>2
    <3> QED
      BY <3>1, <3>3 DEF Standing, RowsOrdered
  <2>5. \A q \in rows : run[q].started <= run[t].started
    BY <1>2, <2>4
  <2>6. ASSUME NEW r \in rows, \A q \in rows : run[q].started <= run[r].started
        PROVE  r = t
    BY <1>2, <2>3, <2>4, <2>6
  <2>7. MostRecent(s) = t
    <3> HIDE DEF rows
    <3> QED
      BY <1>1, <2>3, <2>5, <2>6
  <2> QED
    BY <1>5, <2>2, <2>3, <2>7
<1> QED
  BY <1>4, <1>5

LEMMA ClosedStep ==
  ASSUME Inv, wire # <<>>, wire' = Tail(wire), UNCHANGED <<scenario, actors, live, orderly>>, Closes(1),
         NEW done \in SUBSET {r \in Runs : run[r].status = "running"},
         run' = [r \in Runs |-> IF r \in done THEN [run[r] EXCEPT !.status = "completed"] ELSE run[r]],
         \A s \in orderly : \A r \in Runs :
             Where(r) = s /\ run[r].status = "running" => (r \in done <=> run[r].actor = wire[1].a)
  PROVE  Inv'
<1>0. Standing /\ Typing /\ \A s \in orderly : s \in Sessions /\ Telling(s)
  BY DEF Inv, Standing, Typing
<1>1. run \in Seq(Rows) /\ Len(run) \in Nat /\ \A q \in Runs : run[q] \in Rows
  BY <1>0 DEF Typing, Runs
<1>2. \A q \in Runs : run'[q] = IF q \in done THEN [run[q] EXCEPT !.status = "completed"] ELSE run[q]
  OBVIOUS
<1>3. /\ wire' \in Seq(Posts)
      /\ \A j \in 1 .. Len(wire') : j + 1 \in 1 .. Len(wire) /\ wire'[j] = wire[j + 1]
  BY <1>0, Tails
<1>4. Typing'
  <2>1. ASSUME NEW q \in Runs
        PROVE  run'[q] \in Rows
    <3>1. [run[q] EXCEPT !.status = "completed"] \in Rows
      BY <1>1, RowWithStatus
    <3> QED
      BY <1>1, <1>2, <3>1
  <2>2. run' \in Seq(Rows)
    <3>1. run' \in [1 .. Len(run) -> Rows]
      BY <2>1 DEF Runs
    <3> QED
      BY <1>1, <3>1
  <2> QED
    BY <1>0, <1>3, <2>2 DEF Typing
<1>5. \A q \in Runs :
          /\ RowStays(q) /\ run'[q].parent = run[q].parent /\ run'[q].session = run[q].session
          /\ run'[q].skills = run[q].skills /\ run'[q].old = run[q].old
          /\ run'[q].status = IF q \in done THEN "completed" ELSE run[q].status
  BY <1>1, <1>2 DEF RowStays, Rows
<1>6. RowsStay /\ Runs' = Runs
  BY <1>1, <1>5 DEF RowsStay, Runs
<1>7. \A q \in Runs : /\ run[q].actor = 0 => run'[q].status # "running"
                      /\ run'[q].status = "pending" => run[q].status = "pending"
  BY <1>0, <1>5 DEF Standing, RowStands
<1>8. Standing'
  BY <1>0, <1>3, <1>4, <1>5, <1>6, <1>7, StandingKept
<1>9. ASSUME NEW s \in orderly'
      PROVE  Telling(s)'
  <2>1. s \in orderly /\ s \in Sessions /\ Telling(s)
    BY <1>0, <1>9
  <2>2. SessionsStay(s) /\ \A r \in Runs' : Where(r)' = s => Attributed(r)'
    BY <1>0, <1>5, <1>6, <1>8, <2>1, RowsTell
  <2>3. ASSUME NEW c \in Cast(s)
        PROVE  Running(c)' <=> /\ Running(c) \/ (Opens(1) /\ wire[1].a = c)
                               /\ ~(Closes(1) /\ wire[1].a = c)
    <3>1. \A r \in Runs : run[r].actor = c => Where(r) = s
      BY <1>0, <2>1, RowOfCast
    <3>2. ~Opens(1)
      BY DEF Opens, Closes
    <3>3. \A r \in Runs : run[r].actor = c =>
              (run'[r].status = "running" <=> run[r].status = "running" /\ wire[1].a # c)
      BY <1>5, <2>1, <3>1
    <3> QED
      BY <1>5, <1>6, <3>2, <3>3 DEF Running, RowStays
  <2> QED
    BY <1>0, <1>8, <2>1, <2>2, <2>3, ServedTells
<1> QED
  BY <1>8, <1>9 DEF Inv

LEMMA CloseCommandsStep ==
  ASSUME Inv, CloseCommands
  PROVE  Inv'
<1>0. Standing /\ Typing /\ \A s \in orderly : s \in Sessions /\ Telling(s)
  BY DEF Inv, Standing, Typing
<1> DEFINE done == {r \in Runs : /\ run[r].kind = "command" /\ run[r].session = Head(wire).s
                                 /\ run[r].status = "running" /\ ~run[r].old}
<1>1. wire # <<>> /\ wire' = Tail(wire) /\ UNCHANGED <<scenario, actors, live, orderly>>
  BY DEF CloseCommands, Served, Serving, claude
<1>2. 1 \in 1 .. Len(wire) /\ Head(wire) = wire[1]
  BY <1>0, <1>1, Tails
<1>3. wire[1].op = "stop" /\ Closes(1) /\ PostStands(1)
  BY <1>0, <1>2 DEF CloseCommands, Serving, Closes, Standing
<1>4. run' = [r \in Runs |-> IF r \in done THEN [run[r] EXCEPT !.status = "completed"] ELSE run[r]]
  BY DEF CloseCommands
<1>5. ASSUME NEW s \in orderly, NEW r \in Runs, Where(r) = s, run[r].status = "running"
      PROVE  r \in done <=> run[r].actor = wire[1].a
  <2>0. PICK c : c = run[r].actor
    OBVIOUS
  <2>1. s \in Sessions /\ Telling(s) /\ RowStands(r) /\ run[r] \in Rows /\ c # 0 /\ s # None
    BY <1>0, <1>5, <2>0, LocatedRow, NoneIsNoSession DEF Standing, Typing, Runs
  <2>2. c \in Cast(s) /\ actors[c].session = s
    BY <1>5, <2>0, <2>1 DEF Cast, Where, RowStands, Standing, Typing, Rows, Inv
  <2>3. ASSUME r \in done
        PROVE  c = wire[1].a
    <3>1. wire[1].s = s /\ actors[c].by = 0
      BY <1>2, <1>5, <2>0, <2>1, <2>3 DEF RowStands
    <3>2. OpenAt(c, 1)
      BY <1>0, <1>5, <2>0, OpenNow DEF Running
    <3>3. Story(s, 1)
      BY <1>2, <2>1, <3>1 DEF Telling
    <3> QED
      BY <1>3, <2>2, <3>1, <3>2, <3>3 DEF Story
  <2>4. ASSUME c = wire[1].a
        PROVE  r \in done
    <3>1. wire[1].s = s /\ s \in UserSessions /\ actors[c].by = 0
      BY <1>3, <2>2, <2>4 DEF PostStands
    <3>2. run[r].kind = "command" /\ run[r].session = s
      BY <1>5, <2>0, <2>1, <3>1, DelegationAssumption DEF RowStands, Rows
    <3>3. ~run[r].old
      BY <1>5, <2>0, <2>1, <3>2 DEF Telling, Attributed
    <3> QED
      BY <1>2, <1>5, <3>1, <3>2, <3>3
  <2> QED
    BY <2>0, <2>3, <2>4
<1>6. done \in SUBSET {r \in Runs : run[r].status = "running"}
  OBVIOUS
<1> HIDE DEF done
<1> QED
  BY <1>1, <1>3, <1>4, <1>5, <1>6, ClosedStep

LEMMA CloseSubagentStep ==
  ASSUME Inv, CloseSubagent
  PROVE  Inv'
<1>0. Standing /\ Typing
  BY DEF Inv, Standing
<1> DEFINE done == {r \in Runs : run[r].kind = "subagent" /\ run[r].actor = Head(wire).a /\ run[r].status = "running"}
<1>1. wire # <<>> /\ wire' = Tail(wire) /\ UNCHANGED <<scenario, actors, live, orderly>>
  BY DEF CloseSubagent, Served, Serving, claude
<1>2. 1 \in 1 .. Len(wire) /\ Head(wire) = wire[1]
  BY <1>0, <1>1, Tails
<1>3. wire[1].op = "done" /\ Closes(1) /\ PostStands(1)
  BY <1>0, <1>2 DEF CloseSubagent, Serving, Closes, Standing
<1>4. run' = [r \in Runs |-> IF r \in done THEN [run[r] EXCEPT !.status = "completed"] ELSE run[r]]
  BY DEF CloseSubagent
<1>5. ASSUME NEW s \in orderly, NEW r \in Runs, Where(r) = s, run[r].status = "running"
      PROVE  r \in done <=> run[r].actor = wire[1].a
  <2>1. RowStands(r)
    BY <1>0 DEF Standing
  <2>2. run[r].actor = wire[1].a => run[r].kind = "subagent"
    BY <1>3, <1>5, <2>1 DEF PostStands, RowStands
  <2> QED
    BY <1>2, <1>5, <2>2
<1>6. done \in SUBSET {r \in Runs : run[r].status = "running"}
  OBVIOUS
<1> HIDE DEF done
<1> QED
  BY <1>1, <1>3, <1>4, <1>5, <1>6, ClosedStep

LEMMA RecordSkillStep ==
  ASSUME Inv, RecordSkill
  PROVE  Inv'
<1>0. Standing /\ Typing /\ ActorsNest /\ \A s \in orderly : s \in Sessions /\ Telling(s)
  BY DEF Inv, Standing, Typing
<1>1. wire # <<>> /\ wire' = Tail(wire) /\ UNCHANGED <<scenario, actors, live, orderly>>
  BY DEF RecordSkill, Served, Serving, claude
<1>2. /\ 1 \in 1 .. Len(wire) /\ Head(wire) = wire[1] /\ wire' \in Seq(Posts)
      /\ \A j \in 1 .. Len(wire') : j + 1 \in 1 .. Len(wire) /\ wire'[j] = wire[j + 1]
  BY <1>0, <1>1, Tails
<1>3. wire[1].op = "skill" /\ PostStands(1)
  BY <1>0, <1>2 DEF RecordSkill, Serving, Standing
<1>4. PICK h, m, o : h = wire[1].s /\ m = MostRecent(h) /\ o = Owner(wire[1].a)
  OBVIOUS
<1>5. run' = IF m = 0 THEN run ELSE [run EXCEPT ![m] = [run[m] EXCEPT !.skills = run[m].skills \cup {o}]]
  BY <1>2, <1>4 DEF RecordSkill
<1>6. run \in Seq(Rows) /\ Len(run) \in Nat /\ \A q \in Runs : run[q] \in Rows
  BY <1>0 DEF Typing, Runs
<1>7. m # 0 => m \in Runs /\ run[m].session = h /\ run[m].status = "running"
  BY <1>0, <1>4, MostRecentIsRunning DEF Standing
<1>8. o \in Nat
  <2>1. wire[1].a \in 0 .. Len(actors)
    BY <1>0, <1>3 DEF PostStands, Typing
  <2> QED
    BY <1>0, <1>4, <2>1, OwnerIsActor DEF Typing
<1>9. Typing'
  <2>1. CASE m = 0
    BY <1>0, <1>1, <1>2, <1>5, <2>1 DEF Typing
  <2>2. CASE m # 0
    <3>1. [run[m] EXCEPT !.skills = run[m].skills \cup {o}] \in Rows
      <4>1. run[m] \in Rows /\ run[m].skills \cup {o} \in SUBSET Nat
        BY <1>6, <1>7, <1>8, <2>2 DEF Rows
      <4> QED
        BY <4>1 DEF Rows
    <3>2. run' \in Seq(Rows)
      BY <1>5, <1>6, <1>7, <2>2, <3>1 DEF Runs
    <3> QED
      BY <1>0, <1>1, <1>2, <3>2 DEF Typing
  <2> QED
    BY <2>1, <2>2
<1>10. \A q \in Runs :
          /\ RowStays(q) /\ run'[q].parent = run[q].parent /\ run'[q].session = run[q].session
          /\ run'[q].status = run[q].status /\ run'[q].old = run[q].old
          /\ run'[q].skills = IF q = m THEN run[q].skills \cup {o} ELSE run[q].skills
  <2>1. ASSUME NEW q \in Runs
        PROVE  run'[q] = IF q = m THEN [run[q] EXCEPT !.skills = run[q].skills \cup {o}] ELSE run[q]
    <3>1. q # 0
      BY <1>6 DEF Runs
    <3>2. CASE m = 0
      BY <1>5, <3>1, <3>2
    <3>3. CASE m # 0
      <4>1. PICK v : v = [run[m] EXCEPT !.skills = run[m].skills \cup {o}]
        OBVIOUS
      <4>2. run' = [run EXCEPT ![m] = v]
        BY <1>5, <3>3, <4>1
      <4>3. run'[q] = IF q = m THEN v ELSE run[q]
        BY <1>6, <4>2 DEF Runs
      <4> QED
        BY <4>1, <4>3
    <3> QED
      BY <3>2, <3>3
  <2> QED
    BY <1>6, <2>1 DEF RowStays, Rows
<1>11. RowsStay /\ Runs' = Runs
  <2>1. Len(run') = Len(run)
    <3>1. CASE m = 0
      BY <1>5, <3>1
    <3>2. CASE m # 0
      BY <1>5, <1>6, <3>2
    <3> QED
      BY <3>1, <3>2
  <2> QED
    BY <1>10, <2>1 DEF RowsStay, Runs
<1>12. \A q \in Runs : run[q].actor = 0 => run'[q].status # "running"
  BY <1>0, <1>10 DEF Standing, RowStands
<1>13. Standing'
  BY <1>0, <1>1, <1>2, <1>9, <1>10, <1>11, <1>12, StandingKept
<1>14. ASSUME NEW s \in orderly'
       PROVE  Telling(s)'
  <2>1. s \in Sessions /\ Telling(s) /\ s # None
    BY <1>0, <1>1, <1>14, NoneIsNoSession
  <2>2. ASSUME NEW q \in Runs, Where(q) = s
        PROVE  run'[q].skills \subseteq run[q].skills \cup {run[q].actor}
    <3> SUFFICES ASSUME q = m PROVE o = run[q].actor
      BY <1>10
    <3>1. m # 0
      BY <1>6 DEF Runs
    <3>2. h = s
      <4>1. h \in Sessions
        <5>1. 1 \in 1 .. Len(wire) /\ wire[1] \in Posts
          BY <1>0, <1>2 DEF Typing
        <5> QED
          BY <1>4, <5>1 DEF Posts
      <4>2. RowStands(m) /\ Where(m) = s
        BY <1>0, <1>7, <2>2, <3>1 DEF Standing
      <4>3. run[m].actor # 0 /\ h # None
        BY <1>7, <2>1, <3>1, <4>1, <4>2, LocatedRow, NoneIsNoSession
      <4> QED
        BY <1>7, <3>1, <4>2, <4>3 DEF RowStands
    <3>3. TopAt(s, o, 1)
      BY <1>2, <1>3, <1>4, <2>1, <3>2 DEF Telling, Story
    <3> QED
      BY <1>0, <1>4, <2>1, <3>1, <3>2, <3>3, TopIsMostRecent
  <2>3. SessionsStay(s) /\ \A r \in Runs' : Where(r)' = s => Attributed(r)'
    BY <1>0, <1>1, <1>10, <1>11, <1>13, <2>1, <2>2, RowsTell
  <2>4. ASSUME NEW c \in Cast(s)
        PROVE  Running(c)' <=> /\ Running(c) \/ (Opens(1) /\ wire[1].a = c)
                               /\ ~(Closes(1) /\ wire[1].a = c)
    <3>1. ~Opens(1) /\ ~Closes(1)
      BY <1>3 DEF Opens, Closes
    <3> QED
      BY <1>10, <1>11, <3>1 DEF Running, RowStays
  <2> QED
    BY <1>0, <1>1, <1>13, <2>1, <2>3, <2>4, ServedTells
<1> QED
  BY <1>13, <1>14 DEF Inv

LEMMA OpenedStep ==
  ASSUME Inv, wire # <<>>, wire' = Tail(wire), UNCHANGED <<scenario, actors, live, orderly>>, Opens(1),
         NEW x \in Rows, run' = Append(run, x),
         NEW a, NEW s, NEW b, NEW o, a = wire[1].a, s = wire[1].s, b = actors[a].by, o = Owner(b),
         x.actor = a, x.session = s, x.status = "running", x.started = Now, x.skills = {}, ~x.old,
         x.kind = IF wire[1].op = "start" THEN "subagent" ELSE "command",
         s \in orderly /\ x.kind = "subagent" =>
             IF o = 0 THEN x.parent = 0 ELSE x.parent \in Runs /\ run[x.parent].actor = o
  PROVE  Inv'
<1>0. Standing /\ Typing /\ \A z \in orderly : z \in Sessions /\ Telling(z)
  BY DEF Inv, Standing, Typing
<1>1. /\ 1 \in 1 .. Len(wire) /\ wire' \in Seq(Posts)
      /\ \A j \in 1 .. Len(wire') : j + 1 \in 1 .. Len(wire) /\ wire'[j] = wire[j + 1]
  BY <1>0, Tails
<1>2. PostStands(1) /\ a \in 1 .. Len(actors) /\ actors[a].session = s /\ actors[a].cast /\ Len(actors) \in Nat
  BY <1>0, <1>1 DEF Standing, PostStands, Typing
<1>3. Typing'
  <2>1. run' \in Seq(Rows)
    BY <1>0 DEF Typing
  <2> QED
    BY <1>0, <1>1, <2>1 DEF Typing
<1>4. PICK n : n = Len(run) + 1
  OBVIOUS
<1>5. Grown(x, n)
  BY <1>0, <1>4, AppendedGrows
<1>6. Opened(x)
  <2>1. ASSUME NEW r \in Runs, run[r].actor # 0, Where(r) = s
        PROVE  run[r].actor < a
    BY <1>0, <1>1, <2>1 DEF Standing, PostsOrdered
  <2>2. ASSUME NEW j \in 1 .. Len(wire'), Opens(j)', wire'[j].s = s
        PROVE  a < wire'[j].a
    <3>1. j + 1 \in 1 .. Len(wire) /\ wire'[j] = wire[j + 1] /\ 1 < j + 1
      BY <1>1
    <3>2. Opens(j + 1)
      BY <2>2, <3>1 DEF Opens
    <3> QED
      BY <1>0, <1>1, <2>2, <3>1, <3>2 DEF Standing, PostsOrdered
  <2>3. x.kind \in {"command", "subagent"} /\ (x.kind = "subagent" <=> actors[a].by # 0)
    BY <1>2 DEF PostStands, Opens
  <2>4. x.kind = "command" => s \in UserSessions
    BY <1>2 DEF PostStands, Opens
  <2> QED
    BY <1>2, <2>1, <2>2, <2>3, <2>4 DEF Opened
<1>7. Standing'
  BY <1>0, <1>1, <1>3, <1>5, <1>6, StandingGrown
<1>8. ASSUME NEW z \in orderly'
      PROVE  Telling(z)'
  <2>1. z \in orderly /\ z \in Sessions /\ Telling(z)
    BY <1>0, <1>8
  <2>2. SessionsStay(z) /\ \A r \in Runs : Where(r)' = z => Attributed(r)'
    BY <1>0, <1>5, <1>6, <1>7, <2>1, GrownStays
  <2>3. Where(n)' = s
    BY <1>2, <1>5 DEF Where, Grown
  <2>4. ASSUME s = z
        PROVE  Attributed(n)'
    <3>1. run'[n] = x
      BY <1>5 DEF Grown
    <3>2. Owner(b)' = o
      BY DEF Owner
    <3>3. x.kind = "subagent" => IF o = 0 THEN x.parent = 0 ELSE x.parent \in Runs' /\ run'[x.parent].actor = o
      BY <1>5, <2>1, <2>4 DEF Grown
    <3>4. run'[n].actor = a /\ actors'[a].by = b
      BY <3>1
    <3>5. run'[n].kind = "subagent" => IF o = 0 THEN run'[n].parent = 0
                                       ELSE run'[n].parent \in Runs' /\ run'[run'[n].parent].actor = o
      BY <3>1, <3>3
    <3>6. ~run'[n].old /\ run'[n].skills \subseteq {a}
      BY <3>1
    <3> QED
      BY <3>2, <3>4, <3>5, <3>6 DEF Attributed
  <2>5. \A r \in Runs' : Where(r)' = z => Attributed(r)'
    BY <1>5, <2>2, <2>3, <2>4 DEF Grown
  <2>6. ASSUME NEW c \in Cast(z)
        PROVE  Running(c)' <=> /\ Running(c) \/ (Opens(1) /\ wire[1].a = c)
                               /\ ~(Closes(1) /\ wire[1].a = c)
    <3>1. ~Closes(1)
      BY DEF Opens, Closes
    <3> QED
      BY <1>5, <3>1 DEF Running, Grown
  <2> QED
    BY <1>0, <1>7, <2>1, <2>2, <2>5, <2>6, ServedTells
<1> QED
  BY <1>7, <1>8 DEF Inv

LEMMA OpenCommandStep ==
  ASSUME Inv, OpenCommand
  PROVE  Inv'
<1>0. Standing /\ Typing
  BY DEF Inv, Standing
<1>1. wire # <<>> /\ wire' = Tail(wire) /\ UNCHANGED <<scenario, actors, live, orderly>>
  BY DEF OpenCommand, Served, Serving, claude
<1>2. 1 \in 1 .. Len(wire) /\ Head(wire) = wire[1] /\ wire[1] \in Posts
  BY <1>0, <1>1, Tails DEF Typing
<1>3. wire[1].op = "command" /\ Opens(1)
  BY <1>2 DEF OpenCommand, Serving, Opens
<1>4. PICK a, s : a = wire[1].a /\ s = wire[1].s
  OBVIOUS
<1>5. PICK b : b = actors[a].by
  OBVIOUS
<1>6. PICK o : o = Owner(b)
  OBVIOUS
<1>7. PICK g \in scenario.agents : run' = Append(run, Row("command", g, 0, s, "running", a, SystemOps))
  BY <1>2, <1>4 DEF OpenCommand
<1>8. PICK x : x = Row("command", g, 0, s, "running", a, SystemOps)
  OBVIOUS
<1>9. Now \in Nat
  BY <1>0, NowIsLater DEF Standing
<1>10. x \in Rows
  <2>1. g \in Agents /\ s \in Sessions /\ a \in Nat
    BY <1>0, <1>2, <1>4, DelegationAssumption DEF Typing, Posts
  <2> QED
    BY <1>8, <1>9, <2>1 DEF Row, Rows
<1>11. /\ x.actor = a /\ x.session = s /\ x.status = "running" /\ x.started = Now /\ x.skills = {} /\ ~x.old
       /\ x.kind = "command"
  BY <1>8 DEF Row
<1> QED
  BY <1>1, <1>3, <1>4, <1>5, <1>6, <1>7, <1>8, <1>10, <1>11, OpenedStep

LEMMA OpenSubagentStep ==
  ASSUME Inv, OpenSubagent
  PROVE  Inv'
<1>0. Standing /\ Typing /\ \A z \in orderly : z \in Sessions /\ Telling(z)
  BY DEF Inv, Standing, Typing
<1>1. wire # <<>> /\ wire' = Tail(wire) /\ UNCHANGED <<scenario, actors, live, orderly>>
  BY DEF OpenSubagent, Served, Serving, claude
<1>2. 1 \in 1 .. Len(wire) /\ Head(wire) = wire[1] /\ wire[1] \in Posts
  BY <1>0, <1>1, Tails DEF Typing
<1>3. wire[1].op = "start" /\ Opens(1)
  BY <1>2 DEF OpenSubagent, Serving, Opens
<1>4. PICK a, s : a = wire[1].a /\ s = wire[1].s
  OBVIOUS
<1>5. PICK b : b = actors[a].by
  OBVIOUS
<1>6. PICK o, p : o = Owner(b) /\ p = MostRecent(s)
  OBVIOUS
<1>7. PICK g \in scenario.agents : run' = Append(run, Row("subagent", g, p, s, "running", a, GoalOf(p)))
  BY <1>2, <1>4, <1>6 DEF OpenSubagent
<1>8. PICK x : x = Row("subagent", g, p, s, "running", a, GoalOf(p))
  OBVIOUS
<1>9. Now \in Nat
  BY <1>0, NowIsLater DEF Standing
<1>10. p = 0 \/ p \in Runs
  BY <1>0, <1>6, MostRecentIsRunning DEF Standing
<1>11. x \in Rows
  <2>1. g \in Agents /\ s \in Sessions /\ a \in Nat
    BY <1>0, <1>2, <1>4, DelegationAssumption DEF Typing, Posts
  <2>2. p \in Nat
    BY <1>0, <1>10 DEF Runs, Typing
  <2>3. GoalOf(p) \in {"goal", SystemOps}
    <3>1. p \in Runs => run[p] \in Rows
      BY <1>0 DEF Typing, Runs
    <3> QED
      BY <1>10, <3>1 DEF GoalOf, Rows
  <2> QED
    BY <1>8, <1>9, <2>1, <2>2, <2>3 DEF Row, Rows
<1>12. /\ x.actor = a /\ x.session = s /\ x.status = "running" /\ x.started = Now /\ x.skills = {} /\ ~x.old
       /\ x.kind = "subagent" /\ x.parent = p
  BY <1>8 DEF Row
<1>13. ASSUME s \in orderly
       PROVE  IF o = 0 THEN p = 0 ELSE p \in Runs /\ run[p].actor = o
  <2>1. s \in Sessions /\ Telling(s)
    BY <1>0, <1>13
  <2>2. TopAt(s, o, 1)
    BY <1>2, <1>3, <1>4, <1>5, <1>6, <2>1 DEF Telling, Story
  <2> QED
    BY <1>0, <1>6, <2>1, <2>2, TopIsMostRecent
<1> QED
  BY <1>1, <1>3, <1>4, <1>5, <1>6, <1>7, <1>8, <1>11, <1>12, <1>13, OpenedStep

-------------------------------------------------------------------------------
(* Steps inside the sessions, and the posts they send.                     *)

\* The wire as it was, or with m at its end.
Sent(m) == wire' = wire \/ wire' = Append(wire, m)

LEMMA SentWire ==
  ASSUME Typing, NEW m \in Posts, Sent(m), NEW fin, fin = Len(wire) + 1
  PROVE  /\ Len(wire) \in Nat /\ fin \in Nat /\ wire' \in Seq(Posts) /\ Len(wire') \in Nat
         /\ \A k \in 1 .. Len(wire) : k \in 1 .. Len(wire') /\ wire'[k] = wire[k]
         /\ \/ wire' = wire
            \/ Len(wire') = fin /\ wire'[fin] = m
         /\ \A k \in 1 .. Len(wire') : k \in 1 .. Len(wire) \/ (k = fin /\ wire'[fin] = m)
<1>1. Len(wire) \in Nat /\ wire \in Seq(Posts) /\ fin \in Nat /\ fin \notin 1 .. Len(wire)
  BY DEF Typing
<1>2. CASE wire' = wire
  BY <1>1, <1>2
<1>3. CASE wire' = Append(wire, m)
  <2>1. wire' \in Seq(Posts) /\ Len(wire') = fin
    BY <1>1, <1>3
  <2>2. wire'[fin] = m /\ \A k \in 1 .. Len(wire) : wire'[k] = wire[k]
    BY <1>1, <1>3
  <2> QED
    BY <1>1, <2>1, <2>2
<1> QED
  BY <1>2, <1>3 DEF Sent

LEMMA ClaudeStanding ==
  ASSUME Standing, Typing', ActorsNest', run' = run, ActorsStay, NEW m \in Posts, Sent(m),
         NEW fin, fin = Len(wire) + 1,
         wire' # wire => PostStands(fin)',
         m.op \in {"command", "start"} => m.a > Len(actors)
  PROVE  Standing'
<1>1. RowsStay /\ \A r \in Runs : RowStays(r)
  BY DEF RowsStay, RowStays
<1>2. Runs' = Runs /\ RowsOrdered' /\ Timed'
  BY <1>1, RowsKept
<1>3. \A r \in Runs' : RowStands(r)'
  <2> SUFFICES ASSUME NEW r \in Runs PROVE RowStands(r)'
    BY <1>2
  <2>1. run[r].actor = 0 => run[r].status # "running"
    BY DEF Standing, RowStands
  <2> QED
    BY <1>1, <2>1, RowKept
<1>4. /\ Len(wire) \in Nat /\ fin \in Nat
      /\ \A k \in 1 .. Len(wire) : k \in 1 .. Len(wire') /\ wire'[k] = wire[k]
      /\ \A k \in 1 .. Len(wire') : k \in 1 .. Len(wire) \/ (k = fin /\ wire'[fin] = m)
  BY SentWire DEF Standing
<1>5. ASSUME NEW k \in 1 .. Len(wire')
      PROVE  PostStands(k)'
  <2>1. CASE k \in 1 .. Len(wire)
    <3>1. wire'[k] = wire[k] /\ PostStands(k)
      BY <1>4, <2>1 DEF Standing
    <3>2. PICK a : a = wire[k].a
      OBVIOUS
    <3>3. a \in 1 .. Len(actors) /\ a \in 1 .. Len(actors') /\ ActorStays(a)
      BY <3>1, <3>2 DEF PostStands, ActorsStay, Standing, Typing
    <3> QED
      BY <3>1, <3>2, <3>3 DEF PostStands, ActorStays, Opens
  <2>2. CASE k \notin 1 .. Len(wire)
    <3>1. k = fin /\ wire' # wire
      BY <1>4, <2>2
    <3> QED
      BY <3>1
  <2> QED
    BY <2>1, <2>2
<1>6. ASSUME NEW i \in 1 .. Len(wire'), NEW k \in 1 .. Len(wire'), i < k, Opens(i)', Opens(k)', wire'[i].s = wire'[k].s
      PROVE  wire'[i].a < wire'[k].a
  <2>1. i \in 1 .. Len(wire) /\ wire'[i] = wire[i]
    BY <1>4, <1>6
  <2>2. CASE k \in 1 .. Len(wire)
    BY <1>4, <1>6, <2>1, <2>2 DEF Standing, PostsOrdered, Opens
  <2>3. CASE k = fin /\ wire'[fin] = m
    <3>1. m.a > Len(actors) /\ wire[i].a \in 1 .. Len(actors) /\ m.a \in Nat /\ Len(actors) \in Nat
      BY <1>6, <2>1, <2>3 DEF Standing, PostStands, Opens, Posts, Typing
    <3> QED
      BY <2>1, <2>3, <3>1
  <2> QED
    BY <1>4, <2>2, <2>3
<1>7. ASSUME NEW i \in 1 .. Len(wire'), NEW r \in Runs', Opens(i)', run'[r].actor # 0, Where(r)' = wire'[i].s
      PROVE  run'[r].actor < wire'[i].a
  <2>1. r \in Runs /\ Where(r)' = Where(r)
    BY <1>2, WhereStays
  <2>2. CASE i \in 1 .. Len(wire)
    BY <1>4, <1>7, <2>1, <2>2 DEF Standing, PostsOrdered, Opens
  <2>3. CASE i = fin /\ wire'[fin] = m
    <3>1. m.a > Len(actors) /\ m.a \in Nat /\ Len(actors) \in Nat
      BY <1>7, <2>3 DEF Opens, Posts, Standing, Typing
    <3>2. run[r].actor <= Len(actors) /\ run[r].actor \in Nat
      <4>1. run[r] \in Rows /\ RowStands(r)
        BY <2>1 DEF Standing, Typing, Runs
      <4> QED
        BY <1>7, <4>1 DEF Rows, RowStands
    <3> QED
      BY <2>3, <3>1, <3>2
  <2> QED
    BY <1>4, <2>2, <2>3
<1>8. PostsOrdered'
  BY <1>6, <1>7 DEF PostsOrdered
<1> QED
  BY <1>2, <1>3, <1>5, <1>8 DEF Standing

LEMMA ClaudeRows ==
  ASSUME Standing, Standing', run' = run, ActorsStay, NEW s \in Sessions, Telling(s)
  PROVE  SessionsStay(s) /\ \A r \in Runs' : Where(r)' = s => Attributed(r)'
<1>1. SessionsStay(s)
  BY DEF SessionsStay, Runs
<1>2. ASSUME NEW r \in Runs', Where(r)' = s
      PROVE  Attributed(r)'
  <2>1. r \in Runs
    BY DEF Runs
  <2>2. Where(r) = s
    BY <1>2, <2>1, WhereStays
  <2>3. Attributed(r) /\ run[r].actor # 0
    BY <2>1, <2>2, LocatedRow DEF Telling
  <2>4. ActorsOfRowsStay
    BY DEF ActorsOfRowsStay, Runs
  <2> QED
    BY <2>1, <2>3, <2>4, AttributedStays
<1> QED
  BY <1>1, <1>2

LEMMA SentOpens ==
  ASSUME Standing, run' = run, NEW m \in Posts, Sent(m), NEW i \in 1 .. Len(wire) + 1, NEW c
  PROVE  /\ OpenAt(c, i)' <=> OpenAt(c, i)
         /\ c \notin 1 .. Len(actors) => ~OpenAt(c, i)'
<1>1. Running(c)' <=> Running(c)
  BY DEF Running, Runs
<1>2. OpenAt(c, i)' <=> OpenAt(c, i)
  BY <1>1, OpenStays DEF Standing, Sent
<1>3. ASSUME OpenAt(c, i)
      PROVE  c \in 1 .. Len(actors)
  <2>1. CASE Running(c)
    <3>1. PICK r \in Runs : run[r].actor = c /\ run[r].status = "running"
      BY <2>1 DEF Running
    <3>2. RowStands(r) /\ run[r] \in Rows /\ Len(actors) \in Nat
      BY DEF Standing, Typing, Runs
    <3> QED
      BY <3>1, <3>2 DEF RowStands, Rows
  <2>2. CASE ~Running(c)
    <3>1. PICK k \in 1 .. Len(wire) : wire[k].a = c
      BY <1>3, <2>2 DEF OpenAt
    <3> QED
      BY <3>1 DEF Standing, PostStands
  <2> QED
    BY <2>1, <2>2
<1> QED
  BY <1>2, <1>3

\* What the post adds to the story of an actor.
LEMMA EndAfterPost ==
  ASSUME Standing, run' = run, NEW m \in Posts, wire' = Append(wire, m), NEW c,
         NEW fin, fin = Len(wire) + 1, NEW end, end = Len(wire') + 1,
         m.op \in {"command", "start"} /\ m.a = c => c \notin 1 .. Len(actors)
  PROVE  OpenAt(c, end)' <=> /\ OpenAt(c, fin) \/ (m.op \in {"command", "start"} /\ m.a = c)
                             /\ ~(m.op \in {"done", "stop"} /\ m.a = c)
<1>1. /\ Len(wire) \in Nat /\ Len(wire') = fin /\ wire'[fin] = m /\ fin \in 1 .. Len(wire')
      /\ \A k \in 1 .. Len(wire) : k \in 1 .. Len(wire') /\ wire'[k] = wire[k] /\ k < fin /\ k < end
      /\ \A k \in 1 .. Len(wire') : k \in 1 .. Len(wire) \/ k = fin
      /\ fin < end
  BY DEF Standing, Typing
<1>2. Running(c)' <=> Running(c)
  BY DEF Running, Runs
<1>3. ASSUME OpenAt(c, end)'
      PROVE  /\ OpenAt(c, fin) \/ (m.op \in {"command", "start"} /\ m.a = c)
             /\ ~(m.op \in {"done", "stop"} /\ m.a = c)
  <2>1. \A k \in 1 .. Len(wire) : k < fin /\ Closes(k) => wire[k].a # c
    BY <1>1, <1>3 DEF OpenAt, Closes
  <2>2. ~(m.op \in {"done", "stop"} /\ m.a = c)
    BY <1>1, <1>3 DEF OpenAt, Closes
  <2>3. Running(c) \/ (m.op \in {"command", "start"} /\ m.a = c)
        \/ \E k \in 1 .. Len(wire) : k < fin /\ Opens(k) /\ wire[k].a = c
    <3> SUFFICES ASSUME ~Running(c), ~(m.op \in {"command", "start"} /\ m.a = c)
                 PROVE  \E k \in 1 .. Len(wire) : k < fin /\ Opens(k) /\ wire[k].a = c
      OBVIOUS
    <3>1. PICK k \in 1 .. Len(wire') : k < end /\ Opens(k)' /\ wire'[k].a = c
      BY <1>2, <1>3 DEF OpenAt
    <3>2. k \in 1 .. Len(wire) /\ wire'[k] = wire[k]
      BY <1>1, <3>1 DEF Opens
    <3> QED
      BY <1>1, <3>1, <3>2 DEF Opens
  <2> QED
    BY <2>1, <2>2, <2>3 DEF OpenAt
<1>4. ASSUME OpenAt(c, fin) \/ (m.op \in {"command", "start"} /\ m.a = c),
             ~(m.op \in {"done", "stop"} /\ m.a = c)
      PROVE  OpenAt(c, end)'
  <2>1. \A k \in 1 .. Len(wire) : Closes(k) => wire[k].a # c
    <3>1. CASE OpenAt(c, fin)
      BY <1>1, <3>1 DEF OpenAt
    <3>2. CASE m.op \in {"command", "start"} /\ m.a = c
      BY <3>2 DEF Standing, PostStands
    <3> QED
      BY <1>4, <3>1, <3>2
  <2>2. \A k \in 1 .. Len(wire') : k < end /\ Closes(k)' => wire'[k].a # c
    BY <1>1, <1>4, <2>1 DEF Closes
  <2>3. Running(c)' \/ \E k \in 1 .. Len(wire') : k < end /\ Opens(k)' /\ wire'[k].a = c
    <3>1. CASE m.op \in {"command", "start"} /\ m.a = c
      BY <1>1, <3>1 DEF Opens
    <3>2. CASE OpenAt(c, fin) /\ ~Running(c)
      <4>1. PICK k \in 1 .. Len(wire) : Opens(k) /\ wire[k].a = c
        BY <3>2 DEF OpenAt
      <4> QED
        BY <1>1, <4>1 DEF Opens
    <3> QED
      BY <1>2, <1>4, <3>1, <3>2
  <2> QED
    BY <2>2, <2>3 DEF OpenAt
<1> QED
  BY <1>3, <1>4

\* A session in which nothing happens keeps its story.
LEMMA OtherTells ==
  ASSUME Standing, Standing', run' = run, ActorsStay, NEW s \in Sessions, NEW z \in Sessions, z # s, Telling(z),
         \A a \in 1 .. Len(actors') : a > Len(actors) => actors'[a].session = s,
         live'[z] = live[z], NEW m \in Posts, m.s = s, Sent(m)
  PROVE  Telling(z)'
<1>1. SessionsStay(z) /\ \A r \in Runs' : Where(r)' = z => Attributed(r)'
  BY ClaudeRows
<1>2. \A a \in 1 .. Len(actors') : a > Len(actors) => actors'[a].session # z
  OBVIOUS
<1>3. PICK fin, end : fin = Len(wire) + 1 /\ end = Len(wire') + 1
  OBVIOUS
<1>4. /\ Len(wire) \in Nat /\ fin \in Nat
      /\ \A k \in 1 .. Len(wire) : k \in 1 .. Len(wire') /\ wire'[k] = wire[k]
      /\ \A k \in 1 .. Len(wire') : k \in 1 .. Len(wire) \/ (k = fin /\ wire'[fin] = m)
      /\ wire' = wire \/ (Len(wire') = fin /\ wire'[fin] = m)
  BY <1>3, SentWire DEF Standing
<1>5. \A j \in 1 .. Len(wire') : wire'[j].s = z => j + 0 \in 1 .. Len(wire) /\ wire'[j] = wire[j + 0]
  BY <1>4
<1>6. \A c \in Cast(z), j \in 1 .. Len(wire') : j + 0 \in 1 .. Len(wire) => (OpenAt(c, j)' <=> OpenAt(c, j + 0))
  <2> SUFFICES ASSUME NEW c \in Cast(z), NEW j \in 1 .. Len(wire'), j + 0 \in 1 .. Len(wire)
               PROVE  OpenAt(c, j)' <=> OpenAt(c, j + 0)
    OBVIOUS
  <2>1. j + 0 = j /\ j \in 1 .. Len(wire) + 1
    BY <1>4
  <2> QED
    BY <2>1, SentOpens
<1>7. ASSUME NEW c \in Cast(z)
      PROVE  OpenAt(c, end)' <=> OpenAt(c, fin)
  <2>0. c \in 1 .. Len(actors) /\ actors[c].session = z
    BY DEF Cast
  <2>1. CASE wire' = wire
    <3>1. end = fin /\ fin \in 1 .. Len(wire) + 1
      BY <1>3, <1>4, <2>1
    <3> QED
      BY <3>1, SentOpens
  <2>2. CASE wire' # wire
    <3>1. wire' = Append(wire, m) /\ fin \in 1 .. Len(wire') /\ wire'[fin] = m
      BY <1>4, <2>2 DEF Sent
    <3>2. PostStands(fin)'
      BY <3>1 DEF Standing
    <3>3. actors'[m.a].session = s
      BY <3>1, <3>2 DEF PostStands
    <3>4. m.a # c
      BY <2>0, <3>3 DEF ActorsStay, ActorStays
    <3> QED
      BY <1>3, <3>1, <3>4, EndAfterPost
  <2> QED
    BY <2>1, <2>2
<1> QED
  BY <1>1, <1>2, <1>3, <1>5, <1>6, <1>7, TellingStays

LEMMA CastGrows ==
  ASSUME Standing, Standing', ActorsStay, NEW s \in Sessions
  PROVE  Cast(s) \subseteq Cast(s)' /\ \A c \in Cast(s)' : c \notin Cast(s) => c \notin 1 .. Len(actors)
<1>1. Len(actors) \in Nat /\ Len(actors') \in Nat /\ Len(actors) <= Len(actors')
  BY DEF Standing, Typing, ActorsStay
<1>2. \A c \in 1 .. Len(actors) :
         /\ c \in 1 .. Len(actors')
         /\ actors'[c].session = actors[c].session /\ actors'[c].cast = actors[c].cast
  BY <1>1 DEF ActorsStay, ActorStays
<1>3. Cast(s)' = {c \in 1 .. Len(actors') : actors'[c].session = s /\ actors'[c].cast}
  BY DEF Cast
<1> QED
  BY <1>2, <1>3 DEF Cast

\* The session itself keeps its story when what is new in it fits.
LEMMA OwnTells ==
  ASSUME Standing, Standing', run' = run, ActorsStay, NEW s \in Sessions, Telling(s), Chain(s)', AllTold(s)',
         NEW m \in Posts, Sent(m), NEW fin, fin = Len(wire) + 1,
         wire' # wire => Story(s, fin)'
  PROVE  Telling(s)'
<1>1. SessionsStay(s) /\ \A r \in Runs' : Where(r)' = s => Attributed(r)'
  BY ClaudeRows
<1>2. /\ Len(wire) \in Nat /\ fin \in Nat
      /\ \A k \in 1 .. Len(wire) : k \in 1 .. Len(wire') /\ wire'[k] = wire[k]
      /\ \A k \in 1 .. Len(wire') : k \in 1 .. Len(wire) \/ (k = fin /\ wire'[fin] = m)
  BY SentWire DEF Standing
<1>3. Cast(s) \subseteq Cast(s)' /\ \A c \in Cast(s)' : c \notin Cast(s) => c \notin 1 .. Len(actors)
  BY CastGrows
<1>4. ASSUME NEW i \in 1 .. Len(wire'), wire'[i].s = s
      PROVE  Story(s, i)'
  <2>1. CASE i \in 1 .. Len(wire)
    <3>1. wire'[i] = wire[i] /\ wire[i].s = s /\ i \in 1 .. Len(wire) + 1
      BY <1>2, <1>4, <2>1
    <3>2. Story(s, i)
      BY <2>1, <3>1 DEF Telling
    <3>3. \A c : (OpenAt(c, i)' <=> OpenAt(c, i)) /\ (c \notin 1 .. Len(actors) => ~OpenAt(c, i)')
      BY <3>1, SentOpens
    <3> QED
      BY <1>1, <1>3, <2>1, <3>1, <3>2, <3>3, StoryStays
  <2>2. CASE i \notin 1 .. Len(wire)
    BY <1>2, <2>2
  <2> QED
    BY <2>1, <2>2
<1> QED
  BY <1>1, <1>4 DEF Telling

\* An actor that posts in its turn has its owner's row on top.
LEMMA TopNow ==
  ASSUME Standing, NEW s \in Sessions, Chain(s), AllTold(s), live[s] # {}, ~Undiscovered(s),
         NEW by, by = Innermost(s), NEW o, o = Owner(by), NEW fin, fin = Len(wire) + 1
  PROVE  TopAt(s, o, fin)
<1>1. by \in live[s] /\ \A b \in live[s] : b <= by
  BY InnermostIsYoungest DEF Standing
<1>2. o # 0 => o \in Cast(s) \cap live[s]
  BY <1>1 DEF Chain
<1>3. \A c \in Cast(s) \cap live[s] : c <= o
  BY <1>1 DEF Chain
<1>4. \A c \in Cast(s) : OpenAt(c, fin) => c <= o
  BY <1>3 DEF AllTold
<1>5. o # 0 => OpenAt(o, fin)
  BY <1>2 DEF AllTold
<1>6. ASSUME o # 0, NEW r \in Runs, run[r].actor = o
      PROVE  run[r].session = s
  <2>1. RowStands(r) /\ Where(r) = s /\ o \in live[s]
    BY <1>2, <1>6, RowOfCast DEF Standing
  <2>2. run[r].session = s \/ run[r].kind = "dispatched"
    BY <1>6, <2>1 DEF RowStands
  <2>3. ASSUME run[r].kind = "dispatched"
        PROVE  run[r].session = s
    <3>1. s \in Terminals /\ actors[o].by = 0
      BY <1>6, <2>1, <2>3 DEF RowStands
    <3>2. Main(s) \in live[s] /\ \A b \in live[s] : Main(s) <= b
      BY MainIsOldest DEF Standing
    <3>3. o <= Main(s)
      BY <2>1, <3>1, <3>2 DEF Standing, ActorsNest
    <3>4. o = Main(s)
      <4>1. live[s] \subseteq Nat
        BY DEF Standing, Typing
      <4> QED
        BY <2>1, <3>2, <3>3, <4>1
    <3>5. RowOf(o) = r
      BY <1>6 DEF RowOf, Standing, RowsOrdered
    <3> QED
      BY <3>1, <3>4, <3>5 DEF Undiscovered
  <2> QED
    BY <2>2, <2>3
<1> QED
  BY <1>2, <1>4, <1>5, <1>6 DEF TopAt

LEMMA TopSent ==
  ASSUME Standing, Standing', run' = run, ActorsStay, NEW m \in Posts, Sent(m), NEW s \in Sessions,
         NEW fin, fin = Len(wire) + 1, NEW o, TopAt(s, o, fin)
  PROVE  TopAt(s, o, fin)'
<1>1. \A c : (OpenAt(c, fin)' <=> OpenAt(c, fin)) /\ (c \notin 1 .. Len(actors) => ~OpenAt(c, fin)')
  <2>1. fin \in 1 .. Len(wire) + 1
    BY DEF Standing, Typing
  <2> QED
    BY <2>1, SentOpens
<1>2. Cast(s) \subseteq Cast(s)' /\ \A c \in Cast(s)' : c \notin Cast(s) => c \notin 1 .. Len(actors)
  BY CastGrows
<1> QED
  BY <1>1, <1>2 DEF TopAt, Runs

-------------------------------------------------------------------------------
(* The newcomer.                                                           *)

LEMMA OwnerOfNext ==
  ASSUME Typing', ActorsNest', NEW a \in 0 .. Len(actors'), NEW b, b = actors'[a].by
  PROVE  Owner(a)' = IF a = 0 \/ actors'[a].cast THEN a ELSE Owner(b)'
<1>1. actors' \in Seq(Actors) /\ Nested(actors')
  BY DEF Typing, ActorsNest, Nested
<1>2. Owners(actors') = [x \in 0 .. Len(actors') |->
                           IF x = 0 \/ actors'[x].cast THEN x ELSE Owners(actors')[actors'[x].by]]
  BY <1>1, OwnersExist
<1>3. Owner(a)' = Owners(actors')[a] /\ Owner(b)' = Owners(actors')[b]
  BY DEF Owner, Owners
<1> QED
  BY <1>2, <1>3

LEMMA Newcomer ==
  ASSUME Typing, ActorsNest, NEW s \in Sessions, NEW by, NEW cast \in BOOLEAN,
         (by = 0 /\ live[s] = {}) \/ by \in live[s],
         NEW n, n = Len(actors) + 1, Appears(s, by, cast)
  PROVE  /\ n \in Nat /\ n > Len(actors) /\ n \notin 1 .. Len(actors) /\ by \in 0 .. Len(actors)
         /\ 1 .. Len(actors') = (1 .. Len(actors)) \cup {n} /\ Len(actors') = n
         /\ actors' \in Seq(Actors) /\ ActorsStay
         /\ \A a \in 1 .. Len(actors) : actors'[a] = actors[a]
         /\ actors'[n].session = s /\ actors'[n].by = by /\ actors'[n].cast = cast
         /\ \A a \in 1 .. Len(actors') : a > Len(actors) => actors'[a].session = s
         /\ live' \in [Sessions -> SUBSET (1 .. Len(actors'))]
         /\ live'[s] = live[s] \cup {n} /\ \A z \in Sessions : z # s => live'[z] = live[z]
         /\ ActorsNest'
<1> DEFINE x == [session |-> s, by |-> by, cast |-> cast, used |-> FALSE]
<1>1. actors \in Seq(Actors) /\ Len(actors) \in Nat /\ live \in [Sessions -> SUBSET (1 .. Len(actors))]
  BY DEF Typing
<1>2. by \in 0 .. Len(actors) /\ n \in Nat /\ n > Len(actors) /\ n \notin 1 .. Len(actors) /\ n # 0
  BY <1>1
<1>3. x \in Actors
  BY <1>2 DEF Actors
<1>4. actors' = Append(actors, x) /\ live' = [live EXCEPT ![s] = live[s] \cup {n}]
  BY DEF Appears
<1>5. /\ actors' \in Seq(Actors) /\ Len(actors') = n /\ actors'[n] = x
      /\ \A a \in 1 .. Len(actors) : actors'[a] = actors[a]
  BY <1>1, <1>3, <1>4
<1>6. 1 .. Len(actors') = (1 .. Len(actors)) \cup {n}
  BY <1>1, <1>5
<1>7. actors'[n].session = s /\ actors'[n].by = by /\ actors'[n].cast = cast
  BY <1>5
<1>8. live'[s] = live[s] \cup {n} /\ \A z \in Sessions : z # s => live'[z] = live[z]
  BY <1>1, <1>4
<1>9. live' \in [Sessions -> SUBSET (1 .. Len(actors'))]
  BY <1>1, <1>4, <1>6
<1>10. ActorsStay
  BY <1>1, <1>2, <1>5 DEF ActorsStay, ActorStays
<1>11. \A a \in 1 .. Len(actors') : a > Len(actors) => actors'[a].session = s
  BY <1>1, <1>6, <1>7
<1> HIDE DEF x
<1>12. \A a \in 1 .. Len(actors') : actors'[a].by < a
  BY <1>1, <1>2, <1>5, <1>6, <1>7 DEF ActorsNest
<1>13. ASSUME NEW z \in Sessions
       PROVE  /\ \A a \in live'[z] :
                    /\ actors'[a].session = z
                    /\ actors'[a].by = 0 => \A b \in live'[z] : a <= b
              /\ live'[z] # {} => \E a \in live'[z] : actors'[a].by = 0
  <2>1. live[z] \subseteq 1 .. Len(actors)
    BY <1>1
  <2>2. /\ \A a \in live[z] :
              /\ actors'[a].session = z
              /\ actors'[a].by = 0 => \A b \in live[z] : a <= b
        /\ live[z] # {} => \E a \in live[z] : actors'[a].by = 0
    BY <1>5, <2>1 DEF ActorsNest
  <2>3. CASE z # s
    BY <1>8, <2>2, <2>3
  <2>4. CASE z = s
    <3>1. \A a \in live[z] : a <= n
      BY <1>1, <1>2, <2>1
    <3>2. by = 0 => live[z] = {}
      BY <1>1, <2>4
    <3>3. \A a \in live'[z] : actors'[a].session = z
      BY <1>7, <1>8, <2>2, <2>4
    <3>4. \A a \in live'[z] : actors'[a].by = 0 => \A b \in live'[z] : a <= b
      BY <1>2, <1>7, <1>8, <2>2, <2>4, <3>1, <3>2
    <3>5. live'[z] # {} => \E a \in live'[z] : actors'[a].by = 0
      BY <1>7, <1>8, <2>2, <2>4
    <3> QED
      BY <3>3, <3>4, <3>5
  <2> QED
    BY <2>3, <2>4
<1>14. ActorsNest'
  BY <1>12, <1>13 DEF ActorsNest
<1> QED
  BY <1>2, <1>5, <1>6, <1>7, <1>8, <1>9, <1>10, <1>11, <1>14

LEMMA NewcomerChain ==
  ASSUME Standing, Standing', NEW s \in Sessions, NEW by, NEW cast \in BOOLEAN, Chain(s),
         (by = 0 /\ live[s] = {}) \/ (live[s] # {} /\ by = Innermost(s)),
         NEW n, n = Len(actors) + 1, Appears(s, by, cast)
  PROVE  Chain(s)' /\ Cast(s)' = IF cast THEN Cast(s) \cup {n} ELSE Cast(s)
<1>0. Typing /\ ActorsNest /\ Typing' /\ ActorsNest' /\ live[s] \subseteq 1 .. Len(actors) /\ Len(actors) \in Nat
  BY DEF Standing, Typing
<1>1. live[s] # {} => by \in live[s] /\ \A b \in live[s] : b <= by
  BY <1>0, InnermostIsYoungest
<1>2. /\ n \in Nat /\ n > Len(actors) /\ n \notin 1 .. Len(actors) /\ by \in 0 .. Len(actors)
      /\ 1 .. Len(actors') = (1 .. Len(actors)) \cup {n} /\ Len(actors') = n /\ ActorsStay
      /\ \A a \in 1 .. Len(actors) : actors'[a] = actors[a]
      /\ actors'[n].session = s /\ actors'[n].by = by /\ actors'[n].cast = cast
      /\ live'[s] = live[s] \cup {n}
  <2>1. (by = 0 /\ live[s] = {}) \/ by \in live[s]
    BY <1>1
  <2> QED
    BY <1>0, <2>1, Newcomer
<1>3. Cast(s)' = IF cast THEN Cast(s) \cup {n} ELSE Cast(s)
  <2>1. Cast(s)' = {c \in 1 .. Len(actors') : actors'[c].session = s /\ actors'[c].cast}
    BY DEF Cast
  <2>2. \A c \in 1 .. Len(actors) : actors'[c].session = actors[c].session /\ actors'[c].cast = actors[c].cast
    BY <1>2
  <2> QED
    BY <1>2, <2>1, <2>2 DEF Cast
<1>4. PICK p : p = Owner(by)
  OBVIOUS
<1>5. \A x \in 0 .. Len(actors) : Owner(x)' = Owner(x)
  BY <1>0, <1>2, OwnerStays
<1>6. Owner(n)' = IF cast THEN n ELSE p
  <2>1. n \in 0 .. Len(actors') /\ n # 0
    BY <1>2
  <2>2. Owner(n)' = IF n = 0 \/ actors'[n].cast THEN n ELSE Owner(by)'
    BY <1>0, <1>2, <2>1, OwnerOfNext
  <2>3. Owner(by)' = p
    BY <1>2, <1>4, <1>5
  <2> QED
    BY <1>2, <2>1, <2>2, <2>3
<1>7. /\ p <= by /\ p \in Nat
      /\ p # 0 => p \in Cast(s) \cap live[s]
      /\ \A c \in Cast(s) \cap live[s] : c <= p
  <2>1. CASE live[s] = {}
    <3>1. by = 0 /\ p = 0
      BY <1>0, <1>4, <2>1, OwnerStep
    <3> QED
      BY <2>1, <3>1
  <2>2. CASE live[s] # {}
    <3>1. by \in live[s] /\ p \in Nat
      BY <1>0, <1>1, <1>2, <1>4, <2>2, OwnerIsActor
    <3> QED
      BY <1>1, <1>4, <2>2, <3>1 DEF Chain
  <2> QED
    BY <2>1, <2>2
<1>8. ASSUME NEW b \in live'[s]
      PROVE  /\ Owner(b)' <= b
             /\ Owner(b)' # 0 => Owner(b)' \in Cast(s)' \cap live'[s]
             /\ \A c \in Cast(s)' \cap live'[s] : c <= b => c <= Owner(b)'
  <2>1. CASE b \in live[s]
    <3>1. Owner(b)' = Owner(b) /\ b < n
      BY <1>0, <1>2, <1>5, <2>1
    <3>2. \A c \in Cast(s)' \cap live'[s] : c <= b => c \in Cast(s) \cap live[s]
      BY <1>0, <1>2, <1>3, <2>1
    <3>3. /\ Owner(b) <= b
          /\ Owner(b) # 0 => Owner(b) \in Cast(s) \cap live[s]
          /\ \A c \in Cast(s) \cap live[s] : c <= b => c <= Owner(b)
      BY <2>1 DEF Chain
    <3> QED
      BY <1>2, <1>3, <3>1, <3>2, <3>3
  <2>2. CASE b = n /\ cast
    <3>1. Owner(b)' = n
      BY <1>6, <2>2
    <3> QED
      BY <1>2, <1>3, <2>2, <3>1
  <2>3. CASE b = n /\ ~cast
    <3>1. Owner(b)' = p
      BY <1>6, <2>3
    <3>2. Cast(s)' = Cast(s) /\ n \notin Cast(s)
      BY <1>2, <1>3, <2>3 DEF Cast
    <3>3. p <= n
      BY <1>2, <1>7
    <3> QED
      BY <1>2, <1>7, <2>3, <3>1, <3>2, <3>3
  <2> QED
    BY <1>2, <2>1, <2>2, <2>3
<1>9. Chain(s)'
  BY <1>8 DEF Chain
<1> QED
  BY <1>3, <1>9

LEMMA AppearsStep ==
  ASSUME Inv, NEW s \in Sessions, NEW by, NEW cast \in BOOLEAN, Appears(s, by, cast),
         (by = 0 /\ live[s] = {} /\ s \in UserSessions) \/ (by # 0 /\ by \in live[s]),
         UNCHANGED <<scenario, run>>, NEW n, n = Len(actors) + 1,
         NEW m, m = [op |-> IF by = 0 THEN "command" ELSE "start", s |-> s, a |-> n], Sent(m), wire' # wire => cast,
         orderly' \subseteq orderly,
         s \in orderly' => /\ wire' = IF cast THEN Append(wire, m) ELSE wire
                           /\ by # 0 => by = Innermost(s) /\ ~Undiscovered(s)
  PROVE  Inv'
<1>0. Standing /\ Typing /\ ActorsNest /\ \A z \in orderly : z \in Sessions /\ Telling(z)
  BY DEF Inv, Standing, Typing
<1>1. /\ n \in Nat /\ n > Len(actors) /\ n \notin 1 .. Len(actors) /\ by \in 0 .. Len(actors)
      /\ 1 .. Len(actors') = (1 .. Len(actors)) \cup {n} /\ Len(actors') = n
      /\ actors' \in Seq(Actors) /\ ActorsStay
      /\ actors'[n].session = s /\ actors'[n].by = by /\ actors'[n].cast = cast
      /\ \A a \in 1 .. Len(actors') : a > Len(actors) => actors'[a].session = s
      /\ live' \in [Sessions -> SUBSET (1 .. Len(actors'))]
      /\ live'[s] = live[s] \cup {n} /\ \A z \in Sessions : z # s => live'[z] = live[z]
      /\ ActorsNest'
  BY <1>0, Newcomer
<1>2. m \in Posts /\ m.s = s /\ m.a = n /\ m.op = IF by = 0 THEN "command" ELSE "start"
  BY <1>1 DEF Posts
<1>3. PICK fin, end : fin = Len(wire) + 1 /\ end = Len(wire') + 1
  OBVIOUS
<1>4. /\ Len(wire) \in Nat /\ fin \in 1 .. Len(wire) + 1 /\ wire' \in Seq(Posts)
      /\ wire' # wire => Len(wire') = fin /\ wire'[fin] = m /\ fin \in 1 .. Len(wire') /\ wire' = Append(wire, m)
  BY <1>0, <1>2, <1>3, SentWire DEF Sent
<1>5. Typing'
  BY <1>0, <1>1, <1>4 DEF Typing
<1>6. wire' # wire => PostStands(fin)'
  <2> SUFFICES ASSUME wire' # wire PROVE PostStands(fin)'
    OBVIOUS
  <2>1. wire'[fin] = m /\ cast
    BY <1>4
  <2>2. n \in 1 .. Len(actors') /\ actors'[n].session = s /\ actors'[n].cast /\ actors'[n].by = by
    BY <1>1, <2>1
  <2> QED
    BY <1>2, <2>1, <2>2 DEF PostStands, Opens
<1>7. Standing'
  BY <1>0, <1>1, <1>2, <1>3, <1>5, <1>6, ClaudeStanding
<1>8. ASSUME NEW z \in orderly', z # s
      PROVE  Telling(z)'
  BY <1>0, <1>1, <1>2, <1>7, <1>8, OtherTells
<1>9. ASSUME s \in orderly'
      PROVE  Telling(s)'
  <2>1. Telling(s) /\ Chain(s) /\ AllTold(s)
    BY <1>0, <1>9 DEF Telling
  <2>2. (by = 0 /\ live[s] = {}) \/ (live[s] # {} /\ by = Innermost(s))
    BY <1>9
  <2>3. Chain(s)' /\ Cast(s)' = IF cast THEN Cast(s) \cup {n} ELSE Cast(s)
    BY <1>0, <1>7, <2>1, <2>2, NewcomerChain
  <2>4. Cast(s) \subseteq 1 .. Len(actors) /\ live[s] \subseteq 1 .. Len(actors)
    BY <1>0 DEF Cast, Typing
  <2>5. \A c \in Cast(s) \cap live[s] : OpenAt(c, fin)
    BY <1>3, <2>1 DEF AllTold
  <2>6. \A c \in Cast(s) : OpenAt(c, fin) => c \in live[s]
    <3>1. ~(s \in Terminals /\ live[s] = {})
      BY DelegationAssumption
    <3> QED
      BY <1>3, <2>1, <3>1 DEF AllTold
  <2>7. ASSUME NEW c \in Cast(s)'
        PROVE  OpenAt(c, end)' <=> OpenAt(c, fin) \/ c = n
    <3>1. CASE cast
      <4>1. wire' = Append(wire, m) /\ m.op \in {"command", "start"} /\ m.op \notin {"done", "stop"}
        BY <1>2, <1>9, <3>1
      <4>2. m.a = c => c \notin 1 .. Len(actors)
        BY <1>1, <1>2
      <4>3. OpenAt(c, end)' <=> /\ OpenAt(c, fin) \/ (m.op \in {"command", "start"} /\ m.a = c)
                                /\ ~(m.op \in {"done", "stop"} /\ m.a = c)
        BY <1>0, <1>2, <1>3, <4>1, <4>2, EndAfterPost
      <4> QED
        BY <1>2, <4>1, <4>3
    <3>2. CASE ~cast
      <4>1. wire' = wire /\ end = fin /\ c # n
        BY <1>1, <1>3, <1>9, <2>3, <2>4, <3>2
      <4> QED
        BY <1>0, <1>2, <1>4, <4>1, SentOpens
    <3> QED
      BY <3>1, <3>2
  <2>8. AllTold(s)'
    <3>1. \A c \in Cast(s)' \cap live'[s] : OpenAt(c, end)'
      BY <1>1, <2>3, <2>4, <2>5, <2>7
    <3>2. \A c \in Cast(s)' : OpenAt(c, end)' => c \in live'[s]
      <4>1. \A c \in Cast(s)' : c = n \/ c \in Cast(s)
        BY <2>3
      <4> QED
        BY <1>1, <2>6, <2>7, <4>1
    <3> QED
      BY <1>3, <3>1, <3>2 DEF AllTold
  <2>9. wire' # wire => Story(s, fin)'
    <3> SUFFICES ASSUME wire' # wire PROVE Story(s, fin)'
      OBVIOUS
    <3>1. wire'[fin] = m /\ wire'[fin].a = n /\ actors'[n].by = by
      BY <1>1, <1>2, <1>4
    <3>2. CASE by = 0
      BY <1>2, <3>1, <3>2 DEF Story, Closes
    <3>3. CASE by # 0
      <4>1. PICK o : o = Owner(by)
        OBVIOUS
      <4>2. live[s] # {} /\ by = Innermost(s) /\ ~Undiscovered(s)
        BY <1>9, <3>3
      <4>3. TopAt(s, o, fin)
        BY <1>0, <1>3, <2>1, <4>1, <4>2, TopNow
      <4>4. TopAt(s, o, fin)'
        BY <1>0, <1>1, <1>2, <1>3, <1>7, <4>3, TopSent
      <4>5. Owner(by)' = o
        BY <1>0, <1>1, <1>5, <4>1, OwnerStays
      <4> QED
        BY <1>2, <3>1, <3>3, <4>4, <4>5 DEF Story, Closes
    <3> QED
      BY <3>2, <3>3
  <2> QED
    BY <1>0, <1>1, <1>2, <1>3, <1>7, <2>1, <2>3, <2>8, <2>9, OwnTells
<1> QED
  BY <1>7, <1>8, <1>9 DEF Inv

LEMMA UserPromptStartStep ==
  ASSUME Inv, NEW s \in scenario.sessions, NEW cast \in BOOLEAN, UserPromptStart(s, cast)
  PROVE  Inv'
<1>1. s \in UserSessions /\ s \in Sessions /\ live[s] = {}
  BY DEF UserPromptStart, Sessions
<1>2. PICK n : n = Len(actors) + 1
  OBVIOUS
<1>3. PICK m : m = [op |-> "command", s |-> s, a |-> n]
  OBVIOUS
<1>4. Appears(s, 0, cast) /\ UNCHANGED <<scenario, run>>
  BY DEF UserPromptStart, server
<1>5. /\ Sent(m) /\ (wire' # wire => cast) /\ orderly' \subseteq orderly
      /\ s \in orderly' => wire' = IF cast THEN Append(wire, m) ELSE wire
  <2>1. CASE cast
    <3>1. Post(m, FALSE)
      BY <1>2, <1>3, <2>1 DEF UserPromptStart
    <3>2. m.s = s
      BY <1>3
    <3> QED
      BY <2>1, <3>1, <3>2 DEF Post, Sent
  <2>2. CASE ~cast
    BY <2>2 DEF UserPromptStart, NoPost, Sent
  <2> QED
    BY <2>1, <2>2
<1>6. m = [op |-> IF 0 = 0 THEN "command" ELSE "start", s |-> s, a |-> n]
  BY <1>3
<1> QED
  BY <1>1, <1>2, <1>4, <1>5, <1>6, AppearsStep

LEMMA SubagentStartStep ==
  ASSUME Inv, NEW s \in Sessions, NEW by \in live[s], NEW cast \in BOOLEAN, SubagentStart(s, by, cast)
  PROVE  Inv'
<1>1. by # 0
  BY DEF Inv, Standing, Typing
<1>2. PICK n : n = Len(actors) + 1
  OBVIOUS
<1>3. PICK m : m = [op |-> "start", s |-> s, a |-> n]
  OBVIOUS
<1>4. Appears(s, by, cast) /\ UNCHANGED <<scenario, run>>
  BY DEF SubagentStart, server
<1>5. PICK broken : broken = (by # Innermost(s) \/ Undiscovered(s))
  OBVIOUS
<1>6. /\ Sent(m) /\ (wire' # wire => cast) /\ orderly' \subseteq orderly
      /\ s \in orderly' => wire' = (IF cast THEN Append(wire, m) ELSE wire) /\ ~broken
  <2>1. CASE cast
    <3>1. Post(m, broken)
      BY <1>2, <1>3, <1>5, <2>1 DEF SubagentStart
    <3>2. m.s = s
      BY <1>3
    <3> QED
      BY <2>1, <3>1, <3>2 DEF Post, Sent
  <2>2. CASE ~cast
    <3>1. NoPost(s, broken)
      BY <1>5, <2>2 DEF SubagentStart
    <3> QED
      BY <2>2, <3>1 DEF NoPost, Sent
  <2> QED
    BY <2>1, <2>2
<1>7. m = [op |-> IF by = 0 THEN "command" ELSE "start", s |-> s, a |-> n]
  BY <1>1, <1>3
<1> QED
  BY <1>1, <1>2, <1>4, <1>5, <1>6, <1>7, AppearsStep

LEMMA MainIsRoot ==
  ASSUME Standing, NEW s \in Sessions, live[s] # {}
  PROVE  Main(s) \in live[s] /\ \A b \in live[s] : actors[b].by = 0 <=> b = Main(s)
<1>1. Main(s) \in live[s] /\ \A b \in live[s] : Main(s) <= b
  BY MainIsOldest DEF Standing
<1>2. live[s] \subseteq Nat
  BY DEF Standing, Typing
<1>3. PICK a \in live[s] : actors[a].by = 0
  BY DEF Standing, ActorsNest
<1>4. ASSUME NEW b \in live[s], actors[b].by = 0
      PROVE  b = Main(s)
  <2>1. b <= Main(s) /\ Main(s) <= b
    BY <1>1, <1>4 DEF Standing, ActorsNest
  <2> QED
    BY <1>1, <1>2, <2>1
<1> QED
  BY <1>1, <1>3, <1>4

\* The actor l leaves s, and kept is who is left there.
LEMMA LeavesStep ==
  ASSUME Inv, NEW s \in Sessions, NEW l \in live[s], NEW kept \in SUBSET live[s],
         UNCHANGED <<scenario, run, actors>>, live' = [live EXCEPT ![s] = kept], kept = {} \/ Main(s) \in kept,
         NEW m \in Posts, m.s = s, m.a = l, Sent(m), m.op \in {"stop", "done"},
         m.op = "stop" => l = Main(s) /\ kept = {},
         m.op = "done" => l # Main(s),
         wire' # wire /\ m.op = "stop" => s \in UserSessions,
         orderly' \subseteq orderly,
         s \in orderly' => /\ live[s] = kept \cup {l} /\ l \notin kept /\ l = Innermost(s)
                           /\ wire' = Append(wire, m) \/ (kept = {} /\ s \in Terminals /\ wire' = wire)
  PROVE  Inv'
<1>0. Standing /\ Typing /\ ActorsNest /\ \A z \in orderly : z \in Sessions /\ Telling(z)
  BY DEF Inv, Standing, Typing
<1>1. Main(s) \in live[s] /\ \A b \in live[s] : actors[b].by = 0 <=> b = Main(s)
  BY <1>0, MainIsRoot
<1>2. live'[s] = kept /\ \A z \in Sessions : z # s => live'[z] = live[z]
  BY <1>0 DEF Typing
<1>3. live[s] \subseteq 1 .. Len(actors) /\ live' \in [Sessions -> SUBSET (1 .. Len(actors))] /\ Len(actors) \in Nat
  BY <1>0 DEF Typing
<1>4. PICK fin, end : fin = Len(wire) + 1 /\ end = Len(wire') + 1
  OBVIOUS
<1>5. /\ Len(wire) \in Nat /\ fin \in 1 .. Len(wire) + 1 /\ wire' \in Seq(Posts)
      /\ wire' # wire => Len(wire') = fin /\ wire'[fin] = m /\ fin \in 1 .. Len(wire') /\ wire' = Append(wire, m)
  BY <1>0, <1>4, SentWire DEF Sent
<1>6. Typing'
  BY <1>0, <1>3, <1>5 DEF Typing
<1>7. ActorsStay /\ \A a \in 1 .. Len(actors') : ~(a > Len(actors))
  BY <1>0, <1>3, UnchangedActorsStay
<1>8. ActorsNest'
  <2>1. ASSUME NEW z \in Sessions
        PROVE  /\ \A a \in live'[z] :
                     /\ actors[a].session = z
                     /\ actors[a].by = 0 => \A b \in live'[z] : a <= b
               /\ live'[z] # {} => \E a \in live'[z] : actors[a].by = 0
    <3>1. live'[z] \subseteq live[z]
      BY <1>2
    <3>2. live'[z] # {} => \E a \in live'[z] : actors[a].by = 0
      BY <1>0, <1>1, <1>2 DEF ActorsNest
    <3> QED
      BY <1>0, <3>1, <3>2 DEF ActorsNest
  <2> QED
    BY <1>0, <2>1 DEF ActorsNest
<1>9. actors[l].session = s /\ l \in 1 .. Len(actors)
  BY <1>0, <1>3 DEF ActorsNest
<1>10. wire' # wire => PostStands(fin)'
  <2> SUFFICES ASSUME wire' # wire PROVE PostStands(fin)'
    OBVIOUS
  <2>1. wire'[fin] = m
    BY <1>5
  <2> QED
    BY <1>1, <1>9, <2>1 DEF PostStands, Opens
<1>11. Standing'
  BY <1>0, <1>4, <1>6, <1>7, <1>8, <1>10, ClaudeStanding
<1>12. ASSUME NEW z \in orderly', z # s
       PROVE  Telling(z)'
  BY <1>0, <1>2, <1>7, <1>11, <1>12, OtherTells
<1>13. ASSUME s \in orderly'
       PROVE  Telling(s)'
  <2>1. Telling(s) /\ Chain(s) /\ AllTold(s)
    BY <1>0, <1>13 DEF Telling
  <2>2. live[s] = kept \cup {l} /\ l \notin kept /\ \A b \in kept : b < l
    <3>1. \A b \in live[s] : b <= l
      BY <1>0, <1>13, InnermostIsYoungest
    <3> QED
      BY <1>3, <1>13, <3>1
  <2>3. Cast(s)' = Cast(s) /\ \A b : Owner(b)' = Owner(b)
    BY DEF Cast, Owner
  <2>4. Chain(s)'
    <3>1. ASSUME NEW b \in kept
          PROVE  /\ Owner(b) <= b
                 /\ Owner(b) # 0 => Owner(b) \in Cast(s) \cap kept
                 /\ \A c \in Cast(s) \cap kept : c <= b => c <= Owner(b)
      <4>1. /\ Owner(b) <= b
            /\ Owner(b) # 0 => Owner(b) \in Cast(s) \cap live[s]
            /\ \A c \in Cast(s) \cap live[s] : c <= b => c <= Owner(b)
        BY <2>1 DEF Chain
      <4>2. b < l /\ b \in Nat /\ l \in Nat
        BY <1>3, <2>2
      <4>3. Owner(b) # l
        BY <4>1, <4>2
      <4> QED
        BY <2>2, <4>1, <4>3
    <3> QED
      BY <1>2, <2>3, <3>1 DEF Chain
  <2>5. \A c \in Cast(s) \cap live[s] : OpenAt(c, fin)
    BY <1>4, <2>1 DEF AllTold
  <2>6. \A c \in Cast(s) : OpenAt(c, fin) => c \in live[s]
    BY <1>4, <2>1 DEF AllTold
  <2>7. CASE wire' = Append(wire, m)
    <3>1. \A c : OpenAt(c, end)' <=> OpenAt(c, fin) /\ c # l
      <4> TAKE c
      <4>1. m.op \notin {"command", "start"}
        OBVIOUS
      <4>2. OpenAt(c, end)' <=> /\ OpenAt(c, fin) \/ (m.op \in {"command", "start"} /\ m.a = c)
                                /\ ~(m.op \in {"done", "stop"} /\ m.a = c)
        BY <1>0, <1>4, <2>7, <4>1, EndAfterPost
      <4> QED
        BY <4>1, <4>2
    <3>2. \A c \in Cast(s) \cap kept : OpenAt(c, end)'
      BY <2>2, <2>5, <3>1
    <3>3. \A c \in Cast(s) : OpenAt(c, end)' => c \in kept
      BY <2>2, <2>6, <3>1
    <3>4. AllTold(s)'
      BY <1>2, <1>4, <2>3, <3>2, <3>3 DEF AllTold
    <3>5. Story(s, fin)'
      <4>1. wire'[fin] = m
        BY <1>0, <1>4, <2>7 DEF Typing
      <4>2. \A c : OpenAt(c, fin)' <=> OpenAt(c, fin)
        BY <1>0, <1>5, SentOpens
      <4>3. actors[l].cast => OpenAt(l, fin)
        BY <1>9, <2>5 DEF Cast
      <4>4. m.op = "stop" => \A c \in Cast(s) : OpenAt(c, fin) => c = l
        BY <2>2, <2>6
      <4> QED
        BY <2>3, <4>1, <4>2, <4>3, <4>4 DEF Story, Closes
    <3> QED
      BY <1>0, <1>4, <1>7, <1>11, <2>1, <2>4, <3>4, <3>5, OwnTells
  <2>8. CASE kept = {} /\ s \in Terminals /\ wire' = wire
    <3>1. l = Main(s) /\ actors[l].by = 0
      BY <1>1, <2>2, <2>8
    <3>2. \A c \in Cast(s) : OpenAt(c, fin)' => c = l
      <4>1. \A c : OpenAt(c, fin)' <=> OpenAt(c, fin)
        BY <1>0, <1>5, SentOpens
      <4> QED
        BY <2>2, <2>6, <2>8, <4>1
    <3>3. fin = Len(wire') + 1 /\ live'[s] = {}
      BY <1>2, <1>4, <2>8
    <3>4. AllTold(s)'
      BY <2>3, <2>8, <3>1, <3>2, <3>3 DEF AllTold
    <3> QED
      BY <1>0, <1>4, <1>7, <1>11, <2>1, <2>4, <2>8, <3>4, OwnTells
  <2> QED
    BY <1>13, <2>7, <2>8
<1> QED
  BY <1>11, <1>12, <1>13 DEF Inv

LEMMA UserPromptStopStep ==
  ASSUME Inv, NEW s \in UserSessions, UserPromptStop(s)
  PROVE  Inv'
<1>0. Standing /\ Typing /\ s \in Sessions /\ live[s] # {} /\ live[s] \subseteq Nat
  BY DEF Inv, Standing, Typing, Sessions, UserPromptStop
<1>1. PICK l : l = Main(s)
  OBVIOUS
<1>2. PICK m : m = [op |-> "stop", s |-> s, a |-> l]
  OBVIOUS
<1>3. l \in live[s] /\ m \in Posts
  BY <1>0, <1>1, <1>2, MainIsOldest DEF Posts
<1>4. PICK broken : broken = (live[s] # {Main(s)})
  OBVIOUS
<1>5. Post(m, broken) /\ live' = [live EXCEPT ![s] = {}] /\ UNCHANGED <<scenario, run, actors>>
  BY <1>1, <1>2, <1>4 DEF UserPromptStop, server
<1>6. Sent(m) /\ orderly' \subseteq orderly /\ (s \in orderly' => wire' = Append(wire, m) /\ ~broken)
  <2>1. m.s = s
    BY <1>2
  <2> QED
    BY <1>5, <2>1 DEF Post, Sent
<1>7. s \in orderly' => live[s] = {} \cup {l} /\ l = Innermost(s)
  <2> SUFFICES ASSUME s \in orderly' PROVE live[s] = {} \cup {l} /\ l = Innermost(s)
    OBVIOUS
  <2>1. live[s] = {l}
    BY <1>1, <1>4, <1>6
  <2>2. Innermost(s) \in live[s]
    BY <1>0, InnermostIsYoungest
  <2> QED
    BY <2>1, <2>2
<1>8. m.s = s /\ m.a = l /\ m.op = "stop" /\ {} \in SUBSET live[s]
  BY <1>2
<1> QED
  BY <1>0, <1>1, <1>3, <1>5, <1>6, <1>7, <1>8, LeavesStep

LEMMA SubagentStopStep ==
  ASSUME Inv, NEW s \in Sessions, NEW l \in live[s], SubagentStop(s, l)
  PROVE  Inv'
<1>0. Standing /\ Typing /\ live[s] # {} /\ live[s] \subseteq Nat
  BY DEF Inv, Standing, Typing
<1>1. PICK m : m = [op |-> "done", s |-> s, a |-> l]
  OBVIOUS
<1>2. m \in Posts /\ m.s = s /\ m.a = l /\ m.op = "done"
  BY <1>0, <1>1 DEF Posts
<1>3. PICK kept : kept = live[s] \ {l}
  OBVIOUS
<1>4. PICK broken : broken = (l # Innermost(s))
  OBVIOUS
<1>5. /\ Post(m, broken) /\ live' = [live EXCEPT ![s] = kept] /\ UNCHANGED <<scenario, run, actors>>
      /\ l # Main(s)
  BY <1>1, <1>3, <1>4 DEF SubagentStop, server
<1>6. Sent(m) /\ orderly' \subseteq orderly /\ (s \in orderly' => wire' = Append(wire, m) /\ ~broken)
  BY <1>2, <1>5 DEF Post, Sent
<1>7. Main(s) \in kept /\ kept \in SUBSET live[s] /\ live[s] = kept \cup {l} /\ l \notin kept
  BY <1>0, <1>3, <1>5, MainIsOldest
<1>8. s \in orderly' => /\ live[s] = kept \cup {l} /\ l \notin kept /\ l = Innermost(s)
                        /\ wire' = Append(wire, m)
  BY <1>4, <1>6, <1>7
<1>9. m.op \in {"stop", "done"} /\ m.op # "stop" /\ (m.op = "done" => l # Main(s))
  BY <1>2, <1>5
<1> QED
  <2>1. kept = {} \/ Main(s) \in kept
    BY <1>7
  <2>2. m.op = "stop" => l = Main(s) /\ kept = {}
    BY <1>9
  <2>3. wire' # wire /\ m.op = "stop" => s \in UserSessions
    BY <1>9
  <2>4. s \in orderly' => /\ live[s] = kept \cup {l} /\ l \notin kept /\ l = Innermost(s)
                          /\ wire' = Append(wire, m) \/ (kept = {} /\ s \in Terminals /\ wire' = wire)
    BY <1>8
  <2>5. live' = [live EXCEPT ![s] = kept] /\ UNCHANGED <<scenario, run, actors>>
    BY <1>5
  <2> QED
    BY <1>2, <1>6, <1>7, <1>9, <2>1, <2>2, <2>3, <2>4, <2>5, LeavesStep

LEMMA TerminalEndsStep ==
  ASSUME Inv, NEW t \in Terminals, TerminalEnds(t)
  PROVE  Inv'
<1>0. Standing /\ Typing /\ t \in Sessions /\ live[t] # {} /\ live[t] \subseteq Nat
  BY DEF Inv, Standing, Typing, Sessions, TerminalEnds
<1>1. PICK l : l = Main(t)
  OBVIOUS
<1>2. PICK m : m = [op |-> "stop", s |-> t, a |-> l]
  OBVIOUS
<1>3. l \in live[t] /\ m \in Posts /\ m.s = t /\ m.a = l /\ m.op = "stop" /\ {} \in SUBSET live[t]
  BY <1>0, <1>1, <1>2, MainIsOldest DEF Posts
<1>4. live' = [live EXCEPT ![t] = {}] /\ UNCHANGED <<scenario, run, actors, wire>>
  BY DEF TerminalEnds, server
<1>5. Sent(m) /\ orderly' \subseteq orderly
  BY <1>4 DEF TerminalEnds, Sent
<1>6. t \in orderly' => live[t] = {} \cup {l} /\ l = Innermost(t)
  <2> SUFFICES ASSUME t \in orderly' PROVE live[t] = {} \cup {l} /\ l = Innermost(t)
    OBVIOUS
  <2>1. live[t] = {l}
    BY <1>1 DEF TerminalEnds
  <2>2. Innermost(t) \in live[t]
    BY <1>0, InnermostIsYoungest
  <2> QED
    BY <2>1, <2>2
<1> QED
  BY <1>0, <1>1, <1>3, <1>4, <1>5, <1>6, LeavesStep

LEMMA SkillInvokeStep ==
  ASSUME Inv, NEW s \in Sessions, NEW by \in live[s], SkillInvoke(s, by)
  PROVE  Inv'
<1>0. Standing /\ Typing /\ ActorsNest /\ \A z \in orderly : z \in Sessions /\ Telling(z)
  BY DEF Inv, Standing, Typing
<1>1. PICK m : m = [op |-> "skill", s |-> s, a |-> by]
  OBVIOUS
<1>2. PICK broken : broken = (by # Innermost(s) \/ Undiscovered(s))
  OBVIOUS
<1>3. /\ Post(m, broken) /\ actors' = [actors EXCEPT ![by] = [actors[by] EXCEPT !.used = TRUE]]
      /\ UNCHANGED <<scenario, run, live>>
  BY <1>1, <1>2 DEF SkillInvoke, server
<1>4. by \in 1 .. Len(actors) /\ actors[by] \in Actors /\ actors[by].session = s /\ Len(actors) \in Nat
      /\ actors \in Seq(Actors)
  BY <1>0 DEF Typing, ActorsNest
<1>5. m \in Posts /\ m.s = s /\ m.a = by /\ m.op = "skill"
  BY <1>1, <1>4 DEF Posts
<1>6. Sent(m) /\ orderly' \subseteq orderly /\ (s \in orderly' => wire' = Append(wire, m) /\ ~broken)
  BY <1>3, <1>5 DEF Post, Sent
<1>7. PICK fin, end : fin = Len(wire) + 1 /\ end = Len(wire') + 1
  OBVIOUS
<1>8. /\ Len(wire) \in Nat /\ fin \in 1 .. Len(wire) + 1 /\ wire' \in Seq(Posts)
      /\ wire' # wire => Len(wire') = fin /\ wire'[fin] = m /\ fin \in 1 .. Len(wire') /\ wire' = Append(wire, m)
  BY <1>0, <1>5, <1>6, <1>7, SentWire DEF Sent
<1>9. Len(actors') = Len(actors) /\ \A a \in 1 .. Len(actors) :
          actors'[a] = IF a = by THEN [actors[by] EXCEPT !.used = TRUE] ELSE actors[a]
  BY <1>3, <1>4
<1>10. ActorsStay /\ \A a \in 1 .. Len(actors') : ~(a > Len(actors)) /\ ActorStays(a)
  <2>1. \A a \in 1 .. Len(actors) : ActorStays(a)
    BY <1>4, <1>9 DEF ActorStays, Actors
  <2> QED
    BY <1>4, <1>9, <2>1 DEF ActorsStay
<1>11. Typing'
  <2>1. [actors[by] EXCEPT !.used = TRUE] \in Actors
    BY <1>4 DEF Actors
  <2>2. actors' \in Seq(Actors)
    BY <1>3, <1>4, <2>1
  <2> QED
    BY <1>0, <1>3, <1>6, <1>8, <1>9, <2>2 DEF Typing
<1>12. ActorsNest'
  <2>1. \A z \in Sessions : live[z] \subseteq 1 .. Len(actors)
    BY <1>0 DEF Typing
  <2>2. \A a \in 1 .. Len(actors) : actors'[a].by = actors[a].by /\ actors'[a].session = actors[a].session
    BY <1>9, <1>10 DEF ActorStays
  <2> QED
    BY <1>0, <1>3, <1>9, <2>1, <2>2 DEF ActorsNest
<1>13. wire' # wire => PostStands(fin)'
  <2> SUFFICES ASSUME wire' # wire PROVE PostStands(fin)'
    OBVIOUS
  <2>1. wire'[fin] = m /\ actors'[by].session = s /\ by \in 1 .. Len(actors')
    BY <1>4, <1>8, <1>9, <1>10 DEF ActorStays
  <2> QED
    BY <1>5, <2>1 DEF PostStands, Opens
<1>14. Standing'
  BY <1>0, <1>3, <1>5, <1>6, <1>7, <1>10, <1>11, <1>12, <1>13, ClaudeStanding
<1>15. ASSUME NEW z \in orderly', z # s
       PROVE  Telling(z)'
  BY <1>0, <1>3, <1>5, <1>6, <1>10, <1>14, <1>15, OtherTells
<1>16. ASSUME s \in orderly'
       PROVE  Telling(s)'
  <2>1. Telling(s) /\ Chain(s) /\ AllTold(s)
    BY <1>0, <1>6, <1>16 DEF Telling
  <2>2. wire' = Append(wire, m) /\ by = Innermost(s) /\ ~Undiscovered(s)
    BY <1>2, <1>6, <1>16
  <2>3. Cast(s)' = Cast(s)
    BY <1>0, <1>10, <1>11, CastStays
  <2>4. Chain(s)'
    BY <1>0, <1>3, <1>10, <1>14, <2>1, <2>3, ChainStays
  <2>5. \A c : OpenAt(c, end)' <=> OpenAt(c, fin)
    <3> TAKE c
    <3>1. OpenAt(c, end)' <=> /\ OpenAt(c, fin) \/ (m.op \in {"command", "start"} /\ m.a = c)
                              /\ ~(m.op \in {"done", "stop"} /\ m.a = c)
      BY <1>0, <1>3, <1>5, <1>7, <2>2, EndAfterPost
    <3> QED
      BY <1>5, <3>1
  <2>6. AllTold(s)'
    <3>1. \A c \in Cast(s) : actors'[c].by = actors[c].by
      BY <1>9, <1>10 DEF Cast, ActorStays
    <3>2. \A c \in Cast(s) \cap live[s] : OpenAt(c, end)'
      BY <1>7, <2>1, <2>5 DEF AllTold
    <3>3. \A c \in Cast(s) : OpenAt(c, end)' =>
            c \in live[s] \/ (actors'[c].by = 0 /\ s \in Terminals /\ live[s] = {})
      BY <1>7, <2>1, <2>5, <3>1 DEF AllTold
    <3> QED
      BY <1>3, <1>7, <2>3, <3>2, <3>3 DEF AllTold
  <2>7. Story(s, fin)'
    <3>1. PICK o : o = Owner(by)
      OBVIOUS
    <3>2. TopAt(s, o, fin)
      BY <1>0, <1>7, <2>1, <2>2, <3>1, TopNow
    <3>3. TopAt(s, o, fin)'
      BY <1>0, <1>3, <1>5, <1>6, <1>7, <1>10, <1>14, <3>2, TopSent
    <3>4. Owner(by)' = o
      BY <1>0, <1>4, <1>10, <1>11, <1>12, <3>1, OwnerStays
    <3>5. wire'[fin] = m
      BY <1>0, <1>7, <2>2 DEF Typing
    <3> QED
      BY <1>5, <3>3, <3>4, <3>5 DEF Story, Closes
  <2> QED
    BY <1>0, <1>3, <1>5, <1>6, <1>7, <1>10, <1>14, <2>1, <2>4, <2>6, <2>7, OwnTells
<1> QED
  BY <1>14, <1>15, <1>16 DEF Inv

-------------------------------------------------------------------------------
(* A launched run gets a terminal of its own.                              *)

LEMMA LaunchStep ==
  ASSUME Inv, NEW r \in Runs, Launch(r)
  PROVE  Inv'
<1>0. Standing /\ Typing /\ ActorsNest /\ \A z \in orderly : z \in Sessions /\ Telling(z)
  BY DEF Inv, Standing, Typing
<1>1. PICK t : t = CHOOSE x \in Unopened : TRUE
  OBVIOUS
<1>2. t \in Terminals /\ t \in Sessions /\ \A i \in 1 .. Len(actors) : actors[i].session # t
  <2>1. t \in Unopened
    BY <1>1 DEF Launch
  <2> QED
    BY <2>1 DEF Unopened, Sessions
<1>3. live[t] = {}
  BY <1>0, <1>2 DEF ActorsNest, Typing
<1>4. PICK n, now : n = Len(actors) + 1 /\ now = Now
  OBVIOUS
<1>5. Appears(t, 0, TRUE) /\ UNCHANGED <<scenario, wire, orderly>>
  BY <1>1 DEF Launch
<1>6. run' = [run EXCEPT ![r] = [run[r] EXCEPT !.status = "running", !.started = now, !.actor = n]]
  BY <1>4 DEF Launch
<1>7. /\ n \in Nat /\ n > Len(actors) /\ n \notin 1 .. Len(actors)
      /\ 1 .. Len(actors') = (1 .. Len(actors)) \cup {n} /\ Len(actors') = n
      /\ actors' \in Seq(Actors) /\ ActorsStay
      /\ actors'[n].session = t /\ actors'[n].by = 0 /\ actors'[n].cast
      /\ \A a \in 1 .. Len(actors') : a > Len(actors) => actors'[a].session = t
      /\ live' \in [Sessions -> SUBSET (1 .. Len(actors'))]
      /\ live'[t] = live[t] \cup {n} /\ \A z \in Sessions : z # t => live'[z] = live[z]
      /\ ActorsNest'
  <2>1. PICK by, cast : by = 0 /\ cast = TRUE
    OBVIOUS
  <2>2. Appears(t, by, cast) /\ by \in Nat /\ cast \in BOOLEAN /\ by = 0 /\ live[t] = {}
    BY <1>3, <1>5, <2>1
  <2>3. /\ n \in Nat /\ n > Len(actors) /\ n \notin 1 .. Len(actors)
        /\ 1 .. Len(actors') = (1 .. Len(actors)) \cup {n} /\ Len(actors') = n
        /\ actors' \in Seq(Actors) /\ ActorsStay
        /\ actors'[n].session = t /\ actors'[n].by = by /\ actors'[n].cast = cast
        /\ \A a \in 1 .. Len(actors') : a > Len(actors) => actors'[a].session = t
        /\ live' \in [Sessions -> SUBSET (1 .. Len(actors'))]
        /\ live'[t] = live[t] \cup {n} /\ \A z \in Sessions : z # t => live'[z] = live[z]
        /\ ActorsNest'
    BY <1>0, <1>2, <1>4, <2>2, Newcomer
  <2> QED
    BY <2>1, <2>3
<1>8. now \in Nat /\ \A q \in Runs : run[q].started < now
  BY <1>0, <1>4, NowIsLater DEF Standing
<1>9. run \in Seq(Rows) /\ Len(run) \in Nat /\ Len(actors) \in Nat /\ \A q \in Runs : run[q] \in Rows /\ RowStands(q)
  BY <1>0 DEF Standing, Typing, Runs
<1>10. run[r].actor = 0 /\ run[r].kind = "dispatched" /\ run[r].session = None
  BY <1>9 DEF Launch, RowStands
<1>11. Runs' = Runs /\ Len(run') = Len(run)
  BY <1>6, <1>9 DEF Runs
<1>12. /\ run'[r].status = "running" /\ run'[r].started = now /\ run'[r].actor = n
       /\ run'[r].kind = "dispatched" /\ run'[r].session = None
       /\ \A q \in Runs : q # r => run'[q] = run[q]
  <2>0. PICK v : v = [run[r] EXCEPT !.status = "running", !.started = now, !.actor = n]
    OBVIOUS
  <2>1. run' = [run EXCEPT ![r] = v]
    BY <1>6, <2>0
  <2>2. run'[r] = [run[r] EXCEPT !.status = "running", !.started = now, !.actor = n]
    <3>1. run'[r] = v
      BY <1>9, <2>1 DEF Runs
    <3> QED
      BY <2>0, <3>1
  <2>3. \A q \in Runs : q # r => run'[q] = run[q]
    BY <1>9, <2>1 DEF Runs
  <2>4. run[r] \in Rows
    BY <1>9
  <2> QED
    BY <1>10, <2>2, <2>3, <2>4 DEF Rows
<1>13. Typing'
  <2>1. [run[r] EXCEPT !.status = "running", !.started = now, !.actor = n] \in Rows
    <3>1. run[r] \in Rows
      BY <1>9
    <3> QED
      BY <1>7, <1>8, <3>1 DEF Rows
  <2>2. run' \in Seq(Rows)
    BY <1>6, <1>9, <2>1 DEF Runs
  <2> QED
    BY <1>0, <1>5, <1>7, <2>2 DEF Typing
<1>14. ASSUME NEW q \in Runs, q # r
       PROVE  /\ Where(q)' = Where(q) /\ Where(q) # t
              /\ run'[q] = run[q] /\ run[q].actor \in Nat /\ run[q].actor < n
  <2>1. run'[q] = run[q] /\ run[q] \in Rows /\ RowStands(q)
    BY <1>9, <1>12, <1>14
  <2>2. Where(q)' = Where(q)
    BY <1>0, <1>7, <2>1, WhereStays
  <2>3. run[q].actor \in Nat /\ run[q].actor <= Len(actors)
    BY <1>9, <2>1 DEF Rows, RowStands
  <2>4. Where(q) # t
    BY <1>2, <1>9, <2>3, NoneIsNoSession DEF Where
  <2> QED
    BY <1>7, <1>9, <2>1, <2>2, <2>3, <2>4
<1>15. Where(r)' = t
  BY <1>7, <1>12 DEF Where
<1>16. RowsOrdered'
  <2> SUFFICES ASSUME NEW p \in Runs, NEW q \in Runs, run'[p].actor # 0, run'[q].actor # 0
               PROVE  /\ run'[p].actor = run'[q].actor => p = q
                      /\ Where(p)' = Where(q)' /\ run'[p].actor < run'[q].actor => run'[p].started < run'[q].started
    BY <1>11 DEF RowsOrdered
  <2>1. CASE p # r /\ q # r
    <3>1. run'[p] = run[p] /\ run'[q] = run[q] /\ Where(p)' = Where(p) /\ Where(q)' = Where(q)
      BY <1>14, <2>1
    <3>2. run[p].actor # 0 /\ run[q].actor # 0
      BY <3>1
    <3>3. /\ run[p].actor = run[q].actor => p = q
          /\ Where(p) = Where(q) /\ run[p].actor < run[q].actor => run[p].started < run[q].started
      BY <1>0, <3>2 DEF Standing, RowsOrdered
    <3> QED
      BY <3>1, <3>3
  <2>2. CASE p = r /\ q # r
    <3>1. run'[q].actor < n /\ run'[q].actor \in Nat /\ Where(q)' # t
      BY <1>14, <2>2
    <3> QED
      BY <1>7, <1>12, <1>15, <2>2, <3>1
  <2>3. CASE q = r /\ p # r
    <3>1. run'[p].actor < n /\ run'[p].actor \in Nat /\ Where(p)' # t
      BY <1>14, <2>3
    <3> QED
      BY <1>7, <1>12, <1>15, <2>3, <3>1
  <2>4. CASE p = r /\ q = r
    BY <1>7, <1>12, <2>4
  <2> QED
    BY <2>1, <2>2, <2>3, <2>4
<1>17. Timed'
  <2>1. ASSUME NEW q \in Runs'
        PROVE  run'[q].started <= now
    <3>1. CASE q = r
      BY <1>8, <1>12, <3>1
    <3>2. CASE q # r
      <4>1. run'[q] = run[q] /\ run[q] \in Rows /\ run[q].started < now
        BY <1>8, <1>9, <1>11, <1>12, <3>2
      <4> QED
        BY <1>8, <4>1 DEF Rows
    <3> QED
      BY <3>1, <3>2
  <2> QED
    BY <1>8, <2>1 DEF Timed
<1>18. ASSUME NEW q \in Runs'
       PROVE  RowStands(q)'
  <2>1. CASE q # r
    <3>1. q \in Runs /\ run'[q] = run[q] /\ RowStays(q)
      BY <1>11, <1>12, <2>1 DEF RowStays
    <3>2. run[q].actor = 0 => run[q].status # "running"
      BY <1>9, <3>1 DEF RowStands
    <3> QED
      BY <1>0, <1>7, <3>1, <3>2, RowKept
  <2>2. CASE q = r
    <3>1. n <= Len(actors') /\ n # 0
      BY <1>7
    <3> QED
      BY <1>2, <1>7, <1>12, <1>15, <2>2, <3>1 DEF RowStands
  <2> QED
    BY <2>1, <2>2
<1>19. /\ Len(wire) \in Nat /\ Len(wire') = Len(wire) /\ wire' = wire
       /\ \A j \in 1 .. Len(wire') : j + 0 \in 1 .. Len(wire) /\ wire'[j] = wire[j + 0] /\ j + 0 = j
  BY <1>0, <1>5 DEF Typing
<1>20. \A i \in 1 .. Len(wire) : wire[i].s # t /\ wire[i].a \in 1 .. Len(actors)
  BY <1>0, <1>2 DEF Standing, PostStands
<1>21. PostsOrdered' /\ \A j \in 1 .. Len(wire') : PostStands(j)'
  <2>1. ASSUME NEW i \in 1 .. Len(wire'), NEW q \in Runs', Opens(i)', run'[q].actor # 0, Where(q)' = wire'[i].s
        PROVE  run'[q].actor < wire'[i].a
    <3>1. q # r
      BY <1>15, <1>19, <1>20, <2>1
    <3>2. q \in Runs /\ run'[q] = run[q] /\ Where(q)' = Where(q)
      BY <1>11, <1>14, <3>1
    <3> QED
      BY <1>0, <1>19, <2>1, <3>2 DEF Standing, PostsOrdered, Opens
  <2> QED
    BY <1>0, <1>7, <1>13, <1>19, <2>1, PostsKept DEF PostsOrdered
<1>22. Standing'
  BY <1>7, <1>13, <1>16, <1>17, <1>18, <1>21 DEF Standing
<1>23. PICK fin : fin = Len(wire) + 1
  OBVIOUS
<1>24. ASSUME NEW z \in orderly', z # t
       PROVE  Telling(z)'
  <2>1. z \in Sessions /\ Telling(z)
    BY <1>0, <1>5, <1>24
  <2>2. \A c \in Cast(z) : c \in 1 .. Len(actors) /\ c # n /\ c # 0
    BY <1>7, <1>9 DEF Cast
  <2>3. SessionsStay(z)
    BY <1>11, <1>12, <2>2 DEF SessionsStay
  <2>4. ASSUME NEW q \in Runs', Where(q)' = z
        PROVE  Attributed(q)'
    <3>1. q \in Runs /\ q # r
      BY <1>11, <1>15, <1>24, <2>4
    <3>2. run'[q] = run[q] /\ Where(q) = z
      BY <1>14, <2>4, <3>1
    <3>3. Attributed(q) /\ run[q].actor # 0
      BY <2>1, <3>1, <3>2, LocatedRow DEF Telling
    <3>4. ActorsOfRowsStay
      BY <1>10, <1>11, <1>12 DEF ActorsOfRowsStay
    <3> QED
      BY <1>0, <1>7, <1>22, <3>1, <3>2, <3>3, <3>4, AttributedStays
  <2>5. \A c \in Cast(z) : Running(c)' <=> Running(c)
    BY <1>10, <1>11, <1>12, <2>2 DEF Running
  <2>6. \A c \in Cast(z) : \A i \in 1 .. Len(wire) + 1 : OpenAt(c, i)' <=> OpenAt(c, i)
    BY <1>0, <1>19, <2>5, OpenStays
  <2>7. \A c \in Cast(z), j \in 1 .. Len(wire') : OpenAt(c, j)' <=> OpenAt(c, j + 0)
    BY <1>19, <2>6
  <2>8. \A c \in Cast(z) : OpenAt(c, fin)' <=> OpenAt(c, fin)
    BY <1>19, <1>23, <2>6
  <2>9. fin = Len(wire') + 1 /\ 0 \in Nat /\ live'[z] = live[z]
    BY <1>7, <1>19, <1>23, <1>24, <2>1
  <2>10. \A a \in 1 .. Len(actors') : a > Len(actors) => actors'[a].session # z
    BY <1>7, <1>24
  <2> QED
    BY <1>0, <1>7, <1>19, <1>22, <1>23, <2>1, <2>3, <2>4, <2>7, <2>8, <2>9, <2>10, TellingStays
<1>25. ASSUME t \in orderly'
       PROVE  Telling(t)'
  <2>1. Chain(t)
    BY <1>3 DEF Chain
  <2>2. Chain(t)' /\ Cast(t)' = Cast(t) \cup {n}
    BY <1>0, <1>2, <1>3, <1>4, <1>5, <1>22, <2>1, NewcomerChain
  <2>3. Cast(t)' = {n} /\ live'[t] = {n}
    BY <1>2, <1>3, <1>7, <2>2 DEF Cast
  <2>4. OpenAt(n, fin)'
    <3>1. Running(n)'
      BY <1>11, <1>12 DEF Running
    <3>2. \A k \in 1 .. Len(wire') : wire'[k].a # n
      BY <1>7, <1>19, <1>20
    <3> QED
      BY <3>1, <3>2 DEF OpenAt
  <2>5. AllTold(t)'
    <3>1. fin = Len(wire') + 1
      BY <1>19, <1>23
    <3> QED
      BY <2>3, <2>4, <3>1 DEF AllTold
  <2>6. ASSUME NEW q \in Runs', Where(q)' = t
        PROVE  Attributed(q)'
    <3>1. q = r
      BY <1>11, <1>14, <2>6
    <3> QED
      BY <1>12, <3>1 DEF Attributed
  <2>7. \A i \in 1 .. Len(wire') : wire'[i].s # t
    BY <1>19, <1>20
  <2> QED
    BY <2>2, <2>5, <2>6, <2>7 DEF Telling
<1> QED
  BY <1>22, <1>24, <1>25 DEF Inv

-------------------------------------------------------------------------------
(* The invariant holds, and the property follows from it.                  *)

LEMMA InitInv ==
  ASSUME Init
  PROVE  Inv
<1>1. /\ scenario \in Scenarios /\ run = <<>> /\ actors = <<>> /\ wire = <<>>
      /\ live = [s \in Sessions |-> {}] /\ orderly = Sessions
  BY DEF Init
<1>2. Runs = {} /\ 1 .. Len(actors) = {} /\ 1 .. Len(wire) = {}
  BY <1>1 DEF Runs
<1>3. Typing
  BY <1>1 DEF Typing
<1>4. Standing
  BY <1>1, <1>2, <1>3 DEF Standing, ActorsNest, RowsOrdered, PostsOrdered, Timed
<1>5. ASSUME NEW s \in Sessions
      PROVE  Telling(s)
  <2>1. live[s] = {} /\ Cast(s) = {}
    BY <1>1, <1>2 DEF Cast
  <2> QED
    BY <1>2, <2>1 DEF Telling, Chain, AllTold
<1> QED
  BY <1>1, <1>4, <1>5 DEF Inv

LEMMA NextInv ==
  ASSUME Inv, [Next]_vars
  PROVE  Inv'
<1>1. CASE Hooks
  <2>1. CASE \E s \in scenario.sessions, cast \in BOOLEAN : UserPromptStart(s, cast)
    BY <2>1, UserPromptStartStep
  <2>2. CASE \E s \in UserSessions : UserPromptStop(s)
    BY <2>2, UserPromptStopStep
  <2>3. ASSUME NEW s \in Sessions, NEW a \in live[s], NEW cast \in BOOLEAN, SubagentStart(s, a, cast)
        PROVE  Inv'
    BY <2>3, SubagentStartStep
  <2>4. ASSUME NEW s \in Sessions, NEW a \in live[s], SubagentStop(s, a)
        PROVE  Inv'
    BY <2>4, SubagentStopStep
  <2>5. ASSUME NEW s \in Sessions, NEW a \in live[s], SkillInvoke(s, a)
        PROVE  Inv'
    BY <2>5, SkillInvokeStep
  <2> QED
    BY <1>1, <2>1, <2>2, <2>3, <2>4, <2>5 DEF Hooks
<1>2. CASE Serves
  BY <1>2, OpenCommandStep, CloseCommandsStep, OpenSubagentStep, CloseSubagentStep, RecordSkillStep DEF Serves
<1>3. CASE HourPasses
  BY <1>3, HourPassesStep
<1>4. CASE Restart
  BY <1>4, RestartStep
<1>5. ASSUME NEW parent \in 0 .. Len(run), NEW g \in scenario.agents, TriggerAgent(parent, g)
      PROVE  Inv'
  BY <1>5, TriggerAgentStep
<1>6. ASSUME NEW r \in Runs, Dispatched(r)
      PROVE  Inv'
  <2>1. ASSUME NEW kind \in scenario.writes, ChildWrites(r, kind)
        PROVE  Inv'
    <3>1. UNCHANGED <<scenario, run, actors, live, wire, orderly>>
      BY <2>1 DEF ChildWrites, server, claude
    <3> QED
      BY <3>1, IdleStep
  <2> QED
    BY <1>6, <2>1, RefuseStep, LaunchStep, DiscoverSessionStep, FinalizeStep, StuckStep DEF Dispatched
<1>7. ASSUME NEW r \in Runs, FailRun(r) \/ DeleteRun(r)
      PROVE  Inv'
  BY <1>7, FailRunStep, DeleteRunStep
<1>8. ASSUME NEW r \in Runs, PollStep(r) \/ ParentGone(r)
      PROVE  Inv'
  <2>1. UNCHANGED <<scenario, run, actors, live, wire, orderly>>
    BY <1>8 DEF PollStep, ParentGone, server, claude
  <2> QED
    BY <2>1, IdleStep
<1>9. ASSUME NEW t \in Terminals, TerminalEnds(t)
      PROVE  Inv'
  BY <1>9, TerminalEndsStep
<1>10. ASSUME NEW g \in Agents, ResolveMemory(g)
       PROVE  Inv'
  <2>1. UNCHANGED <<scenario, run, actors, live, wire, orderly>>
    BY <1>10 DEF ResolveMemory, claude
  <2> QED
    BY <2>1, IdleStep
<1>11. CASE UNCHANGED vars
  <2>1. UNCHANGED <<scenario, run, actors, live, wire, orderly>>
    BY <1>11 DEF vars
  <2> QED
    BY <2>1, IdleStep
<1> QED
  BY <1>1, <1>2, <1>3, <1>4, <1>5, <1>6, <1>7, <1>8, <1>9, <1>10, <1>11 DEF Next

LEMMA InvImplies ==
  ASSUME Inv
  PROVE  AttributedToItsActor
<1>1. SUFFICES ASSUME NEW r \in Runs, Where(r) \in orderly, run[r].kind # "dispatched"
               PROVE  LET a == run[r].actor IN
                      /\ run[r].kind = "subagent" => run[r].parent = RowOf(Owner(actors[a].by))
                      /\ run[r].skills \subseteq {a}
                      /\ run[r].status = "running" <=>
                            \/ a \in live[Where(r)]
                            \/ \E i \in 1 .. Len(wire) : wire[i].op \in {"done", "stop"} /\ wire[i].a = a
  BY DEF AttributedToItsActor
<1>2. PICK s, a : s = Where(r) /\ a = run[r].actor
  OBVIOUS
<1>3. Standing /\ Typing /\ s \in Sessions /\ Telling(s)
  BY <1>1, <1>2 DEF Inv, Standing, Typing
<1>4. a # 0 /\ RowStands(r)
  BY <1>1, <1>2, <1>3, LocatedRow DEF Standing
<1>5. a \in 1 .. Len(actors) /\ actors[a].session = s /\ actors[a].cast
  <2>1. run[r] \in Rows
    BY <1>3 DEF Typing, Runs
  <2>2. a \in Nat /\ Len(actors) \in Nat
    BY <1>2, <1>3, <2>1 DEF Rows, Typing
  <2> QED
    BY <1>2, <1>4, <2>2 DEF RowStands, Where
<1>6. a \in Cast(s)
  BY <1>5 DEF Cast
<1>7. \A p, q \in Runs : run[p].actor # 0 /\ run[q].actor = run[p].actor => q = p
  BY <1>3 DEF Standing, RowsOrdered
<1>8. Running(a) <=> run[r].status = "running"
  BY <1>2, <1>4, <1>7 DEF Running
<1>9. Attributed(r) /\ AllTold(s)
  BY <1>2, <1>3 DEF Telling
<1>10. ASSUME run[r].kind = "subagent"
       PROVE  run[r].parent = RowOf(Owner(actors[a].by))
  <2>1. PICK o, p : o = Owner(actors[a].by) /\ p = run[r].parent
    OBVIOUS
  <2>2. IF o = 0 THEN p = 0 ELSE p \in Runs /\ run[p].actor = o
    BY <1>2, <1>4, <1>9, <1>10, <2>1 DEF Attributed
  <2>3. CASE o = 0
    BY <2>1, <2>2, <2>3 DEF RowOf
  <2>4. CASE o # 0
    <3>1. \A q \in Runs : run[q].actor = o => q = p
      BY <1>7, <2>2, <2>4
    <3> QED
      BY <2>1, <2>2, <2>4, <3>1 DEF RowOf
  <2> QED
    BY <2>3, <2>4
<1>11. run[r].skills \subseteq {a}
  BY <1>1, <1>2, <1>4, <1>9 DEF Attributed
<1>12. \A i \in 1 .. Len(wire) : wire[i].a = a => wire[i].s = s /\ Story(s, i)
  <2>1. \A i \in 1 .. Len(wire) : PostStands(i)
    BY <1>3 DEF Standing
  <2> QED
    BY <1>3, <1>5, <2>1 DEF PostStands, Telling
<1>13. \A k \in 1 .. Len(wire) : Opens(k) => wire[k].a # a
  <2> SUFFICES ASSUME NEW k \in 1 .. Len(wire), Opens(k), wire[k].a = a
               PROVE  FALSE
    OBVIOUS
  <2>1. Where(r) = wire[k].s
    BY <1>2, <1>12
  <2>2. run[r].actor < wire[k].a
    BY <1>2, <1>3, <1>4, <2>1 DEF Standing, PostsOrdered
  <2> QED
    BY <1>2, <1>5, <2>2
<1>14. \A i : OpenAt(a, i) => run[r].status = "running"
  BY <1>8, <1>13 DEF OpenAt
<1>15. ASSUME run[r].status = "running", ~ \E i \in 1 .. Len(wire) : Closes(i) /\ wire[i].a = a
       PROVE  a \in live[s]
  <2>1. OpenAt(a, Len(wire) + 1)
    BY <1>8, <1>15 DEF OpenAt
  <2>2. a \in live[s] \/ (actors[a].by = 0 /\ s \in Terminals)
    BY <1>6, <1>9, <2>1 DEF AllTold
  <2>3. actors[a].by = 0 => s \in UserSessions
    <3>1. run[r] \in Rows
      BY <1>3 DEF Typing, Runs
    <3> QED
      BY <1>1, <1>2, <1>4, <3>1 DEF RowStands, Rows
  <2> QED
    BY <2>2, <2>3, DelegationAssumption
<1>16. ASSUME a \in live[s]
       PROVE  run[r].status = "running"
  BY <1>6, <1>9, <1>14, <1>16 DEF AllTold
<1>17. ASSUME NEW i \in 1 .. Len(wire), Closes(i), wire[i].a = a
       PROVE  run[r].status = "running"
  BY <1>5, <1>12, <1>14, <1>17 DEF Story
<1> QED
  BY <1>2, <1>10, <1>11, <1>15, <1>16, <1>17 DEF Closes

\* In every state rows, actors and posts stand as Standing says, and the orderly sessions tell
\* their story as Telling says, under every action of the hooks, the server and the dispatcher.
THEOREM InvHolds == Spec => []Inv
<1>1. Init => Inv
  BY InitInv
<1>2. Inv /\ [Next]_vars => Inv'
  BY NextInv
<1> QED
  BY <1>1, <1>2, PTL DEF Spec

\* Whatever is lost, ends early or is late in other sessions, a session whose posts told the
\* whole story is shown as it was: subagents under the row of the agent that started them,
\* skills on the row of the agent that used them, and rows running while their actors do
\* (subagent_invocation_service, user_invocation_service, hook_handlers).
THEOREM RowsTellWhoWorks == Spec => []AttributedToItsActor
<1>1. Spec => []Inv
  BY InvHolds
<1>2. Inv => AttributedToItsActor
  BY InvImplies
<1> QED
  BY <1>1, <1>2, PTL

-------------------------------------------------------------------------------
(* Sums over a finite set: they count the members of sets that are apart.  *)

LEMMA SmallestSubset ==
  ASSUME NEW T, IsFiniteSet(T), NEW Q, Q \subseteq SUBSET T, Q # {}
  PROVE  \E s \in Q : IsFiniteSet(s) /\ \A x \in s : s \ {x} \notin Q
<1>1. \A s \in Q : IsFiniteSet(s) /\ Cardinality(s) \in Nat
  BY FS_Subset, FS_CardinalityType
<1> DEFINE sizes == {Cardinality(s) : s \in Q}
<1>2. sizes \subseteq Nat /\ sizes # {}
  BY <1>1
<1>3. PICK n \in sizes : \A m \in sizes : n <= m
  BY <1>2, LeastNat
<1>4. PICK s \in Q : n = Cardinality(s)
  BY <1>3
<1>5. ASSUME NEW x \in s
      PROVE  s \ {x} \notin Q
  <2>1. Cardinality(s \ {x}) = Cardinality(s) - 1 /\ Cardinality(s) \in Nat
    BY <1>1, FS_RemoveElement
  <2>2. s \ {x} \in Q => Cardinality(s \ {x}) \in sizes
    OBVIOUS
  <2>3. s \ {x} \in Q => Cardinality(s) <= Cardinality(s \ {x})
    BY <1>3, <1>4, <2>2
  <2> HIDE DEF sizes
  <2> QED
    BY <2>1, <2>3
<1> QED
  BY <1>1, <1>5

OneOf(s) == CHOOSE x \in s : TRUE

Adding(f, S) == CHOOSE sum : sum = [s \in SUBSET S |->
    IF s = {} THEN 0 ELSE f[OneOf(s)] + sum[s \ {OneOf(s)}]]

LEMMA SumIsAdding ==
  ASSUME NEW f
  PROVE  SumFunction(f) = Adding(f, DOMAIN f)[DOMAIN f]
BY DEF SumFunction, SumFunctionOnSet, FoldFunctionOnSet, MapThenFoldSet, Adding, OneOf

LEMMA AddingExists ==
  ASSUME NEW S, IsFiniteSet(S), NEW f
  PROVE  \A s \in SUBSET S : Adding(f, S)[s] =
           IF s = {} THEN 0 ELSE f[OneOf(s)] + Adding(f, S)[s \ {OneOf(s)}]
<1> DEFINE Step(h, s) == IF s = {} THEN 0 ELSE f[OneOf(s)] + h[s \ {OneOf(s)}]
           upto(n) == {s \in SUBSET S : Cardinality(s) <= n}
           Upto(n) == \E h : h = [s \in upto(n) |-> Step(h, s)]
           missing == {n \in Nat : ~Upto(n)}
<1>1. \A s \in SUBSET S : IsFiniteSet(s) /\ Cardinality(s) \in Nat /\ Cardinality(s) <= Cardinality(S)
  BY FS_Subset, FS_CardinalityType
<1>2. \A s \in SUBSET S : s # {} =>
         /\ s \ {OneOf(s)} \in SUBSET S
         /\ Cardinality(s \ {OneOf(s)}) = Cardinality(s) - 1
  <2> SUFFICES ASSUME NEW s \in SUBSET S, s # {}
               PROVE  Cardinality(s \ {OneOf(s)}) = Cardinality(s) - 1
    OBVIOUS
  <2>1. OneOf(s) \in s
    BY DEF OneOf
  <2> QED
    BY <1>1, <2>1, FS_RemoveElement
<1>3. Upto(0)
  <2>1. upto(0) = {{}}
    <3>1. \A s \in SUBSET S : Cardinality(s) <= 0 <=> s = {}
      BY <1>1, FS_EmptySet
    <3> QED
      BY <3>1
  <2>2. [s \in {{}} |-> 0] = [s \in upto(0) |-> Step([t \in {{}} |-> 0], s)]
    BY <2>1
  <2> QED
    BY <2>2
<1>4. ASSUME NEW n \in Nat, Upto(n)
      PROVE  Upto(n + 1)
  <2>1. PICK h : h = [s \in upto(n) |-> Step(h, s)]
    BY <1>4
  <2> DEFINE g == [s \in upto(n + 1) |-> IF s \in upto(n) THEN h[s] ELSE Step(h, s)]
  <2>2. ASSUME NEW s \in upto(n + 1)
        PROVE  g[s] = Step(g, s)
    <3>1. CASE s = {}
      BY <2>1, <3>1
    <3>2. CASE s # {}
      <4>1. PICK less : less = s \ {OneOf(s)}
        OBVIOUS
      <4>2. less \in SUBSET S /\ Cardinality(less) = Cardinality(s) - 1 /\ Cardinality(s) \in Nat
        BY <1>1, <1>2, <3>2, <4>1
      <4>3. less \in upto(n) /\ less \in upto(n + 1)
        BY <4>2
      <4>4. g[less] = h[less]
        BY <4>3
      <4>5. g[s] = Step(h, s)
        BY <2>1
      <4> QED
        BY <4>1, <4>4, <4>5
    <3> QED
      BY <3>1, <3>2
  <2>3. g = [s \in upto(n + 1) |-> Step(g, s)]
    <3> HIDE DEF upto, Step
    <3> QED
      BY <2>2
  <2> QED
    BY <2>3
<1>5. missing = {}
  <2> SUFFICES ASSUME missing # {} PROVE FALSE
    OBVIOUS
  <2>1. PICK n \in missing : \A m \in missing : n <= m
    BY LeastNat
  <2> HIDE DEF Upto
  <2>2. n \in Nat /\ ~Upto(n)
    BY <2>1
  <2>3. n # 0
    BY <1>3, <2>2
  <2>4. n - 1 \in Nat /\ n - 1 \notin missing /\ (n - 1) + 1 = n
    <3>1. n - 1 \in Nat /\ ~(n <= n - 1) /\ (n - 1) + 1 = n
      BY <2>2, <2>3
    <3> HIDE DEF missing
    <3> QED
      BY <2>1, <3>1
  <2>5. Upto(n - 1)
    BY <2>4
  <2> QED
    BY <1>4, <2>2, <2>4, <2>5
<1>6. PICK h : h = [s \in upto(Cardinality(S)) |-> Step(h, s)]
  <2>1. Cardinality(S) \in Nat
    BY FS_CardinalityType
  <2> QED
    BY <1>5, <2>1
<1>7. upto(Cardinality(S)) = SUBSET S
  BY <1>1
<1>8. h = [s \in SUBSET S |-> Step(h, s)]
  <2> HIDE DEF upto, Step
  <2> QED
    BY <1>6, <1>7
<1> HIDE DEF upto, Upto, missing
<1>9. Adding(f, S) = [s \in SUBSET S |-> Step(Adding(f, S), s)]
  BY <1>8 DEF Adding
<1> QED
  BY <1>9

LEMMA SumIsCardinality ==
  ASSUME NEW T, IsFiniteSet(T), NEW f, DOMAIN f = T, NEW parts,
         \A c \in T : IsFiniteSet(parts[c]) /\ f[c] = Cardinality(parts[c]),
         \A c, d \in T : c # d => parts[c] \cap parts[d] = {}
  PROVE  /\ IsFiniteSet(UNION {parts[c] : c \in T})
         /\ SumFunction(f) = Cardinality(UNION {parts[c] : c \in T})
<1>0. \A s \in SUBSET T : Adding(f, T)[s] =
        IF s = {} THEN 0 ELSE f[OneOf(s)] + Adding(f, T)[s \ {OneOf(s)}]
  BY AddingExists
<1> DEFINE whole(s) == UNION {parts[c] : c \in s}
           odd == {s \in SUBSET T : ~(IsFiniteSet(whole(s)) /\ Adding(f, T)[s] = Cardinality(whole(s)))}
<1>1. odd = {}
  <2> SUFFICES ASSUME odd # {} PROVE FALSE
    OBVIOUS
  <2>1. PICK s \in odd : IsFiniteSet(s) /\ \A x \in s : s \ {x} \notin odd
    <3>1. odd \subseteq SUBSET T
      OBVIOUS
    <3> HIDE DEF odd
    <3> QED
      BY <3>1, SmallestSubset
  <2>2. s \in SUBSET T /\ ~(IsFiniteSet(whole(s)) /\ Adding(f, T)[s] = Cardinality(whole(s)))
    BY <2>1
  <2>3. Adding(f, T)[s] = IF s = {} THEN 0
                          ELSE f[OneOf(s)] + Adding(f, T)[s \ {OneOf(s)}]
    BY <1>0, <2>2
  <2>4. s # {}
    <3>1. s = {} => whole(s) = {}
      OBVIOUS
    <3> QED
      BY <2>2, <2>3, <3>1, FS_EmptySet
  <2>5. PICK x : x = OneOf(s)
    OBVIOUS
  <2>6. x \in s /\ x \in T
    BY <2>2, <2>4, <2>5 DEF OneOf
  <2>7. s \ {x} \in SUBSET T /\ s \ {x} \notin odd
    BY <2>1, <2>2, <2>6
  <2>8. IsFiniteSet(whole(s \ {x})) /\ Adding(f, T)[s \ {x}] = Cardinality(whole(s \ {x}))
    BY <2>7
  <2>9. whole(s) = whole(s \ {x}) \cup parts[x]
    BY <2>6
  <2>10. whole(s \ {x}) \cap parts[x] = {}
    BY <2>2, <2>6
  <2>11. IsFiniteSet(parts[x]) /\ f[x] = Cardinality(parts[x])
    BY <2>6
  <2> HIDE DEF whole, odd
  <2>12. /\ IsFiniteSet(whole(s \ {x}) \cup parts[x])
         /\ Cardinality(whole(s \ {x}) \cup parts[x]) = Cardinality(whole(s \ {x})) + Cardinality(parts[x]) - Cardinality({})
    <3>1. PICK rest, part : rest = whole(s \ {x}) /\ part = parts[x]
      OBVIOUS
    <3>2. IsFiniteSet(rest) /\ IsFiniteSet(part) /\ rest \cap part = {}
      BY <2>8, <2>10, <2>11, <3>1
    <3>3. /\ IsFiniteSet(rest \cup part)
          /\ Cardinality(rest \cup part) = Cardinality(rest) + Cardinality(part) - Cardinality(rest \cap part)
      BY <3>2, FS_Union
    <3> QED
      BY <3>1, <3>2, <3>3
  <2>13. Cardinality({}) = 0 /\ Cardinality(whole(s \ {x})) \in Nat /\ Cardinality(parts[x]) \in Nat
    BY <2>8, <2>11, FS_EmptySet, FS_CardinalityType
  <2>14. Adding(f, T)[s] = Cardinality(parts[x]) + Cardinality(whole(s \ {x}))
    BY <2>3, <2>4, <2>5, <2>8, <2>11
  <2> QED
    BY <2>2, <2>9, <2>12, <2>13, <2>14
<1>2. IsFiniteSet(whole(T)) /\ Adding(f, T)[T] = Cardinality(whole(T))
  BY <1>1
<1> QED
  BY <1>2, SumIsAdding

-------------------------------------------------------------------------------
(* The forest: a parent is older than its children, so whoever climbs gets *)
(* to a root, or to a row that was deleted.                                *)

Forest == \A r \in Runs : run[r].parent < r

LEMMA ParentIsOlder ==
  ASSUME Typing, Forest
  PROVE  /\ Len(run) \in Nat
         /\ \A r \in Runs : r \in Nat /\ r # 0 /\ run[r].parent \in 0 .. Len(run) /\ run[r].parent < r
         /\ \A r \in Runs : run[r].parent \in Runs <=> run[r].parent # 0
<1>1. Len(run) \in Nat /\ \A r \in Runs : r \in 1 .. Len(run) /\ run[r] \in Rows /\ run[r].parent < r
  BY DEF Typing, Forest, Runs
<1>2. \A r \in Runs : run[r].parent \in Nat
  BY <1>1 DEF Rows
<1> QED
  BY <1>1, <1>2 DEF Runs

\* A number defined along a way down exists.
Climbs(f, n, stops, base, up, k) ==
    \A x \in 0 .. n : f[x] = IF x \in stops THEN base[x] ELSE k + f[up[x]]

LEMMA ClimbExists ==
  ASSUME NEW n \in Nat, NEW stops, NEW base, NEW up, NEW k \in Nat,
         \A x \in 0 .. n : x \in stops => base[x] \in Nat,
         \A x \in 0 .. n : x \notin stops => up[x] \in Nat /\ up[x] < x
  PROVE  \E f \in [0 .. n -> Nat] : Climbs(f, n, stops, base, up, k)
<1> DEFINE Step(f, x) == IF x \in stops THEN base[x] ELSE k + f[up[x]]
           Upto(m) == \E f \in [0 .. m -> Nat] : \A x \in 0 .. m : f[x] = Step(f, x)
           missing == {m \in 0 .. n : ~Upto(m)}
<1>1. Upto(0)
  <2>1. 0 \in stops /\ base[0] \in Nat
    OBVIOUS
  <2>2. [x \in 0 .. 0 |-> base[0]] \in [0 .. 0 -> Nat]
    BY <2>1
  <2>3. \A x \in 0 .. 0 : [y \in 0 .. 0 |-> base[0]][x] = Step([y \in 0 .. 0 |-> base[0]], x)
    BY <2>1
  <2> QED
    BY <2>2, <2>3
<1>2. ASSUME NEW m \in 0 .. n, m < n, Upto(m)
      PROVE  Upto(m + 1)
  <2>1. PICK f \in [0 .. m -> Nat] : \A x \in 0 .. m : f[x] = Step(f, x)
    BY <1>2
  <2> DEFINE g == [x \in 0 .. m + 1 |-> IF x <= m THEN f[x] ELSE Step(f, x)]
  <2>2. \A x \in 0 .. m + 1 : x \notin stops => up[x] \in 0 .. m /\ up[x] \in 0 .. m + 1 /\ f[up[x]] \in Nat
    BY <1>2
  <2>3. \A x \in 0 .. m + 1 : Step(f, x) \in Nat
    BY <1>2, <2>2
  <2>4. g \in [0 .. m + 1 -> Nat]
    <3>1. \A x \in 0 .. m + 1 : x <= m => f[x] \in Nat
      BY <1>2
    <3> QED
      BY <2>3, <3>1
  <2>5. ASSUME NEW x \in 0 .. m + 1
        PROVE  g[x] = Step(g, x)
    <3>1. x \notin stops => g[up[x]] = f[up[x]]
      BY <2>2
    <3>2. g[x] = Step(f, x)
      BY <1>2, <2>1
    <3> QED
      BY <3>1, <3>2
  <2> QED
    BY <2>4, <2>5
<1>3. missing = {}
  <2> SUFFICES ASSUME missing # {} PROVE FALSE
    OBVIOUS
  <2>0. missing \subseteq Nat
    OBVIOUS
  <2>1. PICK m \in missing : \A y \in missing : m <= y
    BY <2>0, LeastNat
  <2> HIDE DEF Upto
  <2>2. m \in Nat /\ m <= n /\ m # 0 /\ ~Upto(m)
    BY <1>1, <2>1
  <2>3. m - 1 \in 0 .. n /\ m - 1 < n /\ m - 1 \notin missing /\ (m - 1) + 1 = m
    <3>1. m - 1 \in 0 .. n /\ m - 1 < n /\ ~(m <= m - 1) /\ (m - 1) + 1 = m
      BY <2>2
    <3> HIDE DEF missing
    <3> QED
      BY <2>1, <3>1
  <2>4. Upto(m - 1)
    BY <2>3
  <2> QED
    BY <1>2, <2>2, <2>3, <2>4
<1> QED
  BY <1>3 DEF Climbs

Rooted == CHOOSE up : up = [x \in 0 .. Len(run) |->
    IF ~Exists(x) THEN 0 ELSE IF run[x].parent = 0 THEN x ELSE up[run[x].parent]]

LEMMA RootStep ==
  ASSUME Typing, Forest, NEW x \in 0 .. Len(run)
  PROVE  RootOf(x) = IF ~Exists(x) THEN 0 ELSE IF run[x].parent = 0 THEN x ELSE RootOf(run[x].parent)
<1> DEFINE stops == {y \in 0 .. Len(run) : ~Exists(y) \/ run[y].parent = 0}
           base == [y \in 0 .. Len(run) |-> IF ~Exists(y) THEN 0 ELSE y]
           up == [y \in 0 .. Len(run) |-> run[y].parent]
<1>1. \E f \in [0 .. Len(run) -> Nat] :
         \A y \in 0 .. Len(run) : f[y] = IF y \in stops THEN base[y] ELSE 0 + f[up[y]]
  <2>1. Len(run) \in Nat /\ \A y \in 0 .. Len(run) : base[y] \in Nat
    BY ParentIsOlder
  <2>2. \A y \in 0 .. Len(run) : y \notin stops => up[y] \in Nat /\ up[y] < y
    BY ParentIsOlder DEF Exists
  <2> HIDE DEF stops, base, up
  <2>3. PICK n \in Nat, k \in Nat : n = Len(run) /\ k = 0
    BY <2>1
  <2>4. /\ \A y \in 0 .. n : y \in stops => base[y] \in Nat
        /\ \A y \in 0 .. n : y \notin stops => up[y] \in Nat /\ up[y] < y
    BY <2>1, <2>2, <2>3
  <2>5. \E f \in [0 .. n -> Nat] : Climbs(f, n, stops, base, up, k)
    BY <2>4, ClimbExists
  <2> QED
    BY <2>3, <2>5 DEF Climbs
<1>2. PICK f \in [0 .. Len(run) -> Nat] :
         \A y \in 0 .. Len(run) : f[y] = IF y \in stops THEN base[y] ELSE 0 + f[up[y]]
  BY <1>1
<1>3. ASSUME NEW y \in 0 .. Len(run)
      PROVE  f[y] = IF ~Exists(y) THEN 0 ELSE IF run[y].parent = 0 THEN y ELSE f[run[y].parent]
  <2>1. y \notin stops => f[run[y].parent] \in Nat
    BY ParentIsOlder DEF Exists
  <2> QED
    BY <1>2, <2>1
<1>4. f = [y \in 0 .. Len(run) |->
              IF ~Exists(y) THEN 0 ELSE IF run[y].parent = 0 THEN y ELSE f[run[y].parent]]
  BY <1>3
<1> HIDE DEF stops, base, up
<1>5. Rooted = [y \in 0 .. Len(run) |->
              IF ~Exists(y) THEN 0 ELSE IF run[y].parent = 0 THEN y ELSE Rooted[run[y].parent]]
  BY <1>4 DEF Rooted
<1>6. \A y : RootOf(y) = Rooted[y]
  BY DEF RootOf, Rooted
<1> QED
  BY <1>5, <1>6

Heights == CHOOSE n : n = [x \in 0 .. Len(run) |->
    IF ~Exists(x) \/ run[x].parent = 0 THEN 0 ELSE 1 + n[run[x].parent]]

LEMMA StepsStep ==
  ASSUME Typing, Forest, NEW x \in 0 .. Len(run)
  PROVE  Steps(x) = IF ~Exists(x) \/ run[x].parent = 0 THEN 0 ELSE 1 + Steps(run[x].parent)
<1> DEFINE stops == {y \in 0 .. Len(run) : ~Exists(y) \/ run[y].parent = 0}
           base == [y \in 0 .. Len(run) |-> 0]
           up == [y \in 0 .. Len(run) |-> run[y].parent]
<1>1. \E f \in [0 .. Len(run) -> Nat] :
         \A y \in 0 .. Len(run) : f[y] = IF y \in stops THEN base[y] ELSE 1 + f[up[y]]
  <2>1. Len(run) \in Nat /\ \A y \in 0 .. Len(run) : base[y] \in Nat
    BY ParentIsOlder
  <2>2. \A y \in 0 .. Len(run) : y \notin stops => up[y] \in Nat /\ up[y] < y
    BY ParentIsOlder DEF Exists
  <2> HIDE DEF stops, base, up
  <2>3. PICK n \in Nat, k \in Nat : n = Len(run) /\ k = 1
    BY <2>1
  <2>4. /\ \A y \in 0 .. n : y \in stops => base[y] \in Nat
        /\ \A y \in 0 .. n : y \notin stops => up[y] \in Nat /\ up[y] < y
    BY <2>1, <2>2, <2>3
  <2>5. \E f \in [0 .. n -> Nat] : Climbs(f, n, stops, base, up, k)
    BY <2>4, ClimbExists
  <2> QED
    BY <2>3, <2>5 DEF Climbs
<1>2. PICK f \in [0 .. Len(run) -> Nat] :
         \A y \in 0 .. Len(run) : f[y] = IF y \in stops THEN base[y] ELSE 1 + f[up[y]]
  BY <1>1
<1>3. f = [y \in 0 .. Len(run) |-> IF ~Exists(y) \/ run[y].parent = 0 THEN 0 ELSE 1 + f[run[y].parent]]
  BY <1>2
<1> HIDE DEF stops, base, up
<1>4. Heights = [y \in 0 .. Len(run) |->
              IF ~Exists(y) \/ run[y].parent = 0 THEN 0 ELSE 1 + Heights[run[y].parent]]
  BY <1>3 DEF Heights
<1>5. \A y : Steps(y) = Heights[y]
  BY DEF Steps, Heights
<1> QED
  BY <1>4, <1>5

LEMMA StepsAreNatural ==
  ASSUME Typing, Forest, NEW x \in 0 .. Len(run)
  PROVE  Steps(x) \in Nat
<1> DEFINE odd == {y \in 0 .. Len(run) : Steps(y) \notin Nat}
<1> SUFFICES ASSUME odd # {} PROVE FALSE
  OBVIOUS
<1>0. odd \subseteq Nat
  BY ParentIsOlder
<1>1. PICK y \in odd : \A z \in odd : y <= z
  BY <1>0, LeastNat
<1>2. y \in 0 .. Len(run) /\ Steps(y) \notin Nat
  BY <1>1
<1>3. Exists(y) /\ Steps(y) = 1 + Steps(run[y].parent)
  BY <1>2, StepsStep
<1>4. run[y].parent \in 0 .. Len(run) /\ ~(y <= run[y].parent)
  BY <1>3, ParentIsOlder DEF Exists
<1>5. run[y].parent \notin odd
  BY <1>1, <1>4
<1> QED
  BY <1>2, <1>3, <1>4, <1>5

-------------------------------------------------------------------------------
(* The tree of a root: the rows that reach it in at most TreeCap steps.    *)

Levels(r) == CHOOSE level : level = [d \in 0 .. TreeCap |->
    IF d = 0 THEN {r} ELSE UNION {Children(x) : x \in level[d - 1]}]

LEMMA LevelStep ==
  ASSUME NEW r
  PROVE  /\ TreeCap \in Nat
         /\ \A d \in 0 .. TreeCap :
               Levels(r)[d] = IF d = 0 THEN {r} ELSE UNION {Children(x) : x \in Levels(r)[d - 1]}
<1> DEFINE Step(f, d) == IF d = 0 THEN {r} ELSE UNION {Children(x) : x \in f[d - 1]}
           Upto(m) == \E f : f = [d \in 0 .. m |-> Step(f, d)]
           missing == {m \in Nat : ~Upto(m)}
<1>0. TreeCap \in Nat
  BY DelegationAssumption
<1>1. Upto(0)
  <2>1. [d \in 0 .. 0 |-> {r}] = [d \in 0 .. 0 |-> Step([e \in 0 .. 0 |-> {r}], d)]
    OBVIOUS
  <2> QED
    BY <2>1
<1>2. ASSUME NEW m \in Nat, Upto(m)
      PROVE  Upto(m + 1)
  <2>1. PICK f : f = [d \in 0 .. m |-> Step(f, d)]
    BY <1>2
  <2> DEFINE g == [d \in 0 .. m + 1 |-> IF d <= m THEN f[d] ELSE Step(f, d)]
  <2>2. ASSUME NEW d \in 0 .. m + 1
        PROVE  g[d] = Step(g, d)
    <3>1. d # 0 => d - 1 \in 0 .. m /\ d - 1 \in 0 .. m + 1 /\ d - 1 <= m
      OBVIOUS
    <3>2. d # 0 => g[d - 1] = f[d - 1]
      BY <3>1
    <3>3. g[d] = Step(f, d)
      <4> HIDE DEF Step
      <4> QED
        BY <2>1
    <3> QED
      BY <3>2, <3>3
  <2>3. g = [d \in 0 .. m + 1 |-> Step(g, d)]
    <3> HIDE DEF Step
    <3> QED
      BY <2>2
  <2> QED
    BY <2>3
<1>3. missing = {}
  <2> SUFFICES ASSUME missing # {} PROVE FALSE
    OBVIOUS
  <2>0. missing \subseteq Nat
    OBVIOUS
  <2>1. PICK m \in missing : \A y \in missing : m <= y
    BY <2>0, LeastNat
  <2> HIDE DEF Upto
  <2>2. m \in Nat /\ m # 0 /\ ~Upto(m)
    BY <1>1, <2>1
  <2>3. m - 1 \in Nat /\ m - 1 \notin missing /\ (m - 1) + 1 = m
    <3>1. m - 1 \in Nat /\ ~(m <= m - 1) /\ (m - 1) + 1 = m
      BY <2>2
    <3> HIDE DEF missing
    <3> QED
      BY <2>1, <3>1
  <2>4. Upto(m - 1)
    BY <2>3
  <2> QED
    BY <1>2, <2>2, <2>3, <2>4
<1>4. \E f : f = [d \in 0 .. TreeCap |-> Step(f, d)]
  BY <1>0, <1>3
<1>5. Levels(r) = [d \in 0 .. TreeCap |-> Step(Levels(r), d)]
  BY <1>4 DEF Levels
<1> QED
  BY <1>0, <1>5

LEMMA LevelIs ==
  ASSUME Typing, Forest, NEW r \in Roots, NEW d \in 0 .. TreeCap
  PROVE  Levels(r)[d] = {y \in Runs : RootOf(y) = r /\ Steps(y) = d}
<1> DEFINE At(e) == {y \in Runs : RootOf(y) = r /\ Steps(y) = e}
           odd == {e \in 0 .. TreeCap : Levels(r)[e] # At(e)}
<1>0. /\ TreeCap \in Nat /\ Len(run) \in Nat
      /\ \A e \in 0 .. TreeCap : Levels(r)[e] = IF e = 0 THEN {r} ELSE UNION {Children(x) : x \in Levels(r)[e - 1]}
  BY LevelStep, ParentIsOlder
<1>1. r \in Runs /\ r # 0 /\ Exists(r) /\ run[r].parent = 0
  BY ParentIsOlder DEF Roots
<1>2. \A y \in Runs : /\ y \in 0 .. Len(run)
                      /\ RootOf(y) = IF ~Exists(y) THEN 0 ELSE IF run[y].parent = 0 THEN y ELSE RootOf(run[y].parent)
                      /\ Steps(y) = IF ~Exists(y) \/ run[y].parent = 0 THEN 0 ELSE 1 + Steps(run[y].parent)
                      /\ run[y].parent # 0 => run[y].parent \in Runs
                      /\ run[y].parent \in 0 .. Len(run)
  BY ParentIsOlder, RootStep, StepsStep DEF Runs
<1>3. \A y \in 0 .. Len(run) : Steps(y) \in Nat
  BY StepsAreNatural
<1>4. At(0) = {r}
  <2>1. r \in At(0)
    BY <1>1, <1>2
  <2>2. ASSUME NEW y \in At(0)
        PROVE  y = r
    <3>1. Exists(y) /\ run[y].parent = 0
      BY <1>1, <1>2, <1>3
    <3> QED
      BY <1>2, <3>1
  <2> QED
    BY <2>1, <2>2
<1>5. ASSUME NEW e \in 0 .. TreeCap, e # 0
      PROVE  At(e) = UNION {Children(x) : x \in At(e - 1)}
  <2>1. ASSUME NEW y \in At(e)
        PROVE  y \in UNION {Children(x) : x \in At(e - 1)}
    <3>1. Exists(y) /\ run[y].parent # 0
      BY <1>1, <1>2, <1>5
    <3>2. run[y].parent \in Runs /\ RootOf(run[y].parent) = r /\ e = 1 + Steps(run[y].parent)
      BY <1>2, <3>1
    <3>3. Steps(run[y].parent) = e - 1
      BY <1>0, <1>2, <1>3, <3>2
    <3>4. y \in Children(run[y].parent)
      BY <3>1 DEF Children
    <3>5. run[y].parent \in At(e - 1)
      BY <3>2, <3>3
    <3> HIDE DEF At
    <3> QED
      BY <3>4, <3>5
  <2>2. ASSUME NEW x \in At(e - 1), NEW y \in Children(x)
        PROVE  y \in At(e)
    <3>1. y \in Runs /\ Exists(y) /\ run[y].parent = x /\ x # 0 /\ x \in Runs
      BY ParentIsOlder DEF Children
    <3>2. RootOf(y) = r /\ Steps(y) = 1 + (e - 1)
      BY <1>2, <3>1
    <3> QED
      BY <1>0, <3>1, <3>2
  <2> QED
    BY <2>1, <2>2
<1>6. odd = {}
  <2> SUFFICES ASSUME odd # {} PROVE FALSE
    OBVIOUS
  <2>0. odd \subseteq Nat
    BY <1>0
  <2>1. PICK e \in odd : \A z \in odd : e <= z
    BY <2>0, LeastNat
  <2> HIDE DEF At
  <2>2. e \in 0 .. TreeCap /\ Levels(r)[e] # At(e)
    BY <2>1
  <2>3. e # 0
    BY <1>0, <1>4, <2>2
  <2>4. e - 1 \in 0 .. TreeCap /\ ~(e <= e - 1)
    BY <1>0, <2>2, <2>3
  <2>5. Levels(r)[e - 1] = At(e - 1)
    BY <2>1, <2>4
  <2> QED
    BY <1>0, <1>5, <2>2, <2>3, <2>5
<1> QED
  BY <1>6

LEMMA TreeIs ==
  ASSUME Typing, Forest, NEW r \in Roots
  PROVE  Tree(r) = {y \in Runs : RootOf(y) = r /\ Steps(y) <= TreeCap}
<1>1. Tree(r) = UNION {Levels(r)[d] : d \in 0 .. TreeCap}
  BY DEF Tree, Levels
<1>2. TreeCap \in Nat /\ \A y \in Runs : Steps(y) \in Nat
  <2>1. \A y \in 0 .. Len(run) : Steps(y) \in Nat
    BY StepsAreNatural
  <2>2. \A y \in Runs : y \in 0 .. Len(run)
    BY ParentIsOlder DEF Runs
  <2> QED
    BY <2>1, <2>2, LevelStep
<1>3. ASSUME NEW y \in Runs, RootOf(y) = r, Steps(y) <= TreeCap
      PROVE  y \in Tree(r)
  <2>1. Steps(y) \in 0 .. TreeCap
    BY <1>2, <1>3
  <2>2. y \in Levels(r)[Steps(y)]
    BY <1>3, <2>1, LevelIs
  <2> QED
    BY <1>1, <2>1, <2>2
<1>4. ASSUME NEW y \in Tree(r)
      PROVE  y \in Runs /\ RootOf(y) = r /\ Steps(y) <= TreeCap
  <2>1. PICK d \in 0 .. TreeCap : y \in Levels(r)[d]
    BY <1>1
  <2>2. y \in Runs /\ RootOf(y) = r /\ Steps(y) = d
    BY <2>1, LevelIs
  <2> QED
    BY <1>2, <2>2
<1> QED
  BY <1>3, <1>4

\* A tree holds, with each row but the root, its parent.
LEMMA TreeClimbs ==
  ASSUME Typing, Forest, NEW r \in Roots
  PROVE  /\ Tree(r) \subseteq Runs /\ r \in Tree(r) /\ run[r].parent = 0
         /\ \A y \in Tree(r) : Exists(y)
         /\ \A y \in Tree(r) : run[y].parent # 0 => run[y].parent \in Tree(r)
<1>0. r \in Runs /\ r # 0 /\ Exists(r) /\ run[r].parent = 0
  BY ParentIsOlder DEF Roots
<1>1. TreeCap \in Nat /\ \A y \in 0 .. Len(run) : Steps(y) \in Nat
  BY LevelStep, StepsAreNatural
<1>2. \A y \in Runs : /\ y \in 0 .. Len(run)
                      /\ RootOf(y) = IF ~Exists(y) THEN 0 ELSE IF run[y].parent = 0 THEN y ELSE RootOf(run[y].parent)
                      /\ Steps(y) = IF ~Exists(y) \/ run[y].parent = 0 THEN 0 ELSE 1 + Steps(run[y].parent)
                      /\ run[y].parent # 0 => run[y].parent \in Runs
                      /\ run[y].parent \in 0 .. Len(run)
  BY ParentIsOlder, RootStep, StepsStep DEF Runs
<1>3. \A y \in Runs : y \in Tree(r) <=> RootOf(y) = r /\ Steps(y) <= TreeCap
  BY TreeIs
<1>4. Tree(r) \subseteq Runs
  BY TreeIs
<1>5. r \in Tree(r)
  BY <1>0, <1>1, <1>2, <1>3
<1>6. ASSUME NEW y \in Tree(r)
      PROVE  Exists(y) /\ (run[y].parent # 0 => run[y].parent \in Tree(r))
  <2>1. y \in Runs /\ RootOf(y) = r /\ Steps(y) <= TreeCap
    BY <1>3, <1>4
  <2>2. Exists(y)
    BY <1>0, <1>2, <2>1
  <2>3. ASSUME run[y].parent # 0
        PROVE  run[y].parent \in Tree(r)
    <3>1. run[y].parent \in Runs /\ RootOf(run[y].parent) = r /\ Steps(y) = 1 + Steps(run[y].parent)
      BY <1>2, <2>1, <2>2, <2>3
    <3>2. Steps(run[y].parent) <= TreeCap
      BY <1>1, <1>2, <2>1, <3>1
    <3> QED
      BY <1>3, <3>1, <3>2
  <2> QED
    BY <2>2, <2>3
<1> QED
  BY <1>0, <1>4, <1>5, <1>6

-------------------------------------------------------------------------------
(* A row and those above it.                                               *)

Climbing(A) == \A z \in A : run[z].parent \in Runs => run[z].parent \in A

Line(y) == {x \in Runs : \A A \in SUBSET Runs : y \in A /\ Climbing(A) => x \in A}

LEMMA LineWithin ==
  ASSUME NEW A \in SUBSET Runs, NEW y \in A, Climbing(A)
  PROVE  Line(y) \subseteq A
BY DEF Line

LEMMA LineClimbs ==
  ASSUME NEW y \in Runs
  PROVE  Line(y) \subseteq Runs /\ y \in Line(y) /\ Climbing(Line(y))
<1>1. Line(y) \subseteq Runs /\ y \in Line(y)
  BY DEF Line
<1>2. ASSUME NEW z \in Line(y), run[z].parent \in Runs
      PROVE  run[z].parent \in Line(y)
  BY <1>2 DEF Line, Climbing
<1> QED
  BY <1>1, <1>2 DEF Climbing

LEMMA LineIsOlder ==
  ASSUME Typing, Forest, NEW y \in Runs
  PROVE  \A x \in Line(y) : x <= y
<1> DEFINE A == {x \in Runs : x <= y}
<1>1. Climbing(A)
  BY ParentIsOlder DEF Climbing
<1>2. y \in A
  BY ParentIsOlder
<1> HIDE DEF A
<1>3. A \in SUBSET Runs
  BY DEF A
<1>4. Line(y) \subseteq A
  BY <1>1, <1>2, <1>3, LineWithin
<1> QED
  BY <1>4 DEF A

\* Below its start a line goes on from the parent.
LEMMA LineGoesOn ==
  ASSUME NEW y \in Runs, NEW x \in Line(y), x # y
  PROVE  run[y].parent \in Runs /\ x \in Line(run[y].parent)
<1>1. x \in Runs /\ \A A \in SUBSET Runs : y \in A /\ Climbing(A) => x \in A
  BY DEF Line
<1>2. run[y].parent \in Runs
  <2> SUFFICES ASSUME run[y].parent \notin Runs PROVE FALSE
    OBVIOUS
  <2>1. Climbing({y})
    BY DEF Climbing
  <2> QED
    BY <1>1, <2>1
<1>3. ASSUME NEW A \in SUBSET Runs, run[y].parent \in A, Climbing(A)
      PROVE  x \in A
  <2>1. Climbing(A \cup {y})
    BY <1>3 DEF Climbing
  <2> QED
    BY <1>1, <2>1
<1> QED
  BY <1>1, <1>2, <1>3 DEF Line

\* Who is above y, but not y, has a child above y, or y itself for a child.
LEMMA LineHasChild ==
  ASSUME NEW y \in Runs, NEW x \in Line(y), x # y
  PROVE  \E c \in Line(y) : run[c].parent = x
<1> SUFFICES ASSUME \A c \in Line(y) : run[c].parent # x
             PROVE  FALSE
  OBVIOUS
<1>1. PICK A : A = Line(y) \ {x}
  OBVIOUS
<1>2. A \in SUBSET Runs /\ y \in A
  BY <1>1, LineClimbs
<1>3. Climbing(A)
  <2>1. Climbing(Line(y))
    BY LineClimbs
  <2> QED
    BY <1>1, <2>1 DEF Climbing
<1>4. Line(y) \subseteq A
  BY <1>2, <1>3, LineWithin
<1> QED
  BY <1>1, <1>4

\* Of two rows above y the older is above the parent of the younger.
LEMMA LineIsLine ==
  ASSUME Typing, Forest, NEW y \in Runs, NEW c \in Line(y), NEW d \in Line(y), c < d
  PROVE  c \in Line(run[d].parent)
<1>1. PICK A : A = {z \in Runs : d \in Line(z)} \cup Line(d)
  OBVIOUS
<1>2. c \in Runs /\ d \in Runs /\ c \in Nat /\ d \in Nat
  BY LineClimbs, ParentIsOlder
<1>3. A \in SUBSET Runs /\ y \in A
  BY <1>1, <1>2, LineClimbs
<1>4. Climbing(A)
  <2> SUFFICES ASSUME NEW z \in A, run[z].parent \in Runs
               PROVE  run[z].parent \in A
    BY DEF Climbing
  <2>1. CASE z \in Line(d)
    <3>1. Climbing(Line(d))
      BY <1>2, LineClimbs
    <3> QED
      BY <1>1, <2>1, <3>1 DEF Climbing
  <2>2. CASE z \notin Line(d)
    <3>1. z \in Runs /\ d \in Line(z)
      BY <1>1, <2>2
    <3>2. d # z
      BY <1>2, <2>2, LineClimbs
    <3>3. d \in Line(run[z].parent)
      BY <3>1, <3>2, LineGoesOn
    <3> QED
      BY <1>1, <3>3
  <2> QED
    BY <2>1, <2>2
<1>5. c \in A
  BY <1>3, <1>4, LineWithin
<1>6. d \notin Line(c)
  <2>1. \A x \in Line(c) : x <= c
    BY <1>2, LineIsOlder
  <2> QED
    BY <1>2, <2>1
<1>7. c \in Line(d) /\ c # d
  BY <1>1, <1>2, <1>5, <1>6
<1> QED
  BY <1>2, <1>7, LineGoesOn

-------------------------------------------------------------------------------
(* The rows of a tree under one of them are those under its children, who  *)
(* share none.                                                             *)

Under(r, x) == {y \in Tree(r) : x \in Line(y)}

Below(r, x) == Children(x) \cap Tree(r)

LEMMA TreeHasLines ==
  ASSUME Typing, Forest, NEW r \in Roots, NEW y \in Tree(r)
  PROVE  Line(y) \subseteq Tree(r)
<1>1. Tree(r) \in SUBSET Runs /\ Climbing(Tree(r))
  <2>1. \A z \in Runs : run[z].parent \in Runs <=> run[z].parent # 0
    BY ParentIsOlder
  <2> QED
    BY <2>1, TreeClimbs DEF Climbing
<1> QED
  BY <1>1, LineWithin

LEMMA UnderRoot ==
  ASSUME Typing, Forest, NEW r \in Roots
  PROVE  Under(r, r) = Tree(r)
<1>1. Tree(r) \subseteq Runs /\ r \in Tree(r) /\ run[r].parent = 0
  BY TreeClimbs
<1>2. ASSUME NEW y \in Tree(r)
      PROVE  r \in Line(y)
  <2>1. Line(y) \subseteq Tree(r) /\ y \in Line(y) /\ Climbing(Line(y)) /\ Line(y) \subseteq Runs
    BY <1>1, TreeHasLines, LineClimbs
  <2>2. Line(y) \subseteq Nat /\ Line(y) # {}
    BY <2>1, ParentIsOlder
  <2>3. PICK x \in Line(y) : \A z \in Line(y) : x <= z
    BY <2>2, LeastNat
  <2>4. x \in Runs /\ run[x].parent = 0
    <3>1. x \in Runs /\ (run[x].parent # 0 => run[x].parent \in Line(y))
      BY <2>1, ParentIsOlder DEF Climbing
    <3>2. x \in Nat /\ run[x].parent \in 0 .. Len(run) /\ run[x].parent < x /\ Len(run) \in Nat
      BY <3>1, ParentIsOlder
    <3>3. ~(x <= run[x].parent)
      BY <3>2
    <3> QED
      BY <2>3, <3>1, <3>3
  <2>5. x \in Tree(r) /\ Exists(x)
    BY <2>1, <2>3, TreeClimbs
  <2>6. RootOf(x) = x
    <3>1. x \in 0 .. Len(run)
      BY <2>4, ParentIsOlder DEF Runs
    <3> QED
      BY <2>4, <2>5, <3>1, RootStep
  <2>7. RootOf(x) = r
    BY <2>5, TreeIs
  <2> QED
    BY <2>3, <2>6, <2>7
<1> QED
  BY <1>2 DEF Under

LEMMA UnderSplits ==
  ASSUME Typing, Forest, NEW r \in Roots, NEW x \in Tree(r)
  PROVE  /\ x \in Under(r, x)
         /\ Under(r, x) \ {x} = UNION {Under(r, c) : c \in Below(r, x)}
         /\ \A c, d \in Below(r, x) : c # d => Under(r, c) \cap Under(r, d) = {}
         /\ \A c \in Below(r, x) : c \in Tree(r) /\ c > x
<1>0. Tree(r) \subseteq Runs /\ \A y \in Tree(r) : Exists(y)
  BY TreeClimbs
<1>1. \A c \in Below(r, x) : c \in Tree(r) /\ c \in Runs /\ run[c].parent = x /\ c > x /\ c \in Nat /\ x \in Nat
  BY <1>0, ParentIsOlder DEF Below, Children
<1>2. x \in Under(r, x)
  BY <1>0, LineClimbs DEF Under
<1>3. ASSUME NEW y \in Under(r, x), y # x
      PROVE  y \in UNION {Under(r, c) : c \in Below(r, x)}
  <2>1. y \in Tree(r) /\ y \in Runs /\ x \in Line(y)
    BY <1>0 DEF Under
  <2>2. PICK c \in Line(y) : run[c].parent = x
    BY <1>3, <2>1, LineHasChild
  <2>3. c \in Tree(r)
    BY <2>1, TreeHasLines
  <2>4. c \in Below(r, x)
    BY <1>0, <2>2, <2>3 DEF Below, Children
  <2>5. y \in Under(r, c)
    BY <2>1 DEF Under
  <2> QED
    BY <2>4, <2>5
<1>4. ASSUME NEW c \in Below(r, x), NEW y \in Under(r, c)
      PROVE  y \in Under(r, x) /\ y # x
  <2>1. y \in Tree(r) /\ y \in Runs /\ c \in Line(y)
    BY <1>0 DEF Under
  <2>2. x \in Line(y)
    <3>1. Climbing(Line(y))
      BY <2>1, LineClimbs
    <3> QED
      BY <1>0, <1>1, <2>1, <3>1 DEF Climbing
  <2>3. c <= y /\ y \in Nat
    BY <2>1, LineIsOlder, ParentIsOlder
  <2> QED
    BY <1>1, <2>1, <2>2, <2>3 DEF Under
<1>5. ASSUME NEW c \in Below(r, x), NEW d \in Below(r, x), c < d, NEW y \in Under(r, c) \cap Under(r, d)
      PROVE  FALSE
  <2>1. y \in Runs /\ c \in Line(y) /\ d \in Line(y)
    BY <1>0 DEF Under
  <2>2. c \in Line(x)
    <3>1. c \in Line(run[d].parent)
      BY <1>5, <2>1, LineIsLine
    <3> QED
      BY <1>1, <3>1
  <2>3. c <= x
    BY <1>0, <2>2, LineIsOlder
  <2> QED
    BY <1>1, <2>3
<1>6. \A c, d \in Below(r, x) : c # d => Under(r, c) \cap Under(r, d) = {}
  <2> SUFFICES ASSUME NEW c \in Below(r, x), NEW d \in Below(r, x), c # d, NEW y \in Under(r, c) \cap Under(r, d)
               PROVE  FALSE
    OBVIOUS
  <2>1. c < d \/ d < c
    BY <1>1
  <2> QED
    BY <1>5, <2>1
<1> QED
  BY <1>1, <1>2, <1>3, <1>4, <1>6

-------------------------------------------------------------------------------
(* The roll-ups, from the youngest row up.                                 *)

Fails(c) == run[c].status \in {"failed", "stuck"}

Totals(up, r, x) ==
    LET below == Children(x) \cap Tree(r) IN
    [count |-> SumFunction([c \in below |-> 1 + up[c].count]),
     failed |-> SumFunction([c \in below |-> up[c].failed + (IF run[c].status \in {"failed", "stuck"} THEN 1 ELSE 0)]),
     severity |-> Max({SeverityOf(run[x].status)} \cup {up[c].severity : c \in below}),
     reworks |-> Reworks(below) + SumFunction([c \in below |-> up[c].reworks])]

Rollups(r) == CHOOSE up : up = [x \in Tree(r) |-> Totals(up, r, x)]

LEMMA RollupIs ==
  ASSUME NEW r
  PROVE  Rollup(r) = Rollups(r)[r]
BY DEF Rollup, Rollups, Totals

\* What is rolled up at x depends on its children only.
LEMMA TotalsOfChildren ==
  ASSUME NEW r, NEW x, NEW f, NEW g, \A c \in Below(r, x) : f[c] = g[c]
  PROVE  Totals(f, r, x) = Totals(g, r, x)
<1>1. PICK below : below = Children(x) \cap Tree(r)
  OBVIOUS
<1>2. \A c \in below : f[c] = g[c]
  BY <1>1 DEF Below
<1>3. [c \in below |-> 1 + f[c].count] = [c \in below |-> 1 + g[c].count]
  BY <1>2
<1>4. [c \in below |-> f[c].failed + (IF run[c].status \in {"failed", "stuck"} THEN 1 ELSE 0)]
        = [c \in below |-> g[c].failed + (IF run[c].status \in {"failed", "stuck"} THEN 1 ELSE 0)]
  BY <1>2
<1>5. {f[c].severity : c \in below} = {g[c].severity : c \in below}
  BY <1>2
<1>6. [c \in below |-> f[c].reworks] = [c \in below |-> g[c].reworks]
  BY <1>2
<1> QED
  BY <1>1, <1>3, <1>4, <1>5, <1>6 DEF Totals

LEMMA RollupStep ==
  ASSUME Typing, Forest, NEW r \in Roots, NEW x \in Tree(r)
  PROVE  Rollups(r)[x] = Totals(Rollups(r), r, x)
<1> DEFINE young(m) == {y \in Tree(r) : y > Len(run) - m}
           Upto(m) == \E f : f = [y \in young(m) |-> Totals(f, r, y)]
           missing == {m \in 0 .. Len(run) : ~Upto(m)}
<1>0. /\ Len(run) \in Nat /\ \A y \in Tree(r) : y \in 1 .. Len(run)
      /\ \A y \in Tree(r) : \A c \in Below(r, y) : c \in Tree(r) /\ c > y
  BY ParentIsOlder, TreeClimbs, UnderSplits DEF Runs
<1>1. Upto(0)
  <2>1. young(0) = {}
    BY <1>0
  <2> HIDE DEF young
  <2>2. [y \in {} |-> 0] = [y \in young(0) |-> Totals([z \in {} |-> 0], r, y)]
    BY <2>1
  <2> QED
    BY <2>2
<1>2. ASSUME NEW m \in 0 .. Len(run), m < Len(run), Upto(m)
      PROVE  Upto(m + 1)
  <2>1. PICK f : f = [y \in young(m) |-> Totals(f, r, y)]
    BY <1>2
  <2> DEFINE g == [y \in young(m + 1) |-> IF y \in young(m) THEN f[y] ELSE Totals(f, r, y)]
  <2>2. ASSUME NEW y \in young(m + 1)
        PROVE  g[y] = Totals(g, r, y)
    <3>1. \A c \in Below(r, y) : c \in young(m) /\ c \in young(m + 1)
      BY <1>0, <1>2
    <3> HIDE DEF young
    <3>2. \A c \in Below(r, y) : f[c] = g[c]
      BY <3>1
    <3>3. Totals(f, r, y) = Totals(g, r, y)
      <4> HIDE DEF g
      <4> QED
        BY <3>2, TotalsOfChildren
    <3>4. g[y] = Totals(f, r, y)
      BY <2>1
    <3> QED
      BY <3>3, <3>4
  <2>3. g = [y \in young(m + 1) |-> Totals(g, r, y)]
    <3> HIDE DEF young
    <3> QED
      BY <2>2
  <2> QED
    BY <2>3
<1>3. missing = {}
  <2> SUFFICES ASSUME missing # {} PROVE FALSE
    OBVIOUS
  <2>0. missing \subseteq Nat
    BY <1>0
  <2>1. PICK m \in missing : \A y \in missing : m <= y
    BY <2>0, LeastNat
  <2> HIDE DEF Upto
  <2>2. m \in Nat /\ m # 0 /\ m <= Len(run) /\ ~Upto(m)
    BY <1>0, <1>1, <2>1
  <2>3. m - 1 \in 0 .. Len(run) /\ m - 1 < Len(run) /\ m - 1 \notin missing /\ (m - 1) + 1 = m
    <3>1. m - 1 \in 0 .. Len(run) /\ m - 1 < Len(run) /\ ~(m <= m - 1) /\ (m - 1) + 1 = m
      BY <1>0, <2>2
    <3> HIDE DEF missing
    <3> QED
      BY <2>1, <3>1
  <2>4. Upto(m - 1)
    BY <2>3
  <2> QED
    BY <1>2, <2>2, <2>3, <2>4
<1>4. young(Len(run)) = Tree(r)
  BY <1>0
<1>5. Upto(Len(run))
  <2>1. Len(run) \in 0 .. Len(run)
    BY <1>0
  <2> HIDE DEF Upto
  <2> QED
    BY <1>3, <2>1
<1> HIDE DEF young
<1>6. Rollups(r) = [y \in Tree(r) |-> Totals(Rollups(r), r, y)]
  BY <1>4, <1>5 DEF Rollups
<1> QED
  BY <1>6

-------------------------------------------------------------------------------
(* What is rolled up at a row counts what failed under it.                 *)

LEMMA SeverityIs ==
  ASSUME NEW st
  PROVE  /\ SeverityOf(st) \in 0 .. 6
         /\ SeverityOf(st) = 6 <=> st = "failed"
BY DEF SeverityOf, Severity

Bad(r, x) == {y \in Under(r, x) : Fails(y)}

LEMMA TreeIsFinite ==
  ASSUME Typing, Forest, NEW r \in Roots
  PROVE  IsFiniteSet(Tree(r))
<1>1. 1 \in Int /\ Len(run) \in Int
  BY ParentIsOlder
<1>2. IsFiniteSet(1 .. Len(run))
  BY <1>1, FS_Interval
<1> QED
  BY <1>2, TreeClimbs, FS_Subset DEF Runs

LEMMA CountsBad ==
  ASSUME Typing, Forest, NEW r \in Roots, NEW x \in Tree(r),
         \A c \in Below(r, x) : Rollups(r)[c].failed = Cardinality(Bad(r, c) \ {c})
  PROVE  Rollups(r)[x].failed = Cardinality(Bad(r, x) \ {x})
<1> DEFINE f == [c \in Below(r, x) |-> Rollups(r)[c].failed + (IF run[c].status \in {"failed", "stuck"} THEN 1 ELSE 0)]
           parts == [c \in Below(r, x) |-> Bad(r, c)]
<1>0. IsFiniteSet(Tree(r))
  BY TreeIsFinite
<1>1. Rollups(r)[x].failed = SumFunction(f)
  <2>1. Rollups(r)[x] = Totals(Rollups(r), r, x)
    BY RollupStep
  <2>2. Totals(Rollups(r), r, x).failed = SumFunction(f)
    BY DEF Totals, Below
  <2> QED
    BY <2>1, <2>2
<1>2. IsFiniteSet(Below(r, x))
  BY <1>0, FS_Subset DEF Below
<1>3. ASSUME NEW c \in Below(r, x)
      PROVE  IsFiniteSet(Bad(r, c)) /\ f[c] = Cardinality(Bad(r, c))
  <2>1. c \in Tree(r) /\ c \in Under(r, c)
    BY UnderSplits
  <2>2. IsFiniteSet(Bad(r, c))
    BY <1>0, FS_Subset DEF Bad, Under
  <2>3. Cardinality(Bad(r, c)) \in Nat
    BY <2>2, FS_CardinalityType
  <2>4. Cardinality(Bad(r, c) \ {c}) = IF c \in Bad(r, c) THEN Cardinality(Bad(r, c)) - 1 ELSE Cardinality(Bad(r, c))
    BY <2>2, FS_RemoveElement
  <2>5. c \in Bad(r, c) <=> run[c].status \in {"failed", "stuck"}
    BY <2>1 DEF Bad, Fails
  <2> QED
    BY <2>2, <2>3, <2>4, <2>5
<1>4. \A c, d \in Below(r, x) : c # d => parts[c] \cap parts[d] = {}
  BY UnderSplits DEF Bad
<1>5. UNION {parts[c] : c \in Below(r, x)} = Bad(r, x) \ {x}
  <2>1. Under(r, x) \ {x} = UNION {Under(r, c) : c \in Below(r, x)}
    BY UnderSplits
  <2> QED
    BY <2>1 DEF Bad
<1>6. DOMAIN f = Below(r, x)
  OBVIOUS
<1>7. \A c \in Below(r, x) : IsFiniteSet(parts[c]) /\ f[c] = Cardinality(parts[c])
  <2>1. \A c \in Below(r, x) : parts[c] = Bad(r, c)
    OBVIOUS
  <2> HIDE DEF f, parts
  <2> QED
    BY <1>3, <2>1
<1> HIDE DEF f, parts
<1> QED
  BY <1>1, <1>2, <1>4, <1>5, <1>6, <1>7, SumIsCardinality

LEMMA CountsAll ==
  ASSUME Typing, Forest, NEW r \in Roots, NEW x \in Tree(r),
         \A c \in Below(r, x) : Rollups(r)[c].count = Cardinality(Under(r, c) \ {c})
  PROVE  Rollups(r)[x].count = Cardinality(Under(r, x) \ {x})
<1> DEFINE f == [c \in Below(r, x) |-> 1 + Rollups(r)[c].count]
           parts == [c \in Below(r, x) |-> Under(r, c)]
<1>0. IsFiniteSet(Tree(r))
  BY TreeIsFinite
<1>1. Rollups(r)[x].count = SumFunction(f)
  <2>1. Rollups(r)[x] = Totals(Rollups(r), r, x)
    BY RollupStep
  <2>2. Totals(Rollups(r), r, x).count = SumFunction(f)
    BY DEF Totals, Below
  <2> QED
    BY <2>1, <2>2
<1>2. IsFiniteSet(Below(r, x))
  BY <1>0, FS_Subset DEF Below
<1>3. ASSUME NEW c \in Below(r, x)
      PROVE  IsFiniteSet(Under(r, c)) /\ f[c] = Cardinality(Under(r, c))
  <2>1. c \in Under(r, c)
    BY UnderSplits
  <2>2. IsFiniteSet(Under(r, c))
    BY <1>0, FS_Subset DEF Under
  <2>3. Cardinality(Under(r, c)) \in Nat
    BY <2>2, FS_CardinalityType
  <2>4. Cardinality(Under(r, c) \ {c}) = Cardinality(Under(r, c)) - 1
    BY <2>1, <2>2, FS_RemoveElement
  <2> QED
    BY <2>2, <2>3, <2>4
<1>4. \A c, d \in Below(r, x) : c # d => parts[c] \cap parts[d] = {}
  BY UnderSplits
<1>5. UNION {parts[c] : c \in Below(r, x)} = Under(r, x) \ {x}
  BY UnderSplits
<1>6. DOMAIN f = Below(r, x)
  OBVIOUS
<1>7. \A c \in Below(r, x) : IsFiniteSet(parts[c]) /\ f[c] = Cardinality(parts[c])
  <2>1. \A c \in Below(r, x) : parts[c] = Under(r, c)
    OBVIOUS
  <2> HIDE DEF f, parts
  <2> QED
    BY <1>3, <2>1
<1> HIDE DEF f, parts
<1> QED
  BY <1>1, <1>2, <1>4, <1>5, <1>6, <1>7, SumIsCardinality

Worst(r, x, sev) ==
    /\ sev \in 0 .. 6
    /\ \A y \in Under(r, x) : SeverityOf(run[y].status) <= sev
    /\ \E y \in Under(r, x) : SeverityOf(run[y].status) = sev

LEMMA KnowsTheWorst ==
  ASSUME Typing, Forest, NEW r \in Roots, NEW x \in Tree(r),
         \A c \in Below(r, x) : Worst(r, c, Rollups(r)[c].severity)
  PROVE  Worst(r, x, Rollups(r)[x].severity)
<1> DEFINE T == {SeverityOf(run[x].status)} \cup {Rollups(r)[c].severity : c \in Below(r, x)}
<1>1. Rollups(r)[x].severity = Max(T)
  <2>1. Rollups(r)[x] = Totals(Rollups(r), r, x)
    BY RollupStep
  <2>2. Totals(Rollups(r), r, x).severity = Max(T)
    BY DEF Totals, Below
  <2> QED
    BY <2>1, <2>2
<1>2. T \subseteq 0 .. 6 /\ T # {}
  BY SeverityIs DEF Worst
<1>3. Max(T) \in T /\ \A y \in T : y <= Max(T)
  <2> HIDE DEF T
  <2>1. PICK top \in Nat : top = 6
    OBVIOUS
  <2>2. T \subseteq Nat /\ \A y \in T : y <= top
    BY <1>2, <2>1
  <2> QED
    BY <1>2, <2>2, MaxIsGreatest
<1>4. PICK sev : sev = Max(T)
  OBVIOUS
<1>5. sev \in 0 .. 6 /\ sev \in T /\ \A y \in T : y <= sev
  <2> HIDE DEF T
  <2> QED
    BY <1>2, <1>3, <1>4
<1>6. x \in Under(r, x) /\ Under(r, x) \ {x} = UNION {Under(r, c) : c \in Below(r, x)}
  BY UnderSplits
<1>7. ASSUME NEW y \in Under(r, x)
      PROVE  SeverityOf(run[y].status) <= sev
  <2>1. CASE y = x
    BY <1>5, <2>1
  <2>2. CASE y # x
    <3>1. PICK c \in Below(r, x) : y \in Under(r, c)
      BY <1>6, <2>2
    <3>2. SeverityOf(run[y].status) <= Rollups(r)[c].severity
      BY <3>1 DEF Worst
    <3>3. Rollups(r)[c].severity \in T /\ Rollups(r)[c].severity \in 0 .. 6
      BY DEF Worst
    <3>4. SeverityOf(run[y].status) \in 0 .. 6
      BY SeverityIs
    <3>5. Rollups(r)[c].severity <= sev
      BY <1>5, <3>3
    <3> HIDE DEF T
    <3> QED
      BY <1>5, <3>2, <3>3, <3>4, <3>5
  <2> QED
    BY <2>1, <2>2
<1>8. \E y \in Under(r, x) : SeverityOf(run[y].status) = sev
  <2>1. CASE sev = SeverityOf(run[x].status)
    BY <1>6, <2>1
  <2>2. CASE sev # SeverityOf(run[x].status)
    <3>1. PICK c \in Below(r, x) : sev = Rollups(r)[c].severity
      BY <1>5, <2>2
    <3>2. PICK y \in Under(r, c) : SeverityOf(run[y].status) = sev
      BY <3>1 DEF Worst
    <3>3. y \in Under(r, x)
      BY <1>6, <3>1, <3>2
    <3> QED
      BY <3>2, <3>3
  <2> QED
    BY <2>1, <2>2
<1> HIDE DEF T
<1>9. Worst(r, x, sev)
  BY <1>5, <1>7, <1>8 DEF Worst
<1> QED
  BY <1>1, <1>4, <1>9

LEMMA RollupTells ==
  ASSUME Typing, Forest, NEW r \in Roots
  PROVE  \A x \in Tree(r) :
            /\ Rollups(r)[x].count = Cardinality(Under(r, x) \ {x})
            /\ Rollups(r)[x].failed = Cardinality(Bad(r, x) \ {x})
            /\ Worst(r, x, Rollups(r)[x].severity)
<1> DEFINE Tells(x) == /\ Rollups(r)[x].count = Cardinality(Under(r, x) \ {x})
                       /\ Rollups(r)[x].failed = Cardinality(Bad(r, x) \ {x})
                       /\ Worst(r, x, Rollups(r)[x].severity)
           odd == {x \in Tree(r) : ~Tells(x)}
<1>1. odd = {}
  <2> SUFFICES ASSUME odd # {} PROVE FALSE
    OBVIOUS
  <2>1. Len(run) \in Nat /\ Tree(r) \subseteq 1 .. Len(run)
    BY ParentIsOlder, TreeClimbs DEF Runs
  <2>2. odd \subseteq Nat /\ \A x \in odd : x <= Len(run)
    BY <2>1
  <2>3. PICK x \in odd : \A y \in odd : y <= x
    <3> HIDE DEF odd
    <3> QED
      BY <2>1, <2>2, MaxIsGreatest
  <2>4. x \in Tree(r) /\ ~Tells(x)
    BY <2>3
  <2>5. ASSUME NEW c \in Below(r, x)
        PROVE  Tells(c)
    <3>1. c \in Tree(r) /\ c > x
      BY <2>4, UnderSplits
    <3>2. c \notin odd
      <4>1. c \in Nat /\ x \in Nat /\ ~(c <= x)
        BY <2>1, <2>4, <3>1
      <4> HIDE DEF odd
      <4> QED
        BY <2>3, <4>1
    <3> QED
      BY <3>1, <3>2
  <2>6. Tells(x)
    BY <2>4, <2>5, CountsAll, CountsBad, KnowsTheWorst
  <2> QED
    BY <2>4, <2>6
<1> QED
  BY <1>1

-------------------------------------------------------------------------------
(* Every root is on a page.                                                *)

LEMMA Division ==
  ASSUME NEW a \in Nat, NEW b \in Nat, b > 0
  PROVE  a \div b \in Nat /\ b * (a \div b) <= a /\ a < b * (a \div b) + b
<1>1. a = b * (a \div b) + (a % b) /\ a % b \in 0 .. b - 1
  OBVIOUS
<1>2. a \div b \in Nat
  OBVIOUS
<1> QED
  BY <1>1, <1>2

LEMMA LessWhenTimesIsLess ==
  ASSUME NEW q \in Nat, NEW m \in Nat, NEW b \in Nat, b * q < b * m
  PROVE  q < m
<1> SUFFICES ASSUME q >= m PROVE FALSE
  OBVIOUS
<1>1. PICK d \in Nat : q = m + d
  <2>1. q - m \in Nat /\ q = m + (q - m)
    OBVIOUS
  <2> QED
    BY <2>1
<1>2. b * q = b * m + b * d /\ b * d \in Nat /\ b * m \in Nat
  BY <1>1
<1> QED
  BY <1>2

LEMMA RootIsOnAPage ==
  ASSUME Typing, Forest, NEW x \in Roots
  PROVE  \E p \in Pages : x \in RootsOn(p)
<1> DEFINE after == {q \in Roots : q > x}
<1>1. PICK n, k, b : n = Cardinality(Roots) /\ k = Cardinality(after) /\ b = PerPage
  OBVIOUS
<1>2. b \in Nat /\ b > 0
  BY <1>1, DelegationAssumption
<1>3. IsFiniteSet(Roots)
  <2>1. IsFiniteSet(Runs)
    BY ParentIsOlder, FS_Interval DEF Runs
  <2>2. Roots \in SUBSET Runs
    BY DEF Roots
  <2> QED
    BY <2>1, <2>2, FS_Subset
<1>4. n \in Nat /\ k \in Nat /\ k <= n - 1
  <2>1. IsFiniteSet(Roots \ {x}) /\ Cardinality(Roots \ {x}) = Cardinality(Roots) - 1
    BY <1>3, FS_RemoveElement
  <2>2. after \in SUBSET (Roots \ {x})
    BY ParentIsOlder DEF Roots
  <2>3. IsFiniteSet(after) /\ Cardinality(after) <= Cardinality(Roots \ {x})
    BY <2>1, <2>2, FS_Subset
  <2>4. Cardinality(Roots) \in Nat /\ Cardinality(after) \in Nat
    BY <1>3, <2>3, FS_CardinalityType
  <2> HIDE DEF after
  <2> QED
    BY <1>1, <2>1, <2>3, <2>4
<1> HIDE DEF after
<1>5. PICK q, m : q = k \div b /\ m = (n + b - 1) \div b
  OBVIOUS
<1>6. q \in Nat /\ b * q <= k /\ k < b * q + b
  BY <1>2, <1>4, <1>5, Division
<1>7. m \in Nat /\ b * m <= n + b - 1 /\ n + b - 1 < b * m + b
  <2>1. n + b - 1 \in Nat
    BY <1>2, <1>4
  <2> QED
    BY <1>2, <1>5, <2>1, Division
<1>8. q < m
  <2>1. b * q \in Nat /\ b * m \in Nat
    BY <1>2, <1>6, <1>7
  <2>2. b * q < b * m
    BY <1>2, <1>4, <1>6, <1>7, <2>1
  <2> QED
    BY <1>2, <1>6, <1>7, <2>2, LessWhenTimesIsLess
<1>9. Max({1, m}) \in Nat /\ m <= Max({1, m})
  <2>1. PICK T, top : T = {1, m} /\ top = 1 + m
    OBVIOUS
  <2>2. T \subseteq Nat /\ T # {} /\ top \in Nat /\ \A y \in T : y <= top
    BY <1>7, <2>1
  <2>3. Max(T) \in T /\ \A y \in T : y <= Max(T)
    BY <2>2, MaxIsGreatest
  <2> QED
    BY <2>1, <2>2, <2>3
<1>10. Pages = 1 .. Max({1, m})
  BY <1>1, <1>5 DEF Pages
<1>11. q + 1 \in Pages
  BY <1>6, <1>7, <1>8, <1>9, <1>10
<1>12. x \in RootsOn(q + 1)
  <2>1. Cardinality({y \in Roots : y > x}) \div PerPage = (q + 1) - 1
    BY <1>1, <1>5, <1>6 DEF after
  <2> QED
    BY <2>1 DEF RootsOn
<1> QED
  BY <1>11, <1>12

-------------------------------------------------------------------------------
(* The forest as /runs shows it.                                           *)

LEMMA StatusRollupIs ==
  ASSUME Typing, Forest, NEW r \in Roots
  PROVE  /\ StatusRollup(r) \in DOMAIN Severity
         /\ Worst(r, r, Severity[StatusRollup(r)])
<1>1. PICK sev : sev = Rollup(r).severity
  OBVIOUS
<1>2. Worst(r, r, sev)
  BY <1>1, RollupIs, TreeClimbs, RollupTells
<1>3. DOMAIN Severity = {"completed", "scheduled", "pending", "running", "rate_limited", "stuck", "failed"}
  BY DEF Severity
<1>4. \E status \in DOMAIN Severity : Severity[status] = sev
  BY <1>2, <1>3 DEF Worst, Severity
<1>5. StatusRollup(r) \in DOMAIN Severity /\ Severity[StatusRollup(r)] = sev
  BY <1>1, <1>4 DEF StatusRollup
<1> QED
  BY <1>2, <1>5

LEMMA StatusRollupFails ==
  ASSUME Typing, Forest, NEW r \in Roots
  PROVE  StatusRollup(r) = "failed" <=> \E y \in Tree(r) : run[y].status = "failed"
<1>1. PICK st : st = StatusRollup(r)
  OBVIOUS
<1>2. st \in DOMAIN Severity /\ Worst(r, r, Severity[st]) /\ Under(r, r) = Tree(r)
  BY <1>1, StatusRollupIs, UnderRoot
<1>3. st = "failed" <=> Severity[st] = 6
  BY <1>2 DEF Severity
<1>4. Severity[st] = 6 <=> \E y \in Tree(r) : SeverityOf(run[y].status) = 6
  <2>1. PICK sev : sev = Severity[st]
    OBVIOUS
  <2>2. /\ sev \in 0 .. 6
        /\ \A y \in Tree(r) : SeverityOf(run[y].status) <= sev
        /\ \E y \in Tree(r) : SeverityOf(run[y].status) = sev
    BY <1>2, <2>1 DEF Worst
  <2>3. \A y \in Tree(r) : SeverityOf(run[y].status) \in 0 .. 6
    BY SeverityIs
  <2> QED
    BY <2>1, <2>2, <2>3
<1>5. (\E y \in Tree(r) : SeverityOf(run[y].status) = 6) <=> \E y \in Tree(r) : run[y].status = "failed"
  BY SeverityIs
<1> QED
  BY <1>1, <1>3, <1>4, <1>5

LEMMA ForestShowsFailures ==
  ASSUME Typing, Forest
  PROVE  FailureShows
<1> DEFINE shown(status) == {r \in Runs : RootOf(r) # 0 /\ Steps(r) <= TreeCap /\ run[r].status \in status}
<1>1. \A r \in Roots : r \in Runs /\ r # 0 /\ Tree(r) = {y \in Runs : RootOf(y) = r /\ Steps(y) <= TreeCap}
  BY ParentIsOlder, TreeIs DEF Roots
<1>2. \A y \in Runs : RootOf(y) # 0 => RootOf(y) \in Roots
  <2> DEFINE odd == {y \in 0 .. Len(run) : RootOf(y) # 0 /\ RootOf(y) \notin Roots}
  <2>1. odd = {}
    <3> SUFFICES ASSUME odd # {} PROVE FALSE
      OBVIOUS
    <3>1. odd \subseteq Nat
      BY ParentIsOlder
    <3>2. PICK y \in odd : \A z \in odd : y <= z
      BY <3>1, LeastNat
    <3>3. y \in 0 .. Len(run) /\ RootOf(y) # 0 /\ RootOf(y) \notin Roots
      BY <3>2
    <3>4. Exists(y) /\ RootOf(y) = IF run[y].parent = 0 THEN y ELSE RootOf(run[y].parent)
      BY <3>3, RootStep
    <3>5. run[y].parent # 0
      BY <3>3, <3>4 DEF Roots, Exists
    <3>6. run[y].parent \in 0 .. Len(run) /\ ~(y <= run[y].parent)
      BY <3>4, ParentIsOlder DEF Exists
    <3>7. run[y].parent \in odd
      BY <3>3, <3>4, <3>5, <3>6
    <3> HIDE DEF odd
    <3> QED
      BY <3>2, <3>6, <3>7
  <2> QED
    BY <2>1, ParentIsOlder DEF Runs
<1>3. UNION {RunsTree("failed", p) : p \in Pages} = {x \in Roots : StatusRollup(x) = "failed"}
  <2>1. \A p \in Pages : RunsTree("failed", p) = {x \in RootsOn(p) : StatusRollup(x) = "failed"}
    BY DEF RunsTree
  <2>2. \A p \in Pages : RootsOn(p) \subseteq Roots
    BY DEF RootsOn
  <2> QED
    BY <2>1, <2>2, RootIsOnAPage
<1>4. {x \in Roots : StatusRollup(x) = "failed"} = {RootOf(r) : r \in shown({"failed"})}
  <2>1. ASSUME NEW x \in Roots, StatusRollup(x) = "failed"
        PROVE  x \in {RootOf(r) : r \in shown({"failed"})}
    <3>1. PICK y \in Tree(x) : run[y].status = "failed"
      BY <2>1, StatusRollupFails
    <3>2. y \in shown({"failed"}) /\ RootOf(y) = x
      BY <1>1, <3>1
    <3> QED
      BY <3>2
  <2>2. ASSUME NEW r \in shown({"failed"})
        PROVE  RootOf(r) \in Roots /\ StatusRollup(RootOf(r)) = "failed"
    <3>1. r \in Runs /\ RootOf(r) \in Roots /\ Steps(r) <= TreeCap /\ run[r].status = "failed"
      BY <1>2
    <3>2. r \in Tree(RootOf(r))
      BY <1>1, <3>1
    <3> QED
      BY <3>1, <3>2, StatusRollupFails
  <2> HIDE DEF shown
  <2> QED
    BY <2>1, <2>2
<1>5. ASSUME NEW x \in Roots
      PROVE  Rollup(x).failed = Cardinality({r \in shown({"failed", "stuck"}) \ {x} : RootOf(r) = x})
  <2>1. Rollup(x) = Rollups(x)[x] /\ x \in Tree(x) /\ Under(x, x) = Tree(x)
    BY RollupIs, TreeClimbs, UnderRoot
  <2>2. Rollups(x)[x].failed = Cardinality(Bad(x, x) \ {x})
    BY <2>1, RollupTells
  <2>3. Bad(x, x) \ {x} = {r \in shown({"failed", "stuck"}) \ {x} : RootOf(r) = x}
    BY <1>1, <2>1 DEF Bad, Fails
  <2> QED
    BY <2>1, <2>2, <2>3
<1> QED
  BY <1>3, <1>4, <1>5 DEF FailureShows

-------------------------------------------------------------------------------
(* What a step may do to the rows: they keep their kind and parent, a      *)
(* deleted one stays deleted, and at most one is added, under a row that is *)
(* there.                                                                  *)

GoesOn(old, new) ==
    /\ new.parent = old.parent /\ new.kind = old.kind
    /\ old.status = "deleted" => new.status = "deleted"

Kept == Runs' = Runs /\ \A r \in Runs : GoesOn(run[r], run'[r])

Hangs(x) ==
    /\ x.parent \in 0 .. Len(run)
    /\ x.kind = "dispatched" /\ x.parent # 0 => Depth(x.parent) < MaxDepth

Added == \E x : Grown(x, Len(run) + 1) /\ Hangs(x)

LEMMA RowChanges ==
  ASSUME Typing, NEW r \in Runs, NEW v, run' = [run EXCEPT ![r] = v], GoesOn(run[r], v)
  PROVE  Kept
<1>1. run \in Seq(Rows) /\ DOMAIN run = 1 .. Len(run)
  BY DEF Typing
<1>2. Runs' = Runs
  <2>1. Len(run') = Len(run)
    BY <1>1
  <2> QED
    BY <2>1 DEF Runs
<1>3. \A q \in Runs : run'[q] = IF q = r THEN v ELSE run[q]
  BY <1>1 DEF Runs
<1> QED
  BY <1>2, <1>3 DEF Kept, GoesOn

LEMMA RowsMapped ==
  ASSUME Typing, NEW new, run' = [r \in Runs |-> new[r]], \A r \in Runs : GoesOn(run[r], new[r])
  PROVE  Kept
<1>1. Len(run) \in Nat
  BY DEF Typing
<1>2. Len(run') = Len(run)
  BY <1>1 DEF Runs
<1>3. Runs' = Runs
  BY <1>2 DEF Runs
<1> QED
  BY <1>3 DEF Kept

LEMMA RowAppended ==
  ASSUME Typing, NEW x, run' = Append(run, x), Hangs(x)
  PROVE  Added
<1>1. PICK n : n = Len(run) + 1
  OBVIOUS
<1>2. Grown(x, n)
  BY <1>1, AppendedGrows
<1> QED
  BY <1>1, <1>2 DEF Added

LEMMA MostRecentIsARow ==
  ASSUME Standing, NEW h
  PROVE  MostRecent(h) = 0 \/ MostRecent(h) \in Runs
BY MostRecentIsRunning DEF Standing

LEMMA ServesRows ==
  ASSUME Standing, Serves
  PROVE  Kept \/ Added
<1>0. Typing /\ Len(run) \in Nat /\ \A r \in Runs : run[r] \in Rows
  BY DEF Standing, Typing, Runs
<1>1. CASE OpenCommand
  <2>1. PICK g \in scenario.agents :
            run' = Append(run, Row("command", g, 0, Head(wire).s, "running", Head(wire).a, SystemOps))
    BY <1>1 DEF OpenCommand
  <2>2. PICK x : x = Row("command", g, 0, Head(wire).s, "running", Head(wire).a, SystemOps)
    OBVIOUS
  <2>3. x.parent = 0 /\ x.kind = "command"
    BY <2>2 DEF Row
  <2>4. Hangs(x)
    BY <1>0, <2>3 DEF Hangs
  <2> QED
    BY <1>0, <2>1, <2>2, <2>4, RowAppended
<1>2. CASE OpenSubagent
  <2>1. PICK p, s : p = MostRecent(s) /\ s = Head(wire).s
    OBVIOUS
  <2>2. PICK g \in scenario.agents :
            run' = Append(run, Row("subagent", g, p, s, "running", Head(wire).a, GoalOf(p)))
    BY <1>2, <2>1 DEF OpenSubagent
  <2>3. PICK x : x = Row("subagent", g, p, s, "running", Head(wire).a, GoalOf(p))
    OBVIOUS
  <2>4. x.parent = p /\ x.kind = "subagent"
    BY <2>3 DEF Row
  <2>5. p \in 0 .. Len(run)
    BY <1>0, <2>1, MostRecentIsARow DEF Runs
  <2>6. Hangs(x)
    BY <2>4, <2>5 DEF Hangs
  <2> QED
    BY <1>0, <2>2, <2>3, <2>6, RowAppended
<1>3. CASE CloseCommands
  <2>1. PICK new : new = [r \in Runs |->
                 IF /\ run[r].kind = "command" /\ run[r].session = Head(wire).s
                    /\ run[r].status = "running" /\ ~run[r].old
                 THEN [run[r] EXCEPT !.status = "completed"] ELSE run[r]]
    OBVIOUS
  <2>2. run' = [r \in Runs |-> new[r]]
    BY <1>3, <2>1 DEF CloseCommands
  <2>3. \A r \in Runs : GoesOn(run[r], new[r])
    BY <1>0, <2>1 DEF Rows, GoesOn
  <2> QED
    BY <1>0, <2>2, <2>3, RowsMapped
<1>4. CASE CloseSubagent
  <2>1. PICK new : new = [r \in Runs |->
                 IF run[r].kind = "subagent" /\ run[r].actor = Head(wire).a /\ run[r].status = "running"
                 THEN [run[r] EXCEPT !.status = "completed"] ELSE run[r]]
    OBVIOUS
  <2>2. run' = [r \in Runs |-> new[r]]
    BY <1>4, <2>1 DEF CloseSubagent
  <2>3. \A r \in Runs : GoesOn(run[r], new[r])
    BY <1>0, <2>1 DEF Rows, GoesOn
  <2> QED
    BY <1>0, <2>2, <2>3, RowsMapped
<1>5. CASE RecordSkill
  <2>1. PICK r : r = MostRecent(Head(wire).s)
    OBVIOUS
  <2>2. r = 0 \/ r \in Runs
    BY <1>0, <2>1, MostRecentIsARow
  <2>3. PICK o : o = Owner(Head(wire).a)
    OBVIOUS
  <2>4. run' = IF r = 0 THEN run ELSE [run EXCEPT ![r].skills = @ \cup {o}]
    BY <1>5, <2>1, <2>3 DEF RecordSkill
  <2>5. CASE r = 0
    <3>1. run' = run
      BY <2>4, <2>5
    <3> QED
      BY <3>1 DEF Kept, GoesOn, Runs
  <2>6. CASE r # 0
    <3>1. r \in Runs
      BY <2>2, <2>6
    <3>2. PICK v : v = [run[r] EXCEPT !.skills = @ \cup {o}]
      OBVIOUS
    <3>3. run' = [run EXCEPT ![r] = v]
      BY <2>4, <2>6, <3>2
    <3>4. GoesOn(run[r], v)
      BY <1>0, <3>1, <3>2 DEF Rows, GoesOn
    <3> QED
      BY <1>0, <3>1, <3>3, <3>4, RowChanges
  <2> QED
    BY <2>5, <2>6
<1> QED
  BY <1>1, <1>2, <1>3, <1>4, <1>5 DEF Serves

LEMMA DispatcherRows ==
  ASSUME Standing, NEW r \in Runs,
         \/ Refuse(r) \/ Launch(r) \/ DiscoverSession(r) \/ Finalize(r) \/ Stuck(r) \/ FailRun(r) \/ DeleteRun(r)
  PROVE  Kept
<1>0. Typing /\ run[r] \in Rows
  BY DEF Standing, Typing, Runs
<1>1. CASE \E st : /\ run' = [run EXCEPT ![r].status = st]
                   /\ run[r].status # "deleted"
  <2>1. PICK st : run' = [run EXCEPT ![r].status = st]
    BY <1>1
  <2>2. PICK v : v = [run[r] EXCEPT !.status = st]
    OBVIOUS
  <2>3. run' = [run EXCEPT ![r] = v] /\ GoesOn(run[r], v)
    BY <1>0, <1>1, <2>1, <2>2 DEF Rows, GoesOn
  <2> QED
    BY <1>0, <2>3, RowChanges
<1>2. CASE DiscoverSession(r)
  <2>1. PICK v : v = [run[r] EXCEPT !.session = Where(r)]
    OBVIOUS
  <2>2. run' = [run EXCEPT ![r] = v]
    BY <1>2, <2>1 DEF DiscoverSession
  <2>3. GoesOn(run[r], v)
    BY <1>0, <2>1 DEF Rows, GoesOn
  <2> QED
    BY <1>0, <2>2, <2>3, RowChanges
<1>3. CASE Launch(r)
  <2>1. PICK now, a : now = Now /\ a = Len(actors) + 1
    OBVIOUS
  <2>2. PICK v : v = [run[r] EXCEPT !.status = "running", !.started = now, !.actor = a]
    OBVIOUS
  <2>3. /\ run' = [run EXCEPT ![r].status = "running", ![r].started = now, ![r].actor = a]
        /\ run[r].status = "pending"
    BY <1>3, <2>1 DEF Launch
  <2>4. run' = [run EXCEPT ![r] = v]
    <3>1. run \in Seq(Rows) /\ r \in DOMAIN run
      BY <1>0 DEF Typing, Runs
    <3> QED
      BY <1>0, <2>2, <2>3, <3>1 DEF Rows
  <2>5. GoesOn(run[r], v)
    BY <1>0, <2>2, <2>3 DEF Rows, GoesOn
  <2> QED
    BY <1>0, <2>4, <2>5, RowChanges
<1> QED
  BY <1>1, <1>2, <1>3 DEF Refuse, Finalize, Stuck, FailRun, DeleteRun

LEMMA NextRows ==
  ASSUME Standing, [Next]_vars
  PROVE  Kept \/ Added
<1>0. Typing /\ Len(run) \in Nat /\ \A r \in Runs : run[r] \in Rows
  BY DEF Standing, Typing, Runs
<1>1. CASE UNCHANGED run
  BY <1>1 DEF Kept, GoesOn, Runs
<1>2. CASE Hooks
  <2>1. UNCHANGED run
    BY <1>2 DEF Hooks, UserPromptStart, UserPromptStop, SubagentStart, SubagentStop, SkillInvoke, server
  <2> QED
    BY <1>1, <2>1
<1>3. CASE HourPasses
  <2>1. PICK long : long = {r \in Runs : run[r].kind = "command" /\ run[r].status = "running" /\ ~run[r].old}
    OBVIOUS
  <2>2. PICK new : new = [r \in Runs |-> [run[r] EXCEPT !.old = @ \/ r \in long]]
    OBVIOUS
  <2>3. run' = [r \in Runs |-> new[r]]
    BY <1>3, <2>1, <2>2 DEF HourPasses
  <2>4. \A r \in Runs : GoesOn(run[r], new[r])
    BY <1>0, <2>2 DEF Rows, GoesOn
  <2> QED
    BY <1>0, <2>3, <2>4, RowsMapped
<1>4. CASE Restart
  <2>1. PICK lost : lost = {r \in Runs : /\ run[r].status = "running"
                                         /\ run[r].kind = "dispatched" => live[Where(r)] = {}}
    OBVIOUS
  <2>2. PICK new : new = [r \in Runs |-> IF r \in lost THEN [run[r] EXCEPT !.status = StatusOf(r)] ELSE run[r]]
    OBVIOUS
  <2>3. run' = [r \in Runs |-> new[r]]
    BY <1>4, <2>1, <2>2 DEF Restart
  <2>4. \A r \in Runs : GoesOn(run[r], new[r])
    BY <1>0, <2>1, <2>2 DEF Rows, GoesOn
  <2> QED
    BY <1>0, <2>3, <2>4, RowsMapped
<1>5. ASSUME NEW parent \in 0 .. Len(run), NEW g \in scenario.agents, TriggerAgent(parent, g)
      PROVE  Added
  <2>1. PICK x : x = Row("dispatched", g, parent, None, "pending", 0, "goal")
    OBVIOUS
  <2>2. run' = Append(run, x) /\ (parent # 0 => Depth(parent) < MaxDepth)
    BY <1>5, <2>1 DEF TriggerAgent
  <2>3. x.parent = parent
    BY <2>1 DEF Row
  <2>4. Hangs(x)
    BY <2>2, <2>3 DEF Hangs
  <2> QED
    BY <1>0, <2>2, <2>4, RowAppended
<1>6. ASSUME NEW r \in Runs, Dispatched(r) \/ FailRun(r) \/ DeleteRun(r) \/ PollStep(r) \/ ParentGone(r)
      PROVE  Kept
  <2>1. CASE (\E kind \in scenario.writes : ChildWrites(r, kind)) \/ PollStep(r) \/ ParentGone(r)
    <3>1. UNCHANGED run
      BY <2>1 DEF ChildWrites, PollStep, ParentGone, server
    <3> QED
      BY <3>1 DEF Kept, GoesOn, Runs
  <2> QED
    BY <1>6, <2>1, DispatcherRows DEF Dispatched
<1>7. CASE (\E t \in Terminals : TerminalEnds(t)) \/ (\E g \in Agents : ResolveMemory(g)) \/ UNCHANGED vars
  <2>1. UNCHANGED run
    BY <1>7 DEF TerminalEnds, ResolveMemory, vars, server
  <2> QED
    BY <1>1, <2>1
<1> QED
  BY <1>2, <1>3, <1>4, <1>5, <1>6, <1>7, ServesRows DEF Next

LEMMA InitForest ==
  ASSUME Init
  PROVE  Forest
<1>1. Runs = {}
  BY DEF Init, Runs
<1> QED
  BY <1>1 DEF Forest

LEMMA NextForest ==
  ASSUME Standing, Forest, [Next]_vars
  PROVE  Forest'
<1>1. CASE Kept
  BY <1>1 DEF Kept, GoesOn, Forest
<1>2. CASE Added
  <2>1. PICK n : n = Len(run) + 1
    OBVIOUS
  <2>2. PICK x : Grown(x, n) /\ Hangs(x)
    BY <1>2, <2>1 DEF Added
  <2>3. x.parent < n
    BY <2>1, <2>2 DEF Hangs, Standing, Typing
  <2> QED
    BY <2>2, <2>3 DEF Grown, Forest
<1> QED
  BY <1>1, <1>2, NextRows

\* Every run hangs under an older one, so the page's recursive query ends and every row that is
\* there has a root or a deleted row above it (trigger_agent, resolve_parent_for_subagent).
THEOREM ParentsComeFirst == Spec => []Forest
<1>1. Init => Inv /\ Forest
  BY InitInv, InitForest
<1>2. Inv /\ Forest /\ [Next]_vars => Inv' /\ Forest'
  BY NextInv, NextForest DEF Inv
<1> QED
  BY <1>1, <1>2, PTL DEF Spec

\* The filter "failed" of /runs lists exactly the roots with a failed run within the depth of the
\* tree, on whatever page, and each root counts exactly the failed and stuck runs below it
\* (get_runs_tree, get_run_with_rollups, _compute_rollups), for trees of any shape.
THEOREM FailuresAreShown == Spec => []FailureShows
<1>1. Inv /\ Forest => FailureShows
  BY ForestShowsFailures DEF Inv, Standing
<1> QED
  BY <1>1, InvHolds, ParentsComeFirst, PTL

\* The page of a root counts what is below it and shows the worst status of its tree, whatever
\* is between the root and the row it comes from (_compute_rollups on the tree of
\* get_run_with_rollups).
THEOREM RootsSumUpTheirTrees ==
  Spec => [](\A x \in Roots :
               /\ Rollup(x).count = Cardinality(Tree(x) \ {x})
               /\ \A y \in Tree(x) : SeverityOf(run[y].status) <= Severity[StatusRollup(x)]
               /\ \E y \in Tree(x) : SeverityOf(run[y].status) = Severity[StatusRollup(x)])
<1> DEFINE Sums == \A x \in Roots :
               /\ Rollup(x).count = Cardinality(Tree(x) \ {x})
               /\ \A y \in Tree(x) : SeverityOf(run[y].status) <= Severity[StatusRollup(x)]
               /\ \E y \in Tree(x) : SeverityOf(run[y].status) = Severity[StatusRollup(x)]
<1>1. ASSUME Inv, Forest
      PROVE  Sums
  <2> SUFFICES ASSUME NEW x \in Roots
               PROVE  /\ Rollup(x).count = Cardinality(Tree(x) \ {x})
                      /\ \A y \in Tree(x) : SeverityOf(run[y].status) <= Severity[StatusRollup(x)]
                      /\ \E y \in Tree(x) : SeverityOf(run[y].status) = Severity[StatusRollup(x)]
    OBVIOUS
  <2>0. Typing /\ Forest
    BY <1>1 DEF Inv, Standing
  <2>1. Under(x, x) = Tree(x) /\ x \in Tree(x) /\ Rollup(x) = Rollups(x)[x]
    BY <2>0, UnderRoot, TreeClimbs, RollupIs
  <2>2. Rollups(x)[x].count = Cardinality(Under(x, x) \ {x})
    BY <2>0, <2>1, RollupTells
  <2>3. Rollup(x).count = Cardinality(Tree(x) \ {x})
    BY <2>1, <2>2
  <2>4. PICK sev : sev = Severity[StatusRollup(x)]
    OBVIOUS
  <2>5. Worst(x, x, sev)
    BY <2>0, <2>4, StatusRollupIs
  <2> QED
    BY <2>1, <2>3, <2>4, <2>5 DEF Worst
<1>2. Inv /\ Forest => Sums
  BY <1>1
<1> QED
  BY <1>2, InvHolds, ParentsComeFirst, PTL

-------------------------------------------------------------------------------
(* Delegation is bounded: rows only lose what is above them.               *)

LEMMA DepthIs ==
  ASSUME Typing, Forest, NEW r \in 0 .. Len(run)
  PROVE  /\ Depth(r) <= MaxDepth <=> Steps(r) <= MaxDepth
         /\ Depth(r) < MaxDepth <=> Steps(r) < MaxDepth
<1>1. Depth(r) = Min({Steps(r), MaxDepth + 2})
  BY DEF Depth, Steps
<1>2. PICK n, m : n = Steps(r) /\ m = MaxDepth
  OBVIOUS
<1>3. n \in Nat /\ m \in Nat
  BY <1>2, StepsAreNatural, DelegationAssumption
<1>4. PICK k : k = Min({n, m + 2})
  OBVIOUS
<1>5. k \in {n, m + 2} /\ k <= n /\ k <= m + 2
  <2>1. {n, m + 2} \subseteq Nat /\ {n, m + 2} # {}
    BY <1>3
  <2>2. Min({n, m + 2}) \in {n, m + 2} /\ \A y \in {n, m + 2} : Min({n, m + 2}) <= y
    BY <2>1, MinIsLeast
  <2> QED
    BY <1>4, <2>2
<1>6. (k <= m <=> n <= m) /\ (k < m <=> n < m)
  BY <1>3, <1>5
<1> QED
  BY <1>1, <1>2, <1>4, <1>6

\* The steps to the root, one by one, as they are needed before and after a step.
StepsClimb ==
    \A x \in 0 .. Len(run) :
        /\ Steps(x) \in Nat
        /\ Steps(x) = IF ~Exists(x) \/ run[x].parent = 0 THEN 0 ELSE 1 + Steps(run[x].parent)

LEMMA StepsAre == Typing /\ Forest => StepsClimb
BY StepsStep, StepsAreNatural DEF StepsClimb

LEMMA StepsShrink ==
  ASSUME Typing, Forest, Typing', Forest', \A r \in Runs : r \in Runs',
         \A r \in Runs : run'[r].parent = run[r].parent,
         \A r \in Runs : run[r].status = "deleted" => run'[r].status = "deleted"
  PROVE  \A r \in Runs : Steps(r)' <= Steps(r)
<1>1. StepsClimb
  BY StepsAre
<1>2. StepsClimb'
  <2>1. (Typing /\ Forest => StepsClimb)'
    BY StepsAre, PTL
  <2> QED
    BY <2>1
<1>3. /\ Len(run) \in Nat /\ Len(run') \in Nat
      /\ \A r \in Runs : r \in Nat /\ r # 0 /\ run[r].parent \in 0 .. Len(run) /\ run[r].parent < r
      /\ \A r \in Runs : run[r].parent \in Runs <=> run[r].parent # 0
  <2>1. Len(run') \in Nat
    BY DEF Typing
  <2> QED
    BY <2>1, ParentIsOlder
<1> DEFINE odd == {r \in Runs : ~(Steps(r)' <= Steps(r))}
<1>4. odd = {}
  <2> SUFFICES ASSUME odd # {} PROVE FALSE
    OBVIOUS
  <2>1. odd \subseteq Nat
    BY <1>3
  <2>2. PICK r \in odd : \A q \in odd : r <= q
    BY <2>1, LeastNat
  <2>3. r \in Runs /\ ~(Steps(r)' <= Steps(r)) /\ r \in Runs'
    BY <2>2
  <2>4. PICK p : p = run[r].parent
    OBVIOUS
  <2>5. /\ r \in 0 .. Len(run) /\ r \in 0 .. Len(run')
    BY <1>3, <2>3 DEF Runs
  <2>6. PICK n, m : n = Steps(r) /\ m = Steps(r)'
    OBVIOUS
  <2>7. /\ n \in Nat
        /\ n = IF ~Exists(r) \/ p = 0 THEN 0 ELSE 1 + Steps(p)
    BY <1>1, <2>4, <2>5, <2>6 DEF StepsClimb
  <2>8. run'[r].parent = p
    BY <2>3, <2>4
  <2>9. /\ m \in Nat
        /\ m = IF ~Exists(r)' \/ p = 0 THEN 0 ELSE 1 + Steps(p)'
    BY <1>2, <2>5, <2>6, <2>8 DEF StepsClimb
  <2>10. Exists(r)' => Exists(r)
    BY <2>3 DEF Exists
  <2>11. CASE ~Exists(r)' \/ p = 0
    BY <2>3, <2>6, <2>7, <2>9, <2>11
  <2>12. CASE Exists(r)' /\ p # 0
    <3>1. p \in Runs /\ p < r /\ p \in Nat /\ r \in Nat
      BY <1>3, <2>3, <2>4, <2>12
    <3>2. p \notin odd
      BY <2>2, <3>1
    <3>3. Steps(p)' <= Steps(p)
      BY <3>1, <3>2
    <3>4. p \in 0 .. Len(run) /\ p \in 0 .. Len(run')
      BY <1>3, <3>1 DEF Runs
    <3>5. Steps(p) \in Nat /\ Steps(p)' \in Nat
      BY <1>1, <1>2, <3>4 DEF StepsClimb
    <3>6. n = 1 + Steps(p) /\ m = 1 + Steps(p)'
      BY <2>7, <2>9, <2>10, <2>12
    <3> QED
      BY <2>3, <2>6, <3>3, <3>5, <3>6
  <2> QED
    BY <2>11, <2>12
<1> QED
  BY <1>4

Bounded == \A r \in Runs : run[r].kind = "dispatched" => Steps(r) <= MaxDepth

LEMMA NextBounded ==
  ASSUME Inv, Forest, Bounded, Inv', Forest', [Next]_vars
  PROVE  Bounded'
<1>0. Standing /\ Typing /\ Typing' /\ Len(run) \in Nat /\ Len(run') \in Nat
  BY DEF Inv, Standing, Typing
<1>1. ASSUME \A r \in Runs : r \in Runs' /\ GoesOn(run[r], run'[r])
      PROVE  /\ \A r \in Runs : Steps(r)' <= Steps(r)
             /\ \A r \in Runs : run'[r].kind = "dispatched" => Steps(r)' <= MaxDepth
  <2>1. \A r \in Runs : Steps(r)' <= Steps(r)
    BY <1>0, <1>1, StepsShrink DEF GoesOn
  <2>2. ASSUME NEW r \in Runs, run'[r].kind = "dispatched"
        PROVE  Steps(r)' <= MaxDepth
    <3>1. Steps(r) <= MaxDepth
      BY <1>1, <2>2 DEF Bounded, GoesOn
    <3>2. Steps(r) \in Nat
      BY <1>0, StepsAre DEF StepsClimb, Runs
    <3>3. Steps(r)' \in Nat
      <4>1. (Typing /\ Forest => StepsClimb)'
        BY StepsAre, PTL
      <4>2. r \in 0 .. Len(run')
        BY <1>0, <1>1 DEF Runs
      <4> QED
        BY <1>0, <4>1, <4>2 DEF StepsClimb
    <3>4. PICK n, m, k : n = Steps(r)' /\ m = Steps(r) /\ k = MaxDepth
      OBVIOUS
    <3>5. n <= m /\ m <= k /\ n \in Nat /\ m \in Nat /\ k \in Nat
      BY <2>1, <3>1, <3>2, <3>3, <3>4, DelegationAssumption
    <3>6. n <= k
      BY <3>5
    <3> QED
      BY <3>4, <3>6
  <2> QED
    BY <2>1, <2>2
<1>2. CASE Kept
  BY <1>1, <1>2 DEF Kept, Bounded
<1>3. CASE Added
  <2>1. PICK n : n = Len(run) + 1
    OBVIOUS
  <2>2. PICK x : Grown(x, n) /\ Hangs(x)
    BY <1>3, <2>1 DEF Added
  <2>3. \A r \in Runs : r \in Runs' /\ GoesOn(run[r], run'[r])
    BY <2>2 DEF Grown, GoesOn
  <2>4. PICK p : p = x.parent
    OBVIOUS
  <2>5. p \in 0 .. Len(run) /\ (x.kind = "dispatched" /\ p # 0 => Depth(p) < MaxDepth)
    BY <2>2, <2>4 DEF Hangs
  <2>6. n \in Runs' /\ run'[n] = x /\ n \in 0 .. Len(run')
    BY <1>0, <2>2 DEF Grown, Runs
  <2>7. StepsClimb'
    <3>1. (Typing /\ Forest => StepsClimb)'
      BY StepsAre, PTL
    <3> QED
      BY <1>0, <3>1
  <2>8. ASSUME x.kind = "dispatched"
        PROVE  Steps(n)' <= MaxDepth
    <3>1. PICK s, m : s = Steps(n)' /\ m = MaxDepth
      OBVIOUS
    <3>2. s = IF ~Exists(n)' \/ p = 0 THEN 0 ELSE 1 + Steps(p)'
      BY <2>4, <2>6, <2>7, <3>1 DEF StepsClimb
    <3>3. m \in Nat
      BY <3>1, DelegationAssumption
    <3>4. CASE p = 0
      BY <3>1, <3>2, <3>3, <3>4
    <3>5. CASE p # 0
      <4>1. p \in Runs /\ p \in 0 .. Len(run')
        BY <1>0, <2>3, <2>5, <3>5 DEF Runs
      <4>2. Steps(p) < MaxDepth
        BY <1>0, <2>5, <2>8, <3>5, DepthIs
      <4>3. Steps(p)' <= Steps(p)
        BY <1>1, <2>3, <4>1
      <4>4. Steps(p)' \in Nat
        BY <2>7, <4>1 DEF StepsClimb
      <4>5. Steps(p) \in Nat
        BY <1>0, <2>5, StepsAre DEF StepsClimb
      <4>6. PICK i, j : i = Steps(p)' /\ j = Steps(p)
        OBVIOUS
      <4>7. i <= j /\ j < m /\ i \in Nat /\ j \in Nat /\ s = IF ~Exists(n)' \/ p = 0 THEN 0 ELSE 1 + i
        BY <3>1, <3>2, <4>2, <4>3, <4>4, <4>5, <4>6
      <4>8. s <= m
        BY <3>3, <4>7
      <4> QED
        BY <3>1, <4>8
    <3> QED
      BY <3>4, <3>5
  <2>9. Runs' = Runs \cup {n}
    BY <2>2 DEF Grown
  <2> QED
    BY <1>1, <2>3, <2>6, <2>8, <2>9 DEF Bounded
<1> QED
  BY <1>0, <1>2, <1>3, NextRows

LEMMA BoundedHolds == Spec => []Bounded
<1>1. Init => Bounded
  <2>1. Init => Runs = {}
    BY DEF Init, Runs
  <2> QED
    BY <2>1 DEF Bounded
<1>2. Inv /\ Forest /\ Bounded /\ Inv' /\ Forest' /\ [Next]_vars => Bounded'
  BY NextBounded
<1> QED
  BY <1>1, <1>2, InvHolds, ParentsComeFirst, PTL DEF Spec

\* No delegated run ever has more than MAX_DELEGATION_DEPTH runs above it as _get_delegation_depth
\* counts them: rows keep their parents, and a row deleted in between only takes some away.
THEOREM DelegationIsBounded ==
  Spec => [](\A r \in Runs : run[r].kind = "dispatched" => Depth(r) <= MaxDepth)
<1>1. ASSUME Inv, Forest, Bounded
      PROVE  \A r \in Runs : run[r].kind = "dispatched" => Depth(r) <= MaxDepth
  <2>1. Typing /\ Len(run) \in Nat
    BY <1>1 DEF Inv, Standing, Typing
  <2>2. \A r \in Runs : r \in 0 .. Len(run)
    BY <2>1 DEF Runs
  <2> QED
    BY <1>1, <2>1, <2>2, DepthIs DEF Bounded
<1>2. Inv /\ Forest /\ Bounded => \A r \in Runs : run[r].kind = "dispatched" => Depth(r) <= MaxDepth
  BY <1>1
<1> QED
  BY <1>2, InvHolds, ParentsComeFirst, BoundedHolds, PTL

\* As the tree is shown deeper than delegation goes (_TREE_DEPTH_CAP is 10, MAX_DELEGATION_DEPTH
\* is 3), a delegated run that failed always has its root listed among the failed ones, unless a
\* row above it was deleted.
THEOREM DelegatedFailuresShow ==
  ASSUME MaxDepth <= TreeCap
  PROVE  Spec => [](\A r \in Runs :
             run[r].kind = "dispatched" /\ run[r].status = "failed" /\ RootOf(r) # 0 =>
                 \E p \in Pages : RootOf(r) \in RunsTree("failed", p))
<1> DEFINE Listed == \A r \in Runs : run[r].kind = "dispatched" /\ run[r].status = "failed" /\ RootOf(r) # 0 =>
                        \E p \in Pages : RootOf(r) \in RunsTree("failed", p)
<1>1. ASSUME Inv, Forest, Bounded, FailureShows
      PROVE  Listed
  <2> SUFFICES ASSUME NEW r \in Runs, run[r].kind = "dispatched", run[r].status = "failed", RootOf(r) # 0
               PROVE  \E p \in Pages : RootOf(r) \in RunsTree("failed", p)
    OBVIOUS
  <2>1. Typing /\ r \in 0 .. Len(run)
    BY <1>1 DEF Inv, Standing, Typing, Runs
  <2>2. PICK n, m, k : n = Steps(r) /\ m = MaxDepth /\ k = TreeCap
    OBVIOUS
  <2>3. n \in Nat /\ m \in Nat /\ k \in Nat /\ n <= m /\ m <= k
    BY <1>1, <2>1, <2>2, StepsAreNatural, DelegationAssumption DEF Bounded
  <2>4. n <= k
    BY <2>3
  <2>5. PICK shown : shown = {q \in Runs : RootOf(q) # 0 /\ Steps(q) <= TreeCap /\ run[q].status \in {"failed"}}
    OBVIOUS
  <2>6. r \in shown
    BY <2>2, <2>4, <2>5
  <2>7. UNION {RunsTree("failed", p) : p \in Pages} = {RootOf(q) : q \in shown}
    BY <1>1, <2>5 DEF FailureShows
  <2>8. RootOf(r) \in UNION {RunsTree("failed", p) : p \in Pages}
    BY <2>6, <2>7
  <2> QED
    BY <2>8
<1>2. Inv /\ Forest /\ Bounded /\ FailureShows => Listed
  BY <1>1
<1> QED
  BY <1>2, InvHolds, ParentsComeFirst, BoundedHolds, FailuresAreShown, PTL

===============================================================================
