------------------------------ MODULE FeedProofs ------------------------------
(***************************************************************************)
(* What the feeds promise their readers, proved for any values of the      *)
(* constants: a follower of the events of a machine is given them in the   *)
(* order they were written, and the mirror it keeps is never wrong; what a *)
(* reader of a session's content holds of a text is that text.             *)
(***************************************************************************)
EXTENDS Integers, Sequences, FiniteSets, FiniteSetTheorems, SequenceTheorems,
  WellFoundedInduction, TLAPS

CONSTANTS Names, States, MaxBytes, MaxEvents, MaxPasses, MaxDaemons, MaxLost, None,
  Texts, Requests, MaxRecords, MaxItems, MaxPositions, ItemUnits, MaxUnits, MaxGenerations, MaxResets

VARIABLES file, writer, count, pub, snap, past, reader, lost, passes,
  native, buf, next, writing, live, resets

Events == INSTANCE EventFeed
Content == INSTANCE ContentFeed

-----------------------------------------------------------------------------
(* Counting up *)

\* A set of numbers with 0 and the successor of each of its numbers has them all.
LEMMA SetInduction ==
  ASSUME NEW S, 0 \in S, \A n \in Nat : n \in S => n + 1 \in S
  PROVE  Nat \subseteq S
<1> DEFINE T == {n \in Nat : n \notin S}
           R == OpToRel(<, Nat)
<1> SUFFICES ASSUME T # {} PROVE FALSE OBVIOUS
<1>1. IsWellFoundedOn(R, Nat) BY NatLessThanWellFounded
<1>2. T \subseteq Nat OBVIOUS
<1> HIDE DEF T
<1>3. PICK x \in T : \A y \in T : ~(<<y, x>> \in R)
  <2> HIDE DEF R
  <2> QED BY <1>1, <1>2, WFMin
<1>4. x # 0 BY DEF T
<1>5. x - 1 \in Nat /\ x - 1 \notin T
  <2>1. x \in Nat BY <1>2
  <2>2. x - 1 \in Nat BY <2>1, <1>4
  <2>3. <<x - 1, x>> \in R BY <2>1, <2>2 DEF OpToRel
  <2> QED BY <2>2, <2>3, <1>3
<1>6. x - 1 \in S BY <1>5 DEF T
<1>7. x \in S
  <2>1. (x - 1) + 1 = x BY <1>2
  <2> QED BY <1>5, <1>6, <2>1
<1> QED BY <1>7 DEF T

\* The n steps that lead from a set into it, and what they make of a first value.
StepsIn(n, X) == [1..n -> [X -> X]]
PathsOf(n, X, a, step) ==
  {g \in [0..n -> X] : g[0] = a /\ \A k \in 1..n : g[k] = step[k][g[k - 1]]}

\* It is there.
LEMMA PathExists ==
  ASSUME NEW n \in Nat, NEW X, NEW a \in X, NEW step \in StepsIn(n, X)
  PROVE  \E g : g \in PathsOf(n, X, a, step)
<1> USE DEF StepsIn
<1> DEFINE Is(k, g) == g[0] = a /\ \A j \in 1..k : g[j] = step[j][g[j - 1]]
           S == {k \in Nat : k <= n => \E g \in [0..k -> X] : Is(k, g)}
<1>1. 0 \in S
  <2> DEFINE g == [j \in 0..0 |-> a]
  <2>1. g \in [0..0 -> X] /\ Is(0, g) OBVIOUS
  <2> QED BY <2>1
<1>2. ASSUME NEW k \in Nat, k \in S PROVE k + 1 \in S
  <2> SUFFICES ASSUME k + 1 <= n PROVE \E h \in [0..(k + 1) -> X] : Is(k + 1, h) OBVIOUS
  <2>1. PICK g \in [0..k -> X] : Is(k, g) BY <1>2
  <2> DEFINE h == [j \in 0..(k + 1) |-> IF j = k + 1 THEN step[k + 1][g[k]] ELSE g[j]]
  <2>2. k + 1 \in 1..n /\ k \in 0..k OBVIOUS
  <2>3. step[k + 1][g[k]] \in X BY <2>2
  <2>4. h \in [0..(k + 1) -> X] BY <2>3
  <2>5. h[0] = a BY <2>1
  <2>6. ASSUME NEW j \in 1..(k + 1) PROVE h[j] = step[j][h[j - 1]]
    <3>1. CASE j = k + 1
      <4>1. h[j] = step[k + 1][g[k]] BY <3>1
      <4>2. j - 1 = k /\ k \in 0..(k + 1) /\ k # k + 1 BY <3>1
      <4> QED BY <3>1, <4>1, <4>2
    <3>2. CASE j # k + 1
      <4>1. j \in 1..k /\ j - 1 \in 0..k /\ j - 1 # k + 1 BY <3>2
      <4>2. h[j] = g[j] /\ h[j - 1] = g[j - 1] BY <4>1, <3>2
      <4> QED BY <2>1, <4>1, <4>2
    <3> QED BY <3>1, <3>2
  <2> HIDE DEF h
  <2> QED BY <2>4, <2>5, <2>6
<1>3. n \in S
  <2> HIDE DEF S
  <2> QED BY <1>1, <1>2, SetInduction
<1> QED BY <1>3 DEF PathsOf
-----------------------------------------------------------------------------
(* The feed of events and its mirror *)

SoundEvents == Events!TypeOK /\ Events!EventsInv

\* A mirror that may be one: what it holds of a daemon, that daemon had.
Mirrors == {m \in {None} \cup Events!Snapshots : m # None => Events!RowsSound(m)}

\* An event that says what its change did keeps a mirror true.
LEMMA AppliedIs ==
  ASSUME Events!ConstantsOK, past \in [1..MaxDaemons -> Seq(Events!Rows)],
         NEW m \in Mirrors, NEW e \in Events!Events, Events!EventTrue(e)
  PROVE  Events!applied(m, e) \in Mirrors
<1>1. CASE m = None \/ e.gen = 0 BY <1>1 DEF Events!applied
<1>2. CASE m # None /\ e.gen # 0 /\ ~(m.gen # e.gen \/ e.seq > m.seq + 1) /\ ~(e.seq <= m.seq)
  <2>1. /\ m \in Events!Snapshots /\ m.seq \in Nat /\ e.seq \in Nat /\ e.seq = m.seq + 1
        /\ m.gen = e.gen /\ Events!RowsSound(m)
    BY <1>2 DEF Mirrors, Events!Snapshots, Events!Events
  <2> DEFINE t == [m EXCEPT !.seq = e.seq, !.rows[e.name] = e.row]
  <2>2. t = [gen |-> m.gen, seq |-> e.seq, rows |-> [m.rows EXCEPT ![e.name] = e.row]]
    <3>1. t.gen = m.gen /\ t.seq = e.seq /\ t.rows = [m.rows EXCEPT ![e.name] = e.row]
      BY <2>1 DEF Events!Snapshots
    <3>2. t \in [gen : {m.gen}, seq : {e.seq}, rows : {[m.rows EXCEPT ![e.name] = e.row]}]
      BY <2>1 DEF Events!Snapshots
    <3> HIDE DEF t
    <3>3. t = [gen |-> t.gen, seq |-> t.seq, rows |-> t.rows] BY <3>2
    <3> QED BY <3>1, <3>3
  <2>3. e.seq - 1 = m.seq BY <2>1
  <2>4. past[e.gen][e.seq] = [m.rows EXCEPT ![e.name] = e.row]
    BY <1>2, <2>1, <2>3 DEF Events!EventTrue, Events!RowsSound
  <2>5. e.seq \in 1..Len(past[m.gen]) BY <1>2, <2>1 DEF Events!EventTrue
  <2>6. [m.rows EXCEPT ![e.name] = e.row] \in Events!Rows
    <3>1. past[m.gen] \in Seq(Events!Rows) BY <2>1 DEF Events!Snapshots
    <3> QED BY <2>1, <2>4, <2>5, <3>1
  <2>7. t \in Events!Snapshots BY <2>1, <2>2, <2>6 DEF Events!Snapshots
  <2>8. Events!RowsSound(t) BY <2>1, <2>2, <2>4, <2>5 DEF Events!RowsSound, Events!RowsAt
  <2>9. Events!applied(m, e) = t BY <1>2 DEF Events!applied
  <2> HIDE DEF t
  <2> QED BY <2>7, <2>8, <2>9 DEF Mirrors
<1>3. CASE m # None /\ e.gen # 0 /\ (m.gen # e.gen \/ e.seq > m.seq + 1)
  BY <1>3 DEF Events!applied, Mirrors
<1>4. CASE m # None /\ e.gen # 0 /\ ~(m.gen # e.gen \/ e.seq > m.seq + 1) /\ e.seq <= m.seq
  BY <1>4 DEF Events!applied
<1> QED BY <1>1, <1>2, <1>3, <1>4

\* So do as many events as are read at once.
LEMMA MirroredIs ==
  ASSUME Events!ConstantsOK, past \in [1..MaxDaemons -> Seq(Events!Rows)],
         NEW m \in Mirrors, NEW es \in Seq(Events!Events),
         \A k \in 1..Len(es) : Events!EventTrue(es[k])
  PROVE  Events!Mirrored(m, es) \in Mirrors
<1> DEFINE n == Len(es)
           step == [k \in 1..n |-> [x \in Mirrors |-> Events!applied(x, es[k])]]
           Is(g) == g = [k \in 0..n |-> IF k = 0 THEN m ELSE Events!applied(g[k - 1], es[k])]
           f == CHOOSE g : Is(g)
           S == {k \in Nat : k <= n => f[k] \in Mirrors}
<1>1. n \in Nat OBVIOUS
<1>2. \A k \in 1..n, x \in Mirrors : Events!applied(x, es[k]) \in Mirrors BY AppliedIs
<1>3. step \in StepsIn(n, Mirrors) BY <1>2 DEF StepsIn
<1>4. PICK g : g \in PathsOf(n, Mirrors, m, step)
  <2> HIDE DEF n, step
  <2> QED BY <1>1, <1>3, PathExists
<1>5. Is(g)
  <2>1. g \in [0..n -> Mirrors] /\ g[0] = m /\ \A k \in 1..n : g[k] = step[k][g[k - 1]]
    BY <1>4 DEF PathsOf
  <2>2. ASSUME NEW k \in 1..n PROVE g[k] = Events!applied(g[k - 1], es[k])
    <3>1. k - 1 \in 0..n BY <1>1
    <3>2. g[k - 1] \in Mirrors BY <2>1, <3>1
    <3> QED BY <2>1, <3>2
  <2> HIDE DEF step
  <2>3. \A k \in 0..n : g[k] = IF k = 0 THEN m ELSE Events!applied(g[k - 1], es[k])
    BY <1>1, <2>1, <2>2
  <2> QED BY <2>1, <2>3
<1>6. Is(f)
  <2> HIDE DEF Is
  <2> QED BY <1>5
<1>7. f[0] = m /\ \A k \in 1..n : f[k] = Events!applied(f[k - 1], es[k])
  <2> HIDE DEF f
  <2> QED BY <1>1, <1>6
<1>8. Events!Mirrored(m, es) = f[n] BY DEF Events!Mirrored
<1> HIDE DEF f, n
<1>9. 0 \in S BY <1>7
<1>10. ASSUME NEW k \in Nat, k \in S PROVE k + 1 \in S
  <2>1. k + 1 <= n => k + 1 \in 1..n /\ (k + 1) - 1 = k /\ f[k] \in Mirrors BY <1>1, <1>10
  <2> QED BY <1>2, <1>7, <2>1
<1>11. n \in S
  <2> HIDE DEF S
  <2> QED BY <1>1, <1>9, <1>10, SetInduction
<1> QED BY <1>8, <1>11, <1>1

\* What a generation holds is a sequence of events.
LEMMA HeldIs ==
  ASSUME Events!TypeOK
  PROVE  /\ \A k \in Events!Files : Events!Held(k) \in Seq(Events!Events)
         /\ Events!Size(0) = Len(Events!Held(0)) /\ Events!Files = {0, 1, 2}
BY DEF Events!TypeOK, Events!Held, Events!Size, Events!Files, Events!Keep

\* A rename moves a generation up, over the one that is there: what is in a generation was in
\* it or in a newer one, and those that are left keep their order.
LEMMA ShiftIs ==
  ASSUME Events!TypeOK, NEW w \in Events!Writers, Events!Shift(w)
  PROVE  /\ UNCHANGED <<count, pub, snap, past, reader, lost, passes>>
         /\ \E up \in [Events!Files -> Events!Files] :
              /\ \A k \in Events!Files : up[k] <= k /\ Events!Held(k)' \in {<<>>, Events!Held(up[k])}
              /\ \A j, k \in Events!Files :
                   j > k /\ Events!Held(j)' # <<>> /\ Events!Held(k)' # <<>> => up[j] > up[k]
         /\ file' \in [Events!Files -> {None} \cup Seq(Events!Events)]
         /\ \E at \in {"shift", "top", "append"} :
              writer' = [writer EXCEPT ![w].at = at] /\ writer[w].at # "idle"
<1> DEFINE Moved(up) ==
      /\ \A k \in Events!Files : up[k] <= k /\ Events!Held(k)' \in {<<>>, Events!Held(up[k])}
      /\ \A j, k \in Events!Files :
           j > k /\ Events!Held(j)' # <<>> /\ Events!Held(k)' # <<>> => up[j] > up[k]
<1> USE DEF Events!Files, Events!Keep
<1>0. file \in [Events!Files -> {None} \cup Seq(Events!Events)] BY DEF Events!TypeOK
<1>1. CASE writer[w].at = "rm"
  <2> DEFINE up == [k \in Events!Files |-> k]
  <2>1. file' = [file EXCEPT ![2] = None] BY <1>1 DEF Events!Shift
  <2>2. Moved(up) BY <1>0, <2>1 DEF Events!Held
  <2>3. up \in [Events!Files -> Events!Files] OBVIOUS
  <2>4. file' \in [Events!Files -> {None} \cup Seq(Events!Events)] BY <1>0, <2>1
  <2> HIDE DEF up, Moved
  <2>5. \E m \in [Events!Files -> Events!Files] : Moved(m) BY <2>2, <2>3
  <2> USE DEF Moved
  <2> QED BY <1>1, <2>4, <2>5 DEF Events!Shift, Events!To
<1>2. CASE writer[w].at = "shift"
  <2> DEFINE up == [k \in Events!Files |-> IF k = 0 THEN 0 ELSE 1]
             stay == [k \in Events!Files |-> k]
  <2>1. file' = IF file[1] = None THEN file ELSE [file EXCEPT ![2] = file[1], ![1] = None]
    BY <1>2 DEF Events!Shift
  <2>2. file[1] # None => Moved(up) BY <1>0, <2>1 DEF Events!Held
  <2>3. file[1] = None => Moved(stay) BY <1>0, <2>1 DEF Events!Held
  <2>4. up \in [Events!Files -> Events!Files] /\ stay \in [Events!Files -> Events!Files] OBVIOUS
  <2>5. file' \in [Events!Files -> {None} \cup Seq(Events!Events)] BY <1>0, <2>1
  <2> HIDE DEF up, stay, Moved
  <2>6. \E m \in [Events!Files -> Events!Files] : Moved(m) BY <2>2, <2>3, <2>4
  <2> USE DEF Moved
  <2> QED BY <1>2, <2>5, <2>6 DEF Events!Shift, Events!To
<1>3. CASE writer[w].at = "top"
  <2> DEFINE up == [k \in Events!Files |-> IF k = 2 THEN 2 ELSE 0]
             stay == [k \in Events!Files |-> k]
  <2>1. file' = IF file[0] = None THEN file ELSE [file EXCEPT ![1] = file[0], ![0] = None]
    BY <1>3 DEF Events!Shift
  <2>2. file[0] # None => Moved(up) BY <1>0, <2>1 DEF Events!Held
  <2>3. file[0] = None => Moved(stay) BY <1>0, <2>1 DEF Events!Held
  <2>4. up \in [Events!Files -> Events!Files] /\ stay \in [Events!Files -> Events!Files] OBVIOUS
  <2>5. file' \in [Events!Files -> {None} \cup Seq(Events!Events)] BY <1>0, <2>1
  <2> HIDE DEF up, stay, Moved
  <2>6. \E m \in [Events!Files -> Events!Files] : Moved(m) BY <2>2, <2>3, <2>4
  <2> USE DEF Moved
  <2> QED BY <1>3, <2>5, <2>6 DEF Events!Shift, Events!To
<1> QED BY <1>1, <1>2, <1>3 DEF Events!Shift

\* An append that succeeds numbers its event.
LEMMA WriteIs ==
  ASSUME Events!ConstantsOK, Events!TypeOK, Events!EventsSound, NEW w \in Events!Writers, Events!Write(w), count' # count
  PROVE  /\ count < MaxEvents /\ count' = count + 1
         /\ file' \in [Events!Files -> {None} \cup Seq(Events!Events)]
         /\ \A k \in Events!Files \ {0} : Events!Held(k)' = Events!Held(k)
         /\ \E e \in Events!Events : /\ e.n = count + 1 /\ Events!EventTrue(e)
                                     /\ Events!Held(0)' = Append(Events!Held(0), e)
<1>1. /\ count < MaxEvents /\ count' = count + 1 /\ writer[w].at = "append"
      /\ file' = [file EXCEPT ![0] = Append(Events!Held(0), [writer[w].event EXCEPT !.n = count + 1])]
  BY DEF Events!Write, Events!Held
<1> DEFINE v == writer[w].event
           e == [v EXCEPT !.n = count + 1]
<1>2. v \in Events!Events /\ Events!EventTrue(v) BY <1>1 DEF Events!EventsSound
<1>3. e \in Events!Events /\ e.n = count + 1
  <2>1. count + 1 \in 0..MaxEvents BY <1>1 DEF Events!TypeOK, Events!ConstantsOK
  <2> QED BY <1>2, <2>1 DEF Events!Events
<1>4. e.gen = v.gen /\ e.seq = v.seq /\ e.name = v.name /\ e.row = v.row
  BY <1>2 DEF Events!Events
<1>5. Events!EventTrue(e) BY <1>2, <1>4 DEF Events!EventTrue
<1>6. file' = [file EXCEPT ![0] = Append(Events!Held(0), e)] BY <1>1
<1> HIDE DEF e
<1>7. Events!Held(0)' = Append(Events!Held(0), e)
  <2>1. file'[0] = Append(Events!Held(0), e) BY <1>6 DEF Events!TypeOK, Events!Files, Events!Keep
  <2>2. Append(Events!Held(0), e) # None BY <1>3, HeldIs DEF Events!ConstantsOK
  <2> QED BY <2>1, <2>2 DEF Events!Held
<1>8. \A k \in Events!Files \ {0} : Events!Held(k)' = Events!Held(k)
  BY <1>6 DEF Events!TypeOK, Events!Held
<1>9. file' \in [Events!Files -> {None} \cup Seq(Events!Events)]
  <2>1. Append(Events!Held(0), e) \in Seq(Events!Events) BY <1>3, HeldIs
  <2> QED BY <1>6, <2>1 DEF Events!TypeOK
<1> QED BY <1>1, <1>3, <1>5, <1>7, <1>8, <1>9

\* Only a rename and an append move the files; everything else leaves them and the count.
LEMMA FilesMove ==
  ASSUME Events!TypeOK, Events!Next
  PROVE  \/ \E w \in Events!Writers : Events!Shift(w)
         \/ \E w \in Events!Writers : Events!Write(w) /\ count' # count
         \/ UNCHANGED <<file, count>>
<1>1. ASSUME NEW w \in Events!Writers, Events!Stat(w) \/ Events!Write(w) \/ Events!Shift(w)
      PROVE  Events!Shift(w) \/ (Events!Write(w) /\ count' # count) \/ UNCHANGED <<file, count>>
  <2>1. CASE Events!Stat(w) BY <2>1 DEF Events!Stat
  <2>2. CASE Events!Write(w)
    <3>1. UNCHANGED <<file, count>> \/ count' = count + 1 BY <2>2 DEF Events!Write
    <3> QED BY <2>2, <3>1 DEF Events!TypeOK
  <2>3. CASE Events!Shift(w) BY <2>3
  <2> QED BY <1>1, <2>1, <2>2, <2>3
<1>2. CASE Events!HookEvent \/ Events!Pass \/ (\E n \in Names : Events!Change(n))
           \/ Events!WriteSnapshot \/ Events!NextDaemon
  BY <1>2 DEF Events!HookEvent, Events!Pass, Events!Change, Events!WriteSnapshot,
    Events!NextDaemon, Events!feedVars
<1>3. CASE Events!List \/ Events!ReadOldest \/ Events!Start \/ Events!Drain \/ Events!ReadInventory
  BY <1>3 DEF Events!List, Events!ReadOldest, Events!Start, Events!Drain, Events!ReadInventory,
    Events!feedVars
<1> QED BY <1>1, <1>2, <1>3 DEF Events!Next

\* A generation stays older than those it was shifted over.
LEMMA FilesStep ==
  ASSUME Events!ConstantsOK, Events!TypeOK, Events!FilesSound, Events!EventsSound,
         \/ \E w \in Events!Writers : Events!Shift(w)
         \/ \E w \in Events!Writers : Events!Write(w) /\ count' # count
         \/ UNCHANGED <<file, count>>
  PROVE  Events!FilesSound'
<1> USE HeldIs
<1>1. ASSUME NEW w \in Events!Writers, Events!Shift(w) PROVE Events!FilesSound'
  <2>1. count' = count /\ count \in Nat BY <1>1, ShiftIs DEF Events!TypeOK
  <2>2. PICK up \in [Events!Files -> Events!Files] :
          /\ \A k \in Events!Files : up[k] <= k /\ Events!Held(k)' \in {<<>>, Events!Held(up[k])}
          /\ \A j, k \in Events!Files :
               j > k /\ Events!Held(j)' # <<>> /\ Events!Held(k)' # <<>> => up[j] > up[k]
    BY <1>1, ShiftIs
  <2>3. ASSUME NEW k \in Events!Files, NEW a \in 1..Len(Events!Held(k)')
        PROVE  /\ Events!Held(k)' # <<>> /\ up[k] \in Events!Files
               /\ a \in 1..Len(Events!Held(up[k])) /\ Events!Held(k)'[a] = Events!Held(up[k])[a]
    BY <2>2
  <2>4. \A k \in Events!Files : Len(Events!Held(k)') <= count' BY <2>1, <2>2 DEF Events!FilesSound
  <2>5. \A k \in Events!Files : \A a \in 1..Len(Events!Held(k)') : Events!Held(k)'[a].n \in 1..count'
    BY <2>1, <2>3 DEF Events!FilesSound
  <2>6. ASSUME NEW j \in Events!Files, NEW k \in Events!Files,
               NEW a \in 1..Len(Events!Held(j)'), NEW b \in 1..Len(Events!Held(k)'),
               j > k \/ (j = k /\ a < b)
        PROVE  Events!Held(j)'[a].n < Events!Held(k)'[b].n
    <3>1. up[j] > up[k] \/ (up[j] = up[k] /\ a < b) BY <2>2, <2>3, <2>6
    <3>2. up[j] \in Events!Files /\ up[k] \in Events!Files OBVIOUS
    <3> QED BY <2>3, <2>6, <3>1, <3>2 DEF Events!FilesSound
  <2> QED BY <2>4, <2>5, <2>6 DEF Events!FilesSound
<1>2. ASSUME NEW w \in Events!Writers, Events!Write(w), count' # count PROVE Events!FilesSound'
  <2>1. PICK e \in Events!Events : e.n = count + 1 /\ Events!Held(0)' = Append(Events!Held(0), e)
    BY <1>2, WriteIs
  <2>2. count' = count + 1 /\ count \in Nat BY <1>2, WriteIs DEF Events!TypeOK
  <2>3. \A k \in Events!Files \ {0} : Events!Held(k)' = Events!Held(k) BY <1>2, WriteIs
  <2>4. /\ Len(Events!Held(0)') = Len(Events!Held(0)) + 1
        /\ \A a \in 1..Len(Events!Held(0)) : Events!Held(0)'[a] = Events!Held(0)[a]
        /\ Events!Held(0)'[Len(Events!Held(0)) + 1] = e
    BY <2>1
  <2>5. \A k \in Events!Files, a \in Nat : a \in 1..Len(Events!Held(k)') =>
          \/ a \in 1..Len(Events!Held(k)) /\ Events!Held(k)'[a] = Events!Held(k)[a]
          \/ k = 0 /\ a = Len(Events!Held(0)) + 1 /\ Events!Held(k)'[a] = e
    BY <2>3, <2>4
  <2>6. \A k \in Events!Files : Len(Events!Held(k)') <= count'
    BY <2>2, <2>3, <2>4 DEF Events!FilesSound
  <2>7. \A k \in Events!Files : \A a \in 1..Len(Events!Held(k)') : Events!Held(k)'[a].n \in 1..count'
    BY <2>1, <2>2, <2>5 DEF Events!FilesSound
  <2>8. ASSUME NEW j \in Events!Files, NEW k \in Events!Files,
               NEW a \in 1..Len(Events!Held(j)'), NEW b \in 1..Len(Events!Held(k)'),
               j > k \/ (j = k /\ a < b)
        PROVE  Events!Held(j)'[a].n < Events!Held(k)'[b].n
    <3>1. CASE a \in 1..Len(Events!Held(j)) /\ Events!Held(j)'[a] = Events!Held(j)[a]
      <4>1. Events!Held(j)[a].n \in 1..count BY <3>1 DEF Events!FilesSound
      <4>2. CASE b \in 1..Len(Events!Held(k)) /\ Events!Held(k)'[b] = Events!Held(k)[b]
        BY <2>8, <3>1, <4>2 DEF Events!FilesSound
      <4>3. CASE Events!Held(k)'[b] = e BY <2>1, <2>2, <3>1, <4>1, <4>3
      <4> QED BY <2>5, <4>2, <4>3
    <3>2. CASE j = 0 /\ a = Len(Events!Held(0)) + 1
      BY <2>4, <2>8, <3>2
    <3> QED BY <2>5, <3>1, <3>2
  <2> QED BY <2>6, <2>7, <2>8 DEF Events!FilesSound
<1>3. CASE UNCHANGED <<file, count>> BY <1>3 DEF Events!FilesSound, Events!Held
<1> QED BY <1>1, <1>2, <1>3

\* One sequence after another.
LEMMA JoinIs ==
  ASSUME NEW S, NEW s \in Seq(S), NEW t \in Seq(S)
  PROVE  /\ s \o t \in Seq(S) /\ Len(s) \in Nat /\ Len(t) \in Nat /\ Len(s \o t) = Len(s) + Len(t)
         /\ \A x \in 1..Len(s) : (s \o t)[x] = s[x]
         /\ \A x \in (Len(s) + 1)..(Len(s) + Len(t)) : (s \o t)[x] = t[x - Len(s)]
OBVIOUS

\* What a reader is given next: the numbers of some events that are newer than all it was given.
LEMMA DeliverIs ==
  ASSUME Events!ConstantsOK, SoundEvents, NEW es \in Seq(Events!Events),
         \A y \in 1..Len(es) : es[y].n \in 1..count /\ Events!Newer(es[y].n) /\ Events!EventTrue(es[y]),
         \A x, y \in 1..Len(es) : x < y => es[x].n < es[y].n,
         NEW r, r = Events!Deliver(es)
  PROVE  /\ r \in Events!Readers
         /\ r.at = reader.at /\ r.files = reader.files /\ r.offset = reader.offset
         /\ r.mirror # None => Events!RowsSound(r.mirror)
         /\ \A x \in 1..Len(r.got) : r.got[x] <= count
         /\ \A x, y \in 1..Len(r.got) : x < y => r.got[x] < r.got[y]
         /\ \A x \in 1..Len(r.got) :
              \/ \E y \in 1..Len(reader.got) : r.got[x] = reader.got[y]
              \/ \E y \in 1..Len(es) : r.got[x] = es[y].n
<1> DEFINE new == Events!Numbers(es)
           old == reader.got
           m == reader.mirror
<1>1. reader \in Events!Readers /\ count \in 0..MaxEvents /\ MaxEvents \in Nat
  BY DEF SoundEvents, Events!TypeOK, Events!ConstantsOK
<1>2. old \in Seq(1..MaxEvents) /\ m \in {None} \cup Events!Snapshots BY <1>1 DEF Events!Readers
<1>3. Len(new) = Len(es) /\ Len(es) \in Nat /\ (\A y \in 1..Len(es) : new[y] = es[y].n)
      /\ new \in Seq(1..MaxEvents)
  BY <1>1 DEF Events!Numbers
<1>4. m \in Mirrors BY <1>2 DEF SoundEvents, Events!EventsInv, Events!MirrorsSound, Mirrors
<1>5. Events!Mirrored(m, es) \in Mirrors
  BY <1>4, MirroredIs DEF SoundEvents, Events!TypeOK
<1>6. /\ r.at = reader.at /\ r.files = reader.files /\ r.offset = reader.offset
      /\ r.got = old \o new /\ r.mirror = Events!Mirrored(m, es)
  BY <1>1 DEF Events!Deliver, Events!Readers
<1>7. old \o new \in Seq(1..MaxEvents) BY <1>2, <1>3
<1>8. r \in Events!Readers
  <2>1. r \in [at : {reader.at}, files : {reader.files}, offset : {reader.offset}, got : {old \o new},
               mirror : {Events!Mirrored(m, es)}]
    BY <1>1 DEF Events!Deliver, Events!Readers
  <2>2. Events!Mirrored(m, es) \in {None} \cup Events!Snapshots BY <1>5 DEF Mirrors
  <2> QED BY <1>1, <1>7, <2>1, <2>2 DEF Events!Readers
<1>9. r.mirror # None => Events!RowsSound(r.mirror) BY <1>5, <1>6 DEF Mirrors
<1>10. /\ Len(old) \in Nat /\ Len(r.got) = Len(old) + Len(es)
       /\ \A x \in 1..Len(r.got) :
            IF x <= Len(old) THEN r.got[x] = old[x] /\ x \in 1..Len(old)
            ELSE r.got[x] = es[x - Len(old)].n /\ x - Len(old) \in 1..Len(es)
  <2> HIDE DEF new, old, m
  <2>1. /\ Len(old) \in Nat /\ Len(old \o new) = Len(old) + Len(es)
        /\ \A x \in 1..Len(old) : (old \o new)[x] = old[x]
        /\ \A x \in (Len(old) + 1)..(Len(old) + Len(es)) : (old \o new)[x] = new[x - Len(old)]
    <3>1. \E T : old \in Seq(T) /\ new \in Seq(T) BY <1>2, <1>3
    <3>2. PICK T : old \in Seq(T) /\ new \in Seq(T) BY <3>1
    <3>3. /\ Len(old) \in Nat /\ Len(old \o new) = Len(old) + Len(new)
          /\ \A x \in 1..Len(old) : (old \o new)[x] = old[x]
          /\ \A x \in (Len(old) + 1)..(Len(old) + Len(new)) : (old \o new)[x] = new[x - Len(old)]
      BY <3>2, JoinIs
    <3>4. Len(new) = Len(es) BY <1>3
    <3> QED BY <3>3, <3>4
  <2>2. ASSUME NEW x \in 1..(Len(old) + Len(es))
        PROVE  IF x <= Len(old) THEN (old \o new)[x] = old[x] /\ x \in 1..Len(old)
               ELSE (old \o new)[x] = es[x - Len(old)].n /\ x - Len(old) \in 1..Len(es)
    <3>1. CASE x <= Len(old) BY <2>1, <3>1
    <3>2. CASE ~(x <= Len(old))
      <4>1. x - Len(old) \in 1..Len(es) /\ x \in (Len(old) + 1)..(Len(old) + Len(es))
        BY <1>3, <2>1, <3>2
      <4> QED BY <1>3, <2>1, <3>2, <4>1
    <3> QED BY <3>1, <3>2
  <2> QED BY <1>6, <2>1, <2>2
<1>11. \A x \in 1..Len(old) : old[x] \in Nat /\ old[x] <= count /\ \A y \in 1..Len(old) : x < y => old[x] < old[y]
  <2>1. \A x \in 1..Len(old) : old[x] \in Nat BY <1>1, <1>2
  <2> QED BY <2>1 DEF SoundEvents, Events!EventsInv, Events!ReaderSound, Events!FollowedInOrder
<1>12. \A x \in 1..Len(old), y \in 1..Len(es) : old[x] < es[y].n
  <2>1. \A y \in 1..Len(es) : Events!Newer(es[y].n) OBVIOUS
  <2> QED BY <2>1 DEF Events!Newer
<1> HIDE DEF new, old, m
<1>13. ASSUME NEW x \in 1..Len(r.got) PROVE r.got[x] <= count
  <2>1. \A y \in 1..Len(es) : es[y].n <= count BY <1>1
  <2> QED BY <1>10, <1>11, <2>1
<1>14. ASSUME NEW x \in 1..Len(r.got), NEW y \in 1..Len(r.got), x < y PROVE r.got[x] < r.got[y]
  <2>1. CASE y <= Len(old) BY <1>10, <1>11, <1>14, <2>1
  <2>2. CASE x <= Len(old) /\ ~(y <= Len(old)) BY <1>10, <1>12, <2>2
  <2>3. CASE ~(x <= Len(old)) /\ ~(y <= Len(old))
    <3>1. x - Len(old) < y - Len(old) BY <1>10, <1>14
    <3> QED BY <1>10, <2>3, <3>1
  <2> QED BY <1>10, <1>14, <2>1, <2>2, <2>3
<1>15. \A x \in 1..Len(r.got) :
          \/ \E y \in 1..Len(old) : r.got[x] = old[y]
          \/ \E y \in 1..Len(es) : r.got[x] = es[y].n
  BY <1>10
<1> QED BY <1>6, <1>8, <1>9, <1>13, <1>14, <1>15 DEF old

\* The reader is moved by its own steps, which move nothing else.
ReaderMoves ==
  Events!List \/ Events!ReadOldest \/ Events!Start \/ Events!Drain \/ Events!ReadInventory
LEMMA ReaderMovesAlone ==
  ASSUME Events!Next
  PROVE  IF ReaderMoves THEN UNCHANGED <<file, writer, count, pub, snap, past>> ELSE UNCHANGED reader
<1>1. CASE ReaderMoves
  BY <1>1 DEF ReaderMoves, Events!List, Events!ReadOldest, Events!Start, Events!Drain,
    Events!ReadInventory, Events!feedVars
<1>2. ASSUME NEW w \in Events!Writers, Events!Stat(w) \/ Events!Write(w) \/ Events!Shift(w)
      PROVE  UNCHANGED reader
  BY <1>2 DEF Events!Stat, Events!Write, Events!Shift
<1>3. CASE Events!HookEvent BY <1>1, <1>3 DEF Events!HookEvent
<1>6. CASE Events!Pass BY <1>1, <1>6 DEF Events!Pass
<1>7. CASE Events!NextDaemon BY <1>1, <1>7 DEF Events!NextDaemon
<1>4. ASSUME NEW n \in Names, Events!Change(n) PROVE UNCHANGED reader BY <1>4 DEF Events!Change
<1>5. CASE Events!WriteSnapshot BY <1>1, <1>5 DEF Events!WriteSnapshot
<1> QED BY <1>1, <1>2, <1>3, <1>4, <1>5, <1>6, <1>7 DEF Events!Next, ReaderMoves

\* What a step of the reader makes of it.
LEMMA ReaderKeeps ==
  ASSUME Events!ConstantsOK, SoundEvents, ReaderMoves, UNCHANGED <<file, writer, count, pub, snap, past>>
  PROVE  /\ reader' \in Events!Readers /\ Events!FollowedInOrder' /\ Events!ReaderSound'
         /\ reader'.mirror # None => Events!RowsSound(reader'.mirror)
<1>1. /\ reader \in Events!Readers /\ count \in Nat /\ MaxEvents \in Nat /\ count <= MaxEvents
      /\ reader.got \in Seq(1..MaxEvents) /\ Len(reader.got) \in Nat
  BY DEF SoundEvents, Events!TypeOK, Events!ConstantsOK, Events!Readers
<1>2. /\ \A k \in Events!Files : Events!Held(k) \in Seq(Events!Events) /\ Events!Held(k)' = Events!Held(k)
      /\ Events!Size(0) = Len(Events!Held(0)) /\ Events!Size(0)' = Events!Size(0)
      /\ Events!Size(0) \in 0..MaxEvents /\ Events!Size(0) <= count /\ Events!Files = {0, 1, 2}
  <2>1. Events!FilesSound /\ count \in Nat BY <1>1 DEF SoundEvents, Events!EventsInv
  <2>2. /\ \A k \in Events!Files : Events!Held(k) \in Seq(Events!Events)
        /\ Events!Size(0) = Len(Events!Held(0)) /\ Events!Files = {0, 1, 2}
    BY HeldIs DEF SoundEvents
  <2>3. Events!Size(0) \in Nat /\ Events!Size(0) <= count BY <2>1, <2>2 DEF Events!FilesSound
  <2>4. \A k \in Events!Files : Events!Held(k)' = Events!Held(k) BY DEF Events!Held
  <2>5. Events!Size(0)' = Events!Size(0) BY DEF Events!Size
  <2>6. Events!Size(0) \in 0..MaxEvents BY <1>1, <2>3
  <2> QED BY <2>2, <2>3, <2>4, <2>5, <2>6
<1>3. \A k \in Events!Files : \A a \in 1..Len(Events!Held(k)) :
        Events!Held(k)[a].n \in 1..count /\ Events!EventTrue(Events!Held(k)[a])
  BY DEF SoundEvents, Events!EventsInv, Events!FilesSound, Events!EventsSound
<1>4. \A j, k \in Events!Files : \A a \in 1..Len(Events!Held(j)), b \in 1..Len(Events!Held(k)) :
       j > k \/ (j = k /\ a < b) => Events!Held(j)[a].n < Events!Held(k)[b].n
  BY DEF SoundEvents, Events!EventsInv, Events!FilesSound
<1>5. Events!ReaderSound /\ Events!FollowedInOrder /\ (reader.mirror # None => Events!RowsSound(reader.mirror))
  BY DEF SoundEvents, Events!EventsInv, Events!MirrorsSound
<1>6. CASE Events!List
  <2>1. /\ reader'.at = "read" /\ reader'.got = reader.got /\ reader'.mirror = reader.mirror
        /\ reader' \in Events!Readers /\ reader.at = "list"
    BY <1>1, <1>6 DEF Events!List, Events!Readers
  <2>2. reader.got = <<>> BY <1>5, <2>1 DEF Events!ReaderSound
  <2> QED BY <1>5, <2>1, <2>2 DEF Events!ReaderSound, Events!FollowedInOrder, Events!Newer
<1>7. CASE Events!ReadOldest
  <2> DEFINE k == CHOOSE k \in reader.files : \A j \in reader.files : j <= k
             es == Events!Held(k)
             r == Events!Deliver(es)
  <2>1. reader.files \subseteq Events!Files /\ reader.files # {} /\ reader.at = "read"
    BY <1>1, <1>7 DEF Events!ReadOldest, Events!Readers
  <2>2. \E m \in reader.files : \A j \in reader.files : j <= m BY <1>2, <2>1
  <2>3. k \in reader.files /\ \A j \in reader.files : j <= k BY <2>2
  <2>4. k \in Events!Files /\ k \in Nat BY <1>2, <2>1, <2>3
  <2>5. reader' = [r EXCEPT !.files = @ \ {k}] BY <1>7 DEF Events!ReadOldest, Events!Held
  <2> HIDE DEF k
  <2>6. es \in Seq(Events!Events) BY <1>2, <2>4
  <2>7. \A y \in 1..Len(es) : es[y].n \in 1..count /\ Events!Newer(es[y].n) /\ Events!EventTrue(es[y])
    BY <1>3, <1>5, <2>1, <2>3, <2>4 DEF Events!ReaderSound
  <2>8. \A x, y \in 1..Len(es) : x < y => es[x].n < es[y].n BY <1>4, <2>4
  <2> HIDE DEF es
  <2>9. /\ r \in Events!Readers
        /\ r.at = reader.at /\ r.files = reader.files
        /\ r.mirror # None => Events!RowsSound(r.mirror)
        /\ \A x \in 1..Len(r.got) : r.got[x] <= count
        /\ \A x, y \in 1..Len(r.got) : x < y => r.got[x] < r.got[y]
        /\ \A x \in 1..Len(r.got) :
             \/ \E y \in 1..Len(reader.got) : r.got[x] = reader.got[y]
             \/ \E y \in 1..Len(es) : r.got[x] = es[y].n
    BY <2>6, <2>7, <2>8, DeliverIs
  <2> HIDE DEF r
  <2>10. /\ reader' \in Events!Readers /\ reader'.at = "read" /\ reader'.files = reader.files \ {k}
         /\ reader'.got = r.got /\ reader'.mirror = r.mirror
    BY <2>1, <2>5, <2>9 DEF Events!Readers
  <2>11. ASSUME NEW i \in reader'.files, NEW j \in Events!Files, j <= i,
                NEW a \in 1..Len(Events!Held(j)'), NEW x \in 1..Len(reader'.got)
         PROVE  reader'.got[x] < Events!Held(j)'[a].n
    <3>1. i \in reader.files /\ i < k /\ j < k BY <1>2, <2>1, <2>3, <2>4, <2>10, <2>11
    <3>2. Events!Held(j)' = Events!Held(j) BY <1>2
    <3>3. CASE \E y \in 1..Len(reader.got) : r.got[x] = reader.got[y]
      BY <1>5, <2>1, <2>10, <2>11, <3>1, <3>2, <3>3 DEF Events!ReaderSound, Events!Newer
    <3>4. CASE \E y \in 1..Len(es) : r.got[x] = es[y].n
      BY <1>4, <2>4, <2>10, <3>1, <3>2, <3>4 DEF es
    <3> QED BY <2>9, <2>10, <3>3, <3>4
  <2>12. Events!ReaderSound' BY <2>9, <2>10, <2>11 DEF Events!ReaderSound, Events!Newer
  <2> QED BY <2>9, <2>10, <2>12 DEF Events!FollowedInOrder
<1>8. CASE Events!Start
  <2>1. /\ reader' \in Events!Readers /\ reader'.at = "follow" /\ reader'.offset = Events!Size(0)
        /\ reader'.got = reader.got /\ reader'.mirror = reader.mirror
    BY <1>1, <1>2, <1>8 DEF Events!Start, Events!Readers
  <2>2. Events!ReaderSound' BY <1>2, <1>5, <2>1 DEF Events!ReaderSound
  <2> QED BY <1>5, <2>1, <2>2 DEF Events!FollowedInOrder
<1>9. CASE Events!Drain
  <2> DEFINE from == IF Events!Size(0) < reader.offset THEN 0 ELSE reader.offset
             es == IF file[0] = None THEN <<>> ELSE SubSeq(file[0], from + 1, Events!Size(0))
             r == Events!Deliver(es)
             h == Events!Held(0)
  <2>1. reader.at = "follow" /\ reader' = [r EXCEPT !.offset = Events!Size(0)]
    BY <1>9 DEF Events!Drain
  <2>2. reader.offset \in Nat BY <1>1 DEF Events!Readers
  <2>3. from \in Nat /\ from <= Events!Size(0) BY <1>2, <2>2
  <2>4. h \in Seq(Events!Events) /\ Len(h) = Events!Size(0) BY <1>2
  <2>5. es = SubSeq(h, from + 1, Events!Size(0))
    <3>1. CASE file[0] = None
      <4>1. h = <<>> /\ Events!Size(0) = 0 BY <3>1, <2>4 DEF Events!Held
      <4> HIDE DEF h, from
      <4>2. SubSeq(<<>>, from + 1, 0) = <<>> BY <2>3
      <4> QED BY <3>1, <4>1, <4>2
    <3>2. CASE file[0] # None BY <3>2 DEF Events!Held
    <3> QED BY <3>1, <3>2
  <2> HIDE DEF h, from
  <2>6. /\ es \in Seq(Events!Events) /\ Len(es) = Events!Size(0) - from
        /\ \A y \in 1..Len(es) : from + y \in 1..Len(h) /\ es[y] = h[from + y]
    <3> HIDE DEF es
    <3> QED BY <1>2, <2>3, <2>4, <2>5
  <2> HIDE DEF es
  <2>7. \A a \in 1..Len(h) : from < a => Events!Newer(h[a].n)
    BY <1>2, <1>5, <2>1, <2>2, <2>4 DEF Events!ReaderSound, from, h
  <2>8. \A y \in 1..Len(es) : es[y].n \in 1..count /\ Events!Newer(es[y].n) /\ Events!EventTrue(es[y])
    <3>1. \A y \in 1..Len(es) : from < from + y BY <2>3, <2>6
    <3> QED BY <1>2, <1>3, <2>6, <2>7, <3>1 DEF h
  <2>9. ASSUME NEW x \in 1..Len(es), NEW y \in 1..Len(es), x < y PROVE es[x].n < es[y].n
    <3>1. from + x < from + y BY <2>3, <2>6, <2>9
    <3> QED BY <1>2, <1>4, <2>6, <3>1 DEF h
  <2>10. /\ r \in Events!Readers
         /\ r.at = reader.at
         /\ r.mirror # None => Events!RowsSound(r.mirror)
         /\ \A x \in 1..Len(r.got) : r.got[x] <= count
         /\ \A x, y \in 1..Len(r.got) : x < y => r.got[x] < r.got[y]
    BY <2>6, <2>8, <2>9, DeliverIs
  <2> HIDE DEF r
  <2>11. /\ reader' \in Events!Readers /\ reader'.at = "follow" /\ reader'.offset = Events!Size(0)
         /\ reader'.got = r.got /\ reader'.mirror = r.mirror
    BY <1>1, <1>2, <2>1, <2>10 DEF Events!Readers
  <2>12. Events!ReaderSound' BY <1>2, <2>10, <2>11 DEF Events!ReaderSound
  <2> QED BY <2>10, <2>11, <2>12 DEF Events!FollowedInOrder
<1>10. CASE Events!ReadInventory
  <2>1. snap \in {None} \cup Events!Snapshots /\ (snap # None => Events!RowsSound(snap))
    BY DEF SoundEvents, Events!TypeOK, Events!EventsInv, Events!MirrorsSound
  <2>2. /\ reader' \in Events!Readers /\ reader'.at = reader.at /\ reader'.offset = reader.offset
        /\ reader'.files = reader.files
        /\ reader'.got = reader.got /\ reader'.mirror = snap
    BY <1>1, <1>10, <2>1 DEF Events!ReadInventory, Events!Readers
  <2>3. Events!ReaderSound' BY <1>2, <1>5, <2>2 DEF Events!ReaderSound, Events!Newer
  <2> QED BY <1>5, <2>1, <2>2, <2>3 DEF Events!FollowedInOrder
<1> QED BY <1>6, <1>7, <1>8, <1>9, <1>10 DEF ReaderMoves

\* The rows of a daemon are only added to.
Grown ==
  \A g \in 1..MaxDaemons :
    /\ Len(past[g]) <= Len(past'[g])
    /\ \A s \in 1..Len(past[g]) : past'[g][s] = past[g][s]

\* What an event or a mirror says of them stays true.
LEMMA EventStays ==
  ASSUME Events!ConstantsOK, Events!TypeOK, past' \in [1..MaxDaemons -> Seq(Events!Rows)], Grown,
         NEW e \in Events!Events, Events!EventTrue(e)
  PROVE  Events!EventTrue(e)'
<1>1. SUFFICES ASSUME e.gen # 0
      PROVE  /\ e.seq \in 1..Len(past'[e.gen]) /\ e.name \in Names
             /\ past'[e.gen][e.seq] = [Events!RowsAt(e.gen, e.seq - 1)' EXCEPT ![e.name] = e.row]
  BY DEF Events!EventTrue
<1>2. e.gen \in 1..MaxDaemons /\ e.seq \in Nat BY <1>1 DEF Events!Events, Events!ConstantsOK
<1>3. past[e.gen] \in Seq(Events!Rows) /\ past'[e.gen] \in Seq(Events!Rows) BY <1>2 DEF Events!TypeOK
<1>4. /\ e.seq \in 1..Len(past[e.gen]) /\ e.name \in Names
      /\ past[e.gen][e.seq] = [Events!RowsAt(e.gen, e.seq - 1) EXCEPT ![e.name] = e.row]
  BY <1>1 DEF Events!EventTrue
<1>5. e.seq - 1 # 0 => e.seq - 1 \in 1..Len(past[e.gen]) BY <1>2, <1>3, <1>4
<1>6. Events!RowsAt(e.gen, e.seq - 1)' = Events!RowsAt(e.gen, e.seq - 1)
  BY <1>2, <1>5 DEF Events!RowsAt, Grown
<1>7. past'[e.gen][e.seq] = past[e.gen][e.seq] /\ Len(past[e.gen]) <= Len(past'[e.gen])
  BY <1>2, <1>4 DEF Grown
<1> QED BY <1>2, <1>3, <1>4, <1>6, <1>7

LEMMA RowsStay ==
  ASSUME Events!ConstantsOK, Events!TypeOK, past' \in [1..MaxDaemons -> Seq(Events!Rows)], Grown,
         NEW m, m.gen \in 1..MaxDaemons, m.seq \in Nat, Events!RowsSound(m)
  PROVE  m.seq <= Len(past'[m.gen]) /\ m.rows = IF m.seq = 0 THEN Events!NoRows ELSE past'[m.gen][m.seq]
<1>1. past[m.gen] \in Seq(Events!Rows) /\ past'[m.gen] \in Seq(Events!Rows) BY DEF Events!TypeOK
<1>2. /\ m.seq <= Len(past[m.gen])
      /\ m.rows = IF m.seq = 0 THEN Events!NoRows ELSE past[m.gen][m.seq]
  BY DEF Events!RowsSound, Events!RowsAt
<1>3. m.seq # 0 => m.seq \in 1..Len(past[m.gen]) BY <1>1, <1>2
<1>4. (m.seq # 0 => past'[m.gen][m.seq] = past[m.gen][m.seq]) /\ Len(past[m.gen]) <= Len(past'[m.gen])
  BY <1>3 DEF Grown
<1> QED BY <1>1, <1>2, <1>4

\* Only the publisher's own steps move it and the rows of the daemons.
Publishes ==
  Events!Pass \/ (\E n \in Names : Events!Change(n)) \/ Events!WriteSnapshot \/ Events!NextDaemon
LEMMA PublisherMovesAlone ==
  ASSUME Events!Next, ~Publishes PROVE UNCHANGED <<pub, snap, past>>
<1>1. ASSUME NEW w \in Events!Writers, Events!Stat(w) \/ Events!Write(w) \/ Events!Shift(w)
      PROVE  UNCHANGED <<pub, snap, past>>
  BY <1>1 DEF Events!Stat, Events!Write, Events!Shift
<1>2. CASE Events!HookEvent BY <1>2 DEF Events!HookEvent
<1>3. CASE ReaderMoves
  BY <1>3 DEF ReaderMoves, Events!List, Events!ReadOldest, Events!Start, Events!Drain, Events!ReadInventory
<1> QED BY <1>1, <1>2, <1>3 DEF Events!Next, ReaderMoves, Publishes

\* What a change does.
LEMMA ChangeIs ==
  ASSUME Events!ConstantsOK, SoundEvents, NEW n \in Names, Events!Change(n)
  PROVE  /\ pub' \in Events!Publishers /\ past' \in [1..MaxDaemons -> Seq(Events!Rows)] /\ Grown
         /\ UNCHANGED snap /\ Events!PublisherSound'
         /\ writer' # writer =>
              \E e \in Events!Events :
                /\ writer' = [writer EXCEPT !["daemon"] = [at |-> "stat", event |-> e]]
                /\ Events!EventTrue(e)'
<1> DEFINE g == pub.gen
           s == pub.seq
           rows == [pub.rows EXCEPT ![n] = pub.pass[n]]
           h == past[g]
<1>1. /\ pub \in Events!Publishers /\ past \in [1..MaxDaemons -> Seq(Events!Rows)]
      /\ MaxDaemons \in Nat \ {0} /\ MaxEvents \in Nat
      /\ Events!PublisherSound
  BY DEF SoundEvents, Events!TypeOK, Events!EventsInv, Events!ConstantsOK
<1>2. g \in 1..MaxDaemons /\ s \in Nat /\ pub.rows \in Events!Rows /\ pub.pass \in Events!Rows
  BY <1>1 DEF Events!Publishers
<1>3. rows \in Events!Rows /\ pub.pass[n] \in States \cup {None} BY <1>2 DEF Events!Rows
<1>4. h \in Seq(Events!Rows) /\ s = Len(h) /\ pub.rows = Events!RowsAt(g, s)
  BY <1>1, <1>2 DEF Events!PublisherSound, Events!RowsSound
<1>5. past' = [past EXCEPT ![g] = Append(h, rows)] /\ UNCHANGED snap BY DEF Events!Change
<1>6. /\ pub'.seq = s + 1 /\ pub'.gen = g /\ pub'.rows = rows /\ pub' \in Events!Publishers
  <2>1. pub' = [pub EXCEPT !.seq = @ + 1, !.rows[n] = pub.pass[n], !.todo = @ \ {n}] BY DEF Events!Change
  <2>2. pub'.seq = s + 1 /\ pub'.gen = g /\ pub'.rows = rows BY <1>1, <2>1 DEF Events!Publishers
  <2>3. pub' \in [gen : {g}, seq : {s + 1}, rows : {rows}, pass : {pub.pass}, todo : {pub.todo \ {n}},
                  quiet : {pub.quiet}, written : {pub.written}, at : {pub.at}]
    BY <1>1, <2>1 DEF Events!Publishers
  <2> HIDE DEF rows
  <2>4. pub' \in Events!Publishers BY <1>1, <1>2, <1>3, <2>3 DEF Events!Publishers
  <2> QED BY <2>2, <2>4
<1> HIDE DEF rows, h
<1>7. /\ Append(h, rows) \in Seq(Events!Rows) /\ Len(Append(h, rows)) = s + 1
      /\ Append(h, rows)[s + 1] = rows
      /\ \A x \in 1..s : Append(h, rows)[x] = h[x]
  BY <1>3, <1>4
<1>8. past' \in [1..MaxDaemons -> Seq(Events!Rows)] BY <1>1, <1>2, <1>5, <1>7
<1>9. \A x \in 1..MaxDaemons : past'[x] = IF x = g THEN Append(h, rows) ELSE past[x]
  BY <1>1, <1>5
<1>10. Grown
  <2>1. \A x \in 1..MaxDaemons : past[x] \in Seq(Events!Rows) /\ Len(past[x]) \in Nat BY <1>1
  <2>2. Len(past[g]) <= Len(past'[g]) /\ \A x \in 1..Len(past[g]) : past'[g][x] = past[g][x]
    <3>1. past'[g] = Append(h, rows) /\ Len(h) = s /\ s \in Nat BY <1>2, <1>4, <1>9
    <3>2. Len(h) <= Len(past'[g]) /\ \A x \in 1..Len(h) : past'[g][x] = h[x] BY <1>7, <3>1
    <3> QED BY <3>2 DEF h
  <2>3. \A x \in (1..MaxDaemons) \ {g} : past'[x] = past[x] BY <1>9
  <2> SUFFICES ASSUME NEW x \in 1..MaxDaemons
               PROVE  /\ Len(past[x]) <= Len(past'[x])
                      /\ \A a \in 1..Len(past[x]) : past'[x][a] = past[x][a]
    BY DEF Grown
  <2>4. CASE x = g BY <2>2, <2>4
  <2>5. CASE x # g
    <3>1. past'[x] = past[x] BY <2>3, <2>5
    <3> QED BY <2>1, <3>1
  <2> QED BY <2>4, <2>5
<1>11. past'[g] = Append(h, rows) BY <1>2, <1>9
<1>12. \A x \in 1..MaxDaemons : x > g => past'[x] = <<>>
  BY <1>1, <1>2, <1>9 DEF Events!PublisherSound
<1>13. Events!PublisherSound'
  BY <1>2, <1>6, <1>7, <1>11, <1>12 DEF Events!PublisherSound, Events!RowsSound, Events!RowsAt
<1>14. PICK e \in Events!Events : e = [n |-> 0, gen |-> g, seq |-> s + 1, name |-> n, row |-> pub.pass[n]]
  <2>1. [n |-> 0, gen |-> g, seq |-> s + 1, name |-> n, row |-> pub.pass[n]] \in Events!Events
    BY <1>1, <1>2, <1>3 DEF Events!Events
  <2> QED BY <2>1
<1>15. Events!EventTrue(e)'
  <2>1. e.gen = g /\ e.seq = s + 1 /\ e.name = n /\ e.row = pub.pass[n] /\ e.seq - 1 = s BY <1>2, <1>14
  <2>2. IF e.seq - 1 = 0 THEN pub.rows = Events!NoRows ELSE pub.rows = past'[e.gen][e.seq - 1]
    BY <1>2, <1>4, <1>7, <1>11, <2>1 DEF Events!RowsAt, h
  <2>3. past'[e.gen][e.seq] = [pub.rows EXCEPT ![e.name] = e.row] BY <1>7, <1>11, <2>1 DEF rows
  <2>4. e.seq \in 1..Len(past'[e.gen]) BY <1>2, <1>7, <1>11, <2>1
  <2> QED BY <2>1, <2>2, <2>3, <2>4 DEF Events!EventTrue, Events!RowsAt
<1>16. writer' # writer => writer' = [writer EXCEPT !["daemon"] = [at |-> "stat", event |-> e]]
  BY <1>14 DEF Events!Change, Events!Offer
<1> QED BY <1>5, <1>6, <1>8, <1>10, <1>13, <1>15, <1>16

\* What the publisher does otherwise.
LEMMA PublishesIs ==
  ASSUME Events!ConstantsOK, SoundEvents, Publishes
  PROVE  /\ pub' \in Events!Publishers /\ past' \in [1..MaxDaemons -> Seq(Events!Rows)] /\ Grown
         /\ Events!PublisherSound' /\ UNCHANGED reader
         /\ snap' \in {None} \cup Events!Snapshots
         /\ snap' # None => snap' = snap \/ (UNCHANGED past /\ Events!RowsSound(snap'))
         /\ \/ writer' = writer
            \/ writer' = [writer EXCEPT !["daemon"] = Events!Idle]
            \/ \E e \in Events!Events :
                 /\ writer' = [writer EXCEPT !["daemon"] = [at |-> "stat", event |-> e]]
                 /\ Events!EventTrue(e)'
<1>1. /\ pub \in Events!Publishers /\ past \in [1..MaxDaemons -> Seq(Events!Rows)]
      /\ MaxDaemons \in Nat \ {0} /\ snap \in {None} \cup Events!Snapshots
      /\ Events!PublisherSound
  BY DEF SoundEvents, Events!TypeOK, Events!EventsInv, Events!ConstantsOK
<1>2. past' = past => Grown
  <2>1. \A x \in 1..MaxDaemons : past[x] \in Seq(Events!Rows) /\ Len(past[x]) \in Nat BY <1>1
  <2> QED BY <2>1 DEF Grown
<1>3. CASE Events!Pass
  <2>1. PICK rows \in Events!Rows :
          pub' = [pub EXCEPT !.pass = rows, !.todo = {n \in Names : rows[n] # pub.rows[n]},
                             !.quiet = rows = pub.rows, !.at = "events"]
    BY <1>3 DEF Events!Pass
  <2>2. UNCHANGED <<snap, past, reader, writer>> BY <1>3 DEF Events!Pass, Events!feedVars
  <2>3. /\ pub' \in Events!Publishers /\ pub'.gen = pub.gen /\ pub'.seq = pub.seq /\ pub'.rows = pub.rows
    BY <1>1, <2>1 DEF Events!Publishers
  <2>4. Events!PublisherSound'
    BY <1>1, <2>2, <2>3 DEF Events!PublisherSound, Events!RowsSound, Events!RowsAt
  <2> QED BY <1>1, <1>2, <2>2, <2>3, <2>4
<1>4. ASSUME NEW n \in Names, Events!Change(n)
      PROVE  /\ pub' \in Events!Publishers /\ past' \in [1..MaxDaemons -> Seq(Events!Rows)] /\ Grown
             /\ UNCHANGED snap /\ Events!PublisherSound'
             /\ UNCHANGED reader
             /\ writer' # writer =>
                  \E e \in Events!Events :
                    /\ writer' = [writer EXCEPT !["daemon"] = [at |-> "stat", event |-> e]]
                    /\ Events!EventTrue(e)'
  BY <1>4, ChangeIs DEF Events!Change
<1>5. CASE Events!WriteSnapshot
  <2>1. UNCHANGED <<past, reader, writer>> BY <1>5 DEF Events!WriteSnapshot
  <2>2. /\ pub' \in Events!Publishers /\ pub'.gen = pub.gen /\ pub'.seq = pub.seq /\ pub'.rows = pub.rows
    <3>1. pub' \in {[pub EXCEPT !.at = "idle"], [pub EXCEPT !.at = "idle", !.written = TRUE]}
      BY <1>5 DEF Events!WriteSnapshot
    <3>2. CASE pub' = [pub EXCEPT !.at = "idle"] BY <1>1, <3>2 DEF Events!Publishers
    <3>3. CASE pub' = [pub EXCEPT !.at = "idle", !.written = TRUE] BY <1>1, <3>3 DEF Events!Publishers
    <3> QED BY <3>1, <3>2, <3>3
  <2>3. Events!PublisherSound'
    BY <1>1, <2>1, <2>2 DEF Events!PublisherSound, Events!RowsSound, Events!RowsAt
  <2>4. snap' = snap \/ snap' = Events!Snapshot BY <1>5 DEF Events!WriteSnapshot
  <2>5. Events!Snapshot \in Events!Snapshots /\ Events!RowsSound(Events!Snapshot)
    <3>1. pub.gen \in 1..MaxDaemons /\ pub.seq \in Nat /\ pub.rows \in Events!Rows
      BY <1>1 DEF Events!Publishers
    <3>2. Events!Snapshot \in Events!Snapshots BY <3>1 DEF Events!Snapshot, Events!Snapshots
    <3>3. Events!Snapshot.gen = pub.gen /\ Events!Snapshot.seq = pub.seq /\ Events!Snapshot.rows = pub.rows
      BY DEF Events!Snapshot
    <3>4. Events!RowsSound(pub) BY <1>1 DEF Events!PublisherSound
    <3>5. Events!RowsSound(Events!Snapshot) BY <3>3, <3>4 DEF Events!RowsSound
    <3> QED BY <3>2, <3>5
  <2>6. snap' # snap => snap' \in Events!Snapshots /\ Events!RowsSound(snap') BY <2>4, <2>5
  <2> QED BY <1>1, <1>2, <2>1, <2>2, <2>3, <2>6
<1>6. CASE Events!NextDaemon
  <2>1. /\ UNCHANGED <<past, reader>> /\ writer' = [writer EXCEPT !["daemon"] = Events!Idle]
        /\ pub' = Events!Publisher(pub.gen + 1) /\ pub.gen < MaxDaemons /\ snap' \in {snap, None}
    BY <1>6 DEF Events!NextDaemon
  <2>2. pub.gen + 1 \in 1..MaxDaemons /\ pub.gen \in Nat BY <1>1, <2>1 DEF Events!Publishers
  <2>3. Events!NoRows \in Events!Rows BY DEF Events!NoRows, Events!Rows
  <2>4. pub' \in Events!Publishers BY <2>1, <2>2, <2>3 DEF Events!Publisher, Events!Publishers
  <2>5. pub'.gen = pub.gen + 1 /\ pub'.seq = 0 /\ pub'.rows = Events!NoRows BY <2>1 DEF Events!Publisher
  <2>6. \A g \in 1..MaxDaemons : g > pub'.gen => past'[g] = <<>>
    BY <1>1, <2>1, <2>2, <2>5 DEF Events!PublisherSound
  <2>7. past'[pub'.gen] = <<>> BY <1>1, <2>1, <2>2, <2>5 DEF Events!PublisherSound
  <2>8. Events!PublisherSound'
    BY <2>5, <2>6, <2>7 DEF Events!PublisherSound, Events!RowsSound, Events!RowsAt
  <2> QED BY <1>1, <1>2, <2>1, <2>4, <2>8
<1> QED BY <1>1, <1>3, <1>4, <1>5, <1>6 DEF Publishes

\* The rows of the daemons only grow, whoever moves.
LEMMA RowsGrow ==
  ASSUME Events!ConstantsOK, SoundEvents, Events!Next
  PROVE  past' \in [1..MaxDaemons -> Seq(Events!Rows)] /\ Grown
<1>1. CASE Publishes BY <1>1, PublishesIs
<1>2. CASE ~Publishes
  <2>1. past' = past /\ past \in [1..MaxDaemons -> Seq(Events!Rows)]
    BY <1>2, PublisherMovesAlone DEF SoundEvents, Events!TypeOK
  <2>2. \A x \in 1..MaxDaemons : past[x] \in Seq(Events!Rows) /\ Len(past[x]) \in Nat BY <2>1
  <2> QED BY <2>1, <2>2 DEF Grown
<1> QED BY <1>1, <1>2

\* An append takes its event away with it or keeps it; a new one comes from a hook or a change.
Moved(v) ==
  \/ writer'[v] = Events!Idle
  \/ writer[v].at # "idle" /\ writer'[v].event = writer[v].event
  \/ writer'[v] = writer[v]
  \/ \E e \in Events!Events :
       writer'[v] = [at |-> "stat", event |-> e] /\ (e.gen = 0 \/ Events!EventTrue(e)')
LEMMA WritersMove ==
  ASSUME Events!ConstantsOK, SoundEvents, Events!Next
  PROVE  writer' \in [Events!Writers -> Events!Appends] /\ \A v \in Events!Writers : Moved(v)
<1>1. writer \in [Events!Writers -> Events!Appends] /\ MaxEvents \in Nat /\ MaxDaemons \in Nat
  BY DEF SoundEvents, Events!TypeOK, Events!ConstantsOK
<1> DEFINE Fits == writer' \in [Events!Writers -> Events!Appends]
<1>2. ASSUME NEW w \in Events!Writers, NEW at \in {"append", "rm", "shift", "top"}, writer[w].at # "idle",
             writer' = [writer EXCEPT ![w].at = at]
      PROVE  Fits /\ \A v \in Events!Writers : Moved(v)
  <2>1. \A v \in Events!Writers :
          \/ writer'[v] = writer[v]
          \/ writer[v].at # "idle" /\ writer'[v].event = writer[v].event
    BY <1>1, <1>2 DEF Events!Appends
  <2>2. Fits BY <1>1, <1>2 DEF Events!Appends
  <2> QED BY <2>1, <2>2 DEF Moved
<1>3. ASSUME NEW w \in Events!Writers, Events!Stat(w)
      PROVE  Fits /\ \A v \in Events!Writers : Moved(v)
  BY <1>2, <1>3 DEF Events!Stat, Events!To
<1>4. ASSUME NEW w \in Events!Writers, Events!Shift(w)
      PROVE  Fits /\ \A v \in Events!Writers : Moved(v)
  <2>1. \E at \in {"shift", "top", "append"} : writer[w].at # "idle" /\ writer' = [writer EXCEPT ![w].at = at]
    BY <1>4, ShiftIs DEF SoundEvents
  <2> QED BY <1>2, <2>1
<1>5. \A v \in Events!Writers : writer' = [writer EXCEPT ![v] = Events!Idle] =>
        Fits /\ \A u \in Events!Writers : Moved(u)
  <2>1. Events!Idle \in Events!Appends BY DEF Events!Idle, Events!Appends
  <2> QED BY <1>1, <2>1 DEF Moved
<1>6. ASSUME NEW v \in Events!Writers, NEW e \in Events!Events,
             writer' = [writer EXCEPT ![v] = [at |-> "stat", event |-> e]],
             e.gen = 0 \/ Events!EventTrue(e)'
      PROVE  Fits /\ \A u \in Events!Writers : Moved(u)
  <2>1. [at |-> "stat", event |-> e] \in Events!Appends BY DEF Events!Appends
  <2> QED BY <1>1, <1>6, <2>1 DEF Moved
<1>7. ASSUME NEW w \in Events!Writers, Events!Write(w)
      PROVE  Fits /\ \A v \in Events!Writers : Moved(v)
  BY <1>5, <1>7 DEF Events!Write
<1>8. CASE Events!HookEvent
  <2> DEFINE e == [n |-> 0, gen |-> 0, seq |-> 0, name |-> None, row |-> None]
  <2>1. e \in Events!Events /\ e.gen = 0 BY <1>1 DEF Events!Events
  <2>2. writer' = [writer EXCEPT !["hook"] = [at |-> "stat", event |-> e]]
    BY <1>8 DEF Events!HookEvent, Events!Offer
  <2>3. "hook" \in Events!Writers BY DEF Events!Writers
  <2> HIDE DEF e, Fits
  <2>4. Fits /\ \A v \in Events!Writers : Moved(v) BY <1>6, <2>1, <2>2, <2>3
  <2> QED BY <2>4 DEF Fits
<1>9. writer' = writer => Fits /\ \A v \in Events!Writers : Moved(v) BY <1>1 DEF Moved
<1>10. CASE Publishes
  <2>1. "daemon" \in Events!Writers BY DEF Events!Writers
  <2> HIDE DEF Fits
  <2>2. Fits /\ \A v \in Events!Writers : Moved(v) BY <1>5, <1>6, <1>9, <1>10, <2>1, PublishesIs
  <2> QED BY <2>2 DEF Fits
<1>11. CASE ReaderMoves
  <2>1. writer' = writer BY <1>11, ReaderMovesAlone
  <2> QED BY <1>9, <2>1
<1> QED BY <1>3, <1>4, <1>7, <1>8, <1>10, <1>11 DEF Events!Next, ReaderMoves, Publishes

\* What is on its way, and what is in the files, keeps saying what its change did.
LEMMA EventsStep ==
  ASSUME Events!ConstantsOK, SoundEvents, Events!Next
  PROVE  writer' \in [Events!Writers -> Events!Appends] /\ Events!EventsSound'
<1>1. /\ writer \in [Events!Writers -> Events!Appends] /\ Events!TypeOK
      /\ MaxEvents \in Nat /\ MaxDaemons \in Nat
  BY DEF SoundEvents, Events!TypeOK, Events!ConstantsOK
<1>2. past' \in [1..MaxDaemons -> Seq(Events!Rows)] /\ Grown BY RowsGrow
<1>3. \A e \in Events!Events : Events!EventTrue(e) \/ e.gen = 0 => Events!EventTrue(e)'
  <2>1. \A e \in Events!Events : e.gen = 0 => Events!EventTrue(e)' BY DEF Events!EventTrue
  <2>2. \A e \in Events!Events : Events!EventTrue(e) => Events!EventTrue(e)' BY <1>1, <1>2, EventStays
  <2> QED BY <2>1, <2>2
<1>4. /\ \A k \in Events!Files : \A a \in 1..Len(Events!Held(k)) :
           Events!Held(k)[a] \in Events!Events /\ Events!EventTrue(Events!Held(k)[a])
      /\ \A w \in Events!Writers : writer[w].at # "idle" =>
           writer[w].event \in Events!Events /\ Events!EventTrue(writer[w].event)
  <2>1. Events!EventsSound BY DEF SoundEvents, Events!EventsInv
  <2>2. \A k \in Events!Files : \A a \in 1..Len(Events!Held(k)) : Events!Held(k)[a] \in Events!Events
    BY <1>1, HeldIs
  <2> QED BY <2>1, <2>2 DEF Events!EventsSound
<1>5. writer' \in [Events!Writers -> Events!Appends] BY WritersMove
<1>6. ASSUME NEW v \in Events!Writers, writer'[v].at # "idle"
      PROVE  \E e \in Events!Events : writer'[v].event = e /\ Events!EventTrue(e)'
  <2>1. writer'[v] # Events!Idle BY <1>6 DEF Events!Idle
  <2>2. \/ writer[v].at # "idle" /\ writer'[v].event = writer[v].event
        \/ \E e \in Events!Events : writer'[v].event = e /\ (e.gen = 0 \/ Events!EventTrue(e)')
    <3>1. Moved(v) BY WritersMove
    <3>2. writer'[v] = writer[v] => writer[v].at # "idle" BY <1>6
    <3>3. CASE \E e \in Events!Events :
                 writer'[v] = [at |-> "stat", event |-> e] /\ (e.gen = 0 \/ Events!EventTrue(e)')
      <4>1. PICK e \in Events!Events :
              writer'[v] = [at |-> "stat", event |-> e] /\ (e.gen = 0 \/ Events!EventTrue(e)')
        BY <3>3
      <4>2. writer'[v].event = e BY <4>1
      <4> QED BY <4>1, <4>2
    <3> QED BY <2>1, <3>1, <3>2, <3>3 DEF Moved
  <2> QED BY <1>3, <1>4, <2>2
<1>7. ASSUME NEW k \in Events!Files, NEW a \in 1..Len(Events!Held(k)')
      PROVE  \E e \in Events!Events : Events!Held(k)'[a] = e /\ Events!EventTrue(e)'
  <2>1. ASSUME NEW w \in Events!Writers, Events!Shift(w)
        PROVE  \E j \in Events!Files : a \in 1..Len(Events!Held(j)) /\ Events!Held(k)'[a] = Events!Held(j)[a]
    <3>1. PICK up \in [Events!Files -> Events!Files] :
            \A j \in Events!Files : Events!Held(j)' \in {<<>>, Events!Held(up[j])}
      BY <1>1, <2>1, ShiftIs
    <3>2. Events!Held(k)' # <<>> BY <1>7
    <3>3. up[k] \in Events!Files /\ Events!Held(k)' = Events!Held(up[k]) BY <3>1, <3>2
    <3> QED BY <1>7, <3>3
  <2>2. ASSUME NEW w \in Events!Writers, Events!Write(w), count' # count
        PROVE  \/ a \in 1..Len(Events!Held(k)) /\ Events!Held(k)'[a] = Events!Held(k)[a]
               \/ \E e \in Events!Events : Events!Held(k)'[a] = e /\ Events!EventTrue(e)
    <3>1. Events!EventsSound BY DEF SoundEvents, Events!EventsInv
    <3>2. /\ \A j \in Events!Files \ {0} : Events!Held(j)' = Events!Held(j)
          /\ \E e \in Events!Events : Events!EventTrue(e) /\ Events!Held(0)' = Append(Events!Held(0), e)
      BY <1>1, <2>2, <3>1, WriteIs
    <3>3. CASE k # 0 BY <1>7, <3>2, <3>3
    <3>4. CASE k = 0
      <4>1. PICK e \in Events!Events : Events!EventTrue(e) /\ Events!Held(0)' = Append(Events!Held(0), e)
        BY <3>2
      <4>2. Events!Held(0) \in Seq(Events!Events) BY <1>1, HeldIs
      <4>3. /\ Len(Events!Held(0)) \in Nat
            /\ Len(Append(Events!Held(0), e)) = Len(Events!Held(0)) + 1
            /\ Append(Events!Held(0), e)[Len(Events!Held(0)) + 1] = e
            /\ \A b \in 1..Len(Events!Held(0)) : Append(Events!Held(0), e)[b] = Events!Held(0)[b]
        BY <4>2
      <4>4. a \in 1..Len(Events!Held(0)) \/ a = Len(Events!Held(0)) + 1 BY <1>7, <3>4, <4>1, <4>3
      <4> QED BY <3>4, <4>1, <4>3, <4>4
    <3> QED BY <3>3, <3>4
  <2>3. CASE UNCHANGED <<file, count>>
    <3>1. Events!Held(k)' = Events!Held(k) BY <2>3 DEF Events!Held
    <3> QED BY <1>3, <1>4, <1>7, <3>1
  <2> QED BY <1>1, <1>3, <1>4, <2>1, <2>2, <2>3, FilesMove
<1>8. \A k \in Events!Files : \A a \in 1..Len(Events!Held(k)') : Events!EventTrue(Events!Held(k)[a])'
  BY <1>7
<1>9. \A w \in Events!Writers : writer'[w].at # "idle" =>
        writer'[w].event \in Events!Events /\ Events!EventTrue(writer[w].event)'
  BY <1>6
<1> QED BY <1>5, <1>8, <1>9 DEF Events!EventsSound

\* The writers leave the reader where it is: what it has still to come to stays newer than what
\* it was given.
LEMMA ReaderStays ==
  ASSUME Events!ConstantsOK, SoundEvents, Events!Next, UNCHANGED reader
  PROVE  Events!ReaderSound'
<1>1. /\ reader \in Events!Readers /\ count \in Nat /\ Events!TypeOK /\ Events!ReaderSound
      /\ Events!EventsSound
  BY DEF SoundEvents, Events!TypeOK, Events!EventsInv, Events!ConstantsOK
<1>2. /\ \A j \in 1..Len(reader.got) : reader.got[j] \in Nat /\ reader.got[j] <= count
      /\ reader.files \subseteq Events!Files /\ reader.offset \in Nat
  <2>1. \A j \in 1..Len(reader.got) : reader.got[j] <= count BY <1>1 DEF Events!ReaderSound
  <2>2. reader.got \in Seq(1..MaxEvents) /\ reader.files \subseteq Events!Files /\ reader.offset \in 0..MaxEvents
    BY <1>1 DEF Events!Readers
  <2>3. \A j \in 1..Len(reader.got) : reader.got[j] \in Nat BY <2>2 DEF Events!ConstantsOK
  <2> QED BY <2>1, <2>2, <2>3
<1>3. /\ \A k \in Events!Files : Events!Held(k) \in Seq(Events!Events)
      /\ Events!Size(0) = Len(Events!Held(0)) /\ Events!Files = {0, 1, 2}
  BY <1>1, HeldIs
<1>5. ASSUME NEW w \in Events!Writers, Events!Shift(w) PROVE Events!ReaderSound'
  <2>1. PICK up \in [Events!Files -> Events!Files] :
          \A k \in Events!Files : up[k] <= k /\ Events!Held(k)' \in {<<>>, Events!Held(up[k])}
    BY <1>1, <1>5, ShiftIs
  <2>2. count' = count /\ file' \in [Events!Files -> {None} \cup Seq(Events!Events)]
    BY <1>1, <1>5, ShiftIs
  <2>3. Events!Size(0)' = Len(Events!Held(0)')
    BY <2>2 DEF Events!Held, Events!Size, Events!Files, Events!Keep
  <2>4. ASSUME NEW k \in Events!Files, NEW a \in 1..Len(Events!Held(k)')
        PROVE  /\ up[k] \in Events!Files /\ up[k] <= k /\ a \in 1..Len(Events!Held(up[k]))
               /\ Events!Held(k)'[a] = Events!Held(up[k])[a]
    BY <2>1
  <2>5. ASSUME reader.at = "read", NEW k \in reader.files, NEW j \in Events!Files, j <= k,
               NEW a \in 1..Len(Events!Held(j)'), NEW x \in 1..Len(reader.got)
        PROVE  reader.got[x] < Events!Held(j)'[a].n
    <3>1. /\ up[j] <= j /\ up[j] \in Events!Files /\ a \in 1..Len(Events!Held(up[j]))
          /\ Events!Held(j)'[a] = Events!Held(up[j])[a]
      BY <2>4
    <3>2. k \in Events!Files BY <1>2
    <3>3. up[j] <= k BY <1>3, <2>5, <3>1, <3>2
    <3> QED BY <1>1, <2>5, <3>1, <3>3 DEF Events!ReaderSound, Events!Newer
  <2>6. Events!Held(0)' = <<>> \/ Events!Held(0)' = Events!Held(0)
    <3>1. up[0] = 0 BY <1>3, <2>1
    <3> QED BY <1>3, <2>1, <3>1
  <2>7. Events!Held(0)' = <<>> => Events!Size(0)' = 0 BY <2>3
  <2>8. Events!Held(0)' = Events!Held(0) => Events!Size(0)' = Events!Size(0) BY <1>3, <2>3
  <2>9. reader.at = "follow" =>
         \/ \A a \in 1..Events!Size(0)' : \A x \in 1..Len(reader.got) : reader.got[x] < Events!Held(0)'[a].n
         \/ /\ reader.offset <= Events!Size(0)'
            /\ \A a \in (reader.offset + 1)..Events!Size(0)' :
                 \A x \in 1..Len(reader.got) : reader.got[x] < Events!Held(0)'[a].n
    BY <1>1, <2>6, <2>7, <2>8 DEF Events!ReaderSound, Events!Newer
  <2> QED BY <1>1, <2>2, <2>5, <2>9 DEF Events!ReaderSound, Events!Newer
<1>6. ASSUME NEW w \in Events!Writers, Events!Write(w), count' # count PROVE Events!ReaderSound'
  <2>1. PICK e \in Events!Events : e.n = count + 1 /\ Events!Held(0)' = Append(Events!Held(0), e)
    BY <1>1, <1>6, WriteIs
  <2>2. count' = count + 1 /\ \A k \in Events!Files \ {0} : Events!Held(k)' = Events!Held(k)
    BY <1>1, <1>6, WriteIs
  <2>3. /\ Len(Events!Held(0)) \in Nat /\ Len(Events!Held(0)') = Len(Events!Held(0)) + 1
        /\ Events!Held(0)'[Len(Events!Held(0)) + 1] = e
        /\ \A a \in 1..Len(Events!Held(0)) : Events!Held(0)'[a] = Events!Held(0)[a]
    <3>1. \A s \in Seq(Events!Events) :
            /\ Len(s) \in Nat /\ Len(Append(s, e)) = Len(s) + 1 /\ Append(s, e)[Len(s) + 1] = e
            /\ \A a \in 1..Len(s) : Append(s, e)[a] = s[a]
      OBVIOUS
    <3>2. Events!Held(0) \in Seq(Events!Events) BY <1>1, HeldIs DEF Events!Files
    <3> QED BY <2>1, <3>1, <3>2
  <2>4. Events!Size(0)' = Events!Size(0) + 1
    <3>1. file' \in [Events!Files -> {None} \cup Seq(Events!Events)] BY <1>1, <1>6, WriteIs
    <3>2. Events!Size(0)' = Len(Events!Held(0)')
      BY <3>1 DEF Events!Held, Events!Size, Events!Files, Events!Keep
    <3> QED BY <1>3, <2>3, <3>2
  <2>5. ASSUME NEW k \in Events!Files, NEW a \in 1..Len(Events!Held(k)')
        PROVE  \/ a \in 1..Len(Events!Held(k)) /\ Events!Held(k)'[a] = Events!Held(k)[a]
               \/ k = 0 /\ a = Len(Events!Held(0)) + 1 /\ Events!Held(k)'[a] = e
    BY <2>2, <2>3
  <2>6. \A x \in 1..Len(reader.got) : reader.got[x] < e.n BY <1>1, <1>2, <2>1
  <2>7. ASSUME reader.at = "read", NEW k \in reader.files, NEW j \in Events!Files, j <= k,
               NEW a \in 1..Len(Events!Held(j)'), NEW x \in 1..Len(reader.got)
        PROVE  reader.got[x] < Events!Held(j)'[a].n
    <3>1. CASE a \in 1..Len(Events!Held(j)) /\ Events!Held(j)'[a] = Events!Held(j)[a]
      BY <1>1, <2>7, <3>1 DEF Events!ReaderSound, Events!Newer
    <3> QED BY <2>5, <2>6, <3>1
  <2>8. ASSUME NEW a \in 1..Events!Size(0)', NEW x \in 1..Len(reader.got),
               a \in 1..Events!Size(0) => reader.got[x] < Events!Held(0)[a].n
        PROVE  reader.got[x] < Events!Held(0)'[a].n
    BY <1>3, <2>3, <2>4, <2>6, <2>8
  <2>9. reader.at = "follow" =>
         \/ \A a \in 1..Events!Size(0)' : \A x \in 1..Len(reader.got) : reader.got[x] < Events!Held(0)'[a].n
         \/ /\ reader.offset <= Events!Size(0)'
            /\ \A a \in (reader.offset + 1)..Events!Size(0)' :
                 \A x \in 1..Len(reader.got) : reader.got[x] < Events!Held(0)'[a].n
    <3> SUFFICES ASSUME reader.at = "follow" PROVE
         \/ \A a \in 1..Events!Size(0)' : \A x \in 1..Len(reader.got) : reader.got[x] < Events!Held(0)'[a].n
         \/ /\ reader.offset <= Events!Size(0)'
            /\ \A a \in (reader.offset + 1)..Events!Size(0)' :
                 \A x \in 1..Len(reader.got) : reader.got[x] < Events!Held(0)'[a].n
      OBVIOUS
    <3>1. CASE \A a \in 1..Events!Size(0) : Events!Newer(Events!Held(0)[a].n)
      BY <2>8, <3>1 DEF Events!Newer
    <3>2. CASE /\ reader.offset <= Events!Size(0)
               /\ \A a \in (reader.offset + 1)..Events!Size(0) : Events!Newer(Events!Held(0)[a].n)
      <4>1. Events!Size(0) \in Nat BY <1>3, <2>3
      <4>2. ASSUME NEW a \in (reader.offset + 1)..Events!Size(0)', NEW x \in 1..Len(reader.got)
            PROVE  reader.got[x] < Events!Held(0)'[a].n
        <5>1. a \in 1..Events!Size(0)' BY <1>2, <2>4, <4>1
        <5>2. a \in 1..Events!Size(0) => reader.got[x] < Events!Held(0)[a].n
          BY <1>2, <3>2, <4>1 DEF Events!Newer
        <5> QED BY <2>8, <5>1, <5>2
      <4> QED BY <1>2, <2>4, <3>2, <4>1, <4>2
    <3> QED BY <1>1, <3>1, <3>2 DEF Events!ReaderSound
  <2>10. \A x \in 1..Len(reader.got) : reader.got[x] <= count' BY <1>1, <1>2, <2>2
  <2> QED BY <1>1, <2>7, <2>9, <2>10 DEF Events!ReaderSound, Events!Newer
<1>7. CASE UNCHANGED <<file, count>>
  <2>1. /\ \A k \in Events!Files : Events!Held(k)' = Events!Held(k)
        /\ Events!Size(0)' = Events!Size(0)
    BY <1>7 DEF Events!Held, Events!Size
  <2> QED BY <1>1, <1>3, <1>7, <2>1 DEF Events!ReaderSound, Events!Newer
<1> QED BY <1>1, <1>5, <1>6, <1>7, FilesMove

\* The snapshot is what the publisher published last, and a mirror was one.
LEMMA MirrorsStep ==
  ASSUME Events!ConstantsOK, SoundEvents, Events!Next
  PROVE  snap' \in {None} \cup Events!Snapshots /\ Events!MirrorsSound'
<1>1. /\ Events!TypeOK /\ snap \in {None} \cup Events!Snapshots /\ Events!MirrorsSound
      /\ reader \in Events!Readers
  BY DEF SoundEvents, Events!TypeOK, Events!EventsInv
<1>2. past' \in [1..MaxDaemons -> Seq(Events!Rows)] /\ Grown BY RowsGrow
<1>3. ASSUME NEW m \in Events!Snapshots, Events!RowsSound(m)
      PROVE  m.seq <= Len(past'[m.gen]) /\ m.rows = IF m.seq = 0 THEN Events!NoRows ELSE past'[m.gen][m.seq]
  <2>1. m.gen \in 1..MaxDaemons /\ m.seq \in Nat BY DEF Events!Snapshots
  <2> QED BY <1>1, <1>2, <1>3, <2>1, RowsStay
<1>4. /\ snap' \in {None} \cup Events!Snapshots
      /\ snap' # None => /\ snap'.seq <= Len(past'[snap'.gen])
                         /\ snap'.rows = IF snap'.seq = 0 THEN Events!NoRows ELSE past'[snap'.gen][snap'.seq]
  <2>1. CASE Publishes
    <3>1. snap' \in {None} \cup Events!Snapshots BY <2>1, PublishesIs
    <3>2. snap' # None => Events!RowsSound(snap')
      BY <1>1, <2>1, PublishesIs DEF Events!MirrorsSound
    <3> QED BY <1>3, <3>1, <3>2
  <2>2. CASE ~Publishes
    <3>1. snap' = snap BY <2>2, PublisherMovesAlone
    <3> QED BY <1>1, <1>3, <3>1 DEF Events!MirrorsSound
  <2> QED BY <2>1, <2>2
<1>5. reader'.mirror # None =>
        /\ reader'.mirror.seq <= Len(past'[reader'.mirror.gen])
        /\ reader'.mirror.rows = IF reader'.mirror.seq = 0 THEN Events!NoRows
                                 ELSE past'[reader'.mirror.gen][reader'.mirror.seq]
  <2>1. reader'.mirror \in {None} \cup Events!Snapshots
        /\ (reader'.mirror # None => Events!RowsSound(reader'.mirror))
    <3>1. CASE ReaderMoves
      <4>1. UNCHANGED <<file, writer, count, pub, snap, past>> BY <3>1, ReaderMovesAlone
      <4> QED BY <3>1, <4>1, ReaderKeeps DEF Events!Readers
    <3>2. CASE ~ReaderMoves
      <4>1. reader' = reader BY <3>2, ReaderMovesAlone
      <4> QED BY <1>1, <4>1 DEF Events!Readers, Events!MirrorsSound
    <3> QED BY <3>1, <3>2
  <2> QED BY <1>3, <2>1
<1> QED BY <1>4, <1>5 DEF Events!MirrorsSound, Events!RowsSound, Events!RowsAt

LEMMA EventsInit ==
  ASSUME Events!ConstantsOK, Events!Init PROVE SoundEvents
<1>1. Events!Idle \in Events!Appends /\ Events!NoRows \in Events!Rows
  BY DEF Events!Idle, Events!Appends, Events!NoRows, Events!Rows
<1>2. Events!Publisher(1) \in Events!Publishers
  BY <1>1 DEF Events!ConstantsOK, Events!Publisher, Events!Publishers
<1>3. Events!TypeOK
  BY <1>1, <1>2 DEF Events!ConstantsOK, Events!TypeOK, Events!Init, Events!Readers
<1>4. \A k \in Events!Files : Events!Held(k) = <<>> BY DEF Events!Init, Events!Held
<1>5. reader.got = <<>> /\ reader.at = "list" /\ reader.mirror = None /\ snap = None BY DEF Events!Init
<1>6. Events!FilesSound BY <1>4 DEF Events!FilesSound, Events!Init
<1>7. Events!ReaderSound /\ Events!FollowedInOrder /\ Events!MirrorsSound
  BY <1>5 DEF Events!ReaderSound, Events!FollowedInOrder, Events!MirrorsSound
<1>8. Events!EventsSound
  <2>1. \A w \in Events!Writers : writer[w].at = "idle" BY DEF Events!Init, Events!Idle
  <2> QED BY <1>4, <2>1 DEF Events!EventsSound
<1>9. Events!PublisherSound
  <2>1. pub.seq = 0 /\ pub.gen = 1 /\ pub.rows = Events!NoRows /\ \A g \in 1..MaxDaemons : past[g] = <<>>
    BY DEF Events!Init, Events!Publisher
  <2>2. past[1] = <<>> BY <2>1 DEF Events!ConstantsOK
  <2> QED BY <2>1, <2>2 DEF Events!PublisherSound, Events!RowsSound, Events!RowsAt
<1> QED BY <1>3, <1>6, <1>7, <1>8, <1>9 DEF SoundEvents, Events!EventsInv

LEMMA EventsKept ==
  ASSUME Events!ConstantsOK, SoundEvents, [Events!Next]_Events!vars PROVE SoundEvents'
<1>1. CASE Events!Next
  <2>1. Events!TypeOK /\ Events!FilesSound /\ Events!EventsSound /\ Events!PublisherSound
        /\ reader \in Events!Readers /\ Events!FollowedInOrder /\ count \in Nat /\ MaxEvents \in Nat
    BY DEF SoundEvents, Events!TypeOK, Events!EventsInv, Events!ConstantsOK
  <2>2. writer' \in [Events!Writers -> Events!Appends] /\ Events!EventsSound' BY <1>1, EventsStep
  <2>3. past' \in [1..MaxDaemons -> Seq(Events!Rows)] BY <1>1, RowsGrow
  <2>4. snap' \in {None} \cup Events!Snapshots /\ Events!MirrorsSound' BY <1>1, MirrorsStep
  <2>5. reader' \in Events!Readers /\ Events!ReaderSound' /\ Events!FollowedInOrder'
    <3>1. CASE ReaderMoves
      <4>1. UNCHANGED <<file, writer, count, pub, snap, past>> BY <1>1, <3>1, ReaderMovesAlone
      <4> QED BY <3>1, <4>1, ReaderKeeps
    <3>2. CASE ~ReaderMoves
      <4>1. reader' = reader BY <1>1, <3>2, ReaderMovesAlone
      <4> QED BY <1>1, <2>1, <4>1, ReaderStays DEF Events!FollowedInOrder
    <3> QED BY <3>1, <3>2
  <2>6. pub' \in Events!Publishers /\ Events!PublisherSound'
    <3>1. CASE Publishes BY <3>1, PublishesIs
    <3>2. CASE ~Publishes
      <4>1. pub' = pub /\ past' = past BY <1>1, <3>2, PublisherMovesAlone
      <4> QED BY <2>1, <4>1 DEF Events!TypeOK, Events!PublisherSound, Events!RowsSound, Events!RowsAt
    <3> QED BY <3>1, <3>2
  <2>7. file' \in [Events!Files -> {None} \cup Seq(Events!Events)] /\ count' \in 0..MaxEvents
        /\ Events!FilesSound'
    <3>1. Events!FilesSound' BY <1>1, <2>1, FilesMove, FilesStep
    <3>2. ASSUME NEW w \in Events!Writers, Events!Shift(w)
          PROVE  file' \in [Events!Files -> {None} \cup Seq(Events!Events)] /\ count' \in 0..MaxEvents
      BY <2>1, <3>2, ShiftIs DEF Events!TypeOK
    <3>3. ASSUME NEW w \in Events!Writers, Events!Write(w), count' # count
          PROVE  file' \in [Events!Files -> {None} \cup Seq(Events!Events)] /\ count' \in 0..MaxEvents
      <4>1. file' \in [Events!Files -> {None} \cup Seq(Events!Events)]
            /\ count < MaxEvents /\ count' = count + 1
        BY <2>1, <3>3, WriteIs
      <4> QED BY <2>1, <4>1
    <3>4. CASE UNCHANGED <<file, count>> BY <2>1, <3>1, <3>4 DEF Events!TypeOK
    <3>5. \/ \E w \in Events!Writers : Events!Shift(w)
          \/ \E w \in Events!Writers : Events!Write(w) /\ count' # count
          \/ UNCHANGED <<file, count>>
      BY <1>1, <2>1, FilesMove
    <3> QED BY <3>1, <3>2, <3>3, <3>4, <3>5
  <2> QED BY <2>2, <2>3, <2>4, <2>5, <2>6, <2>7 DEF SoundEvents, Events!TypeOK, Events!EventsInv
<1>2. CASE UNCHANGED Events!vars
  <2>1. UNCHANGED <<file, writer, count, pub, snap, past, reader>> BY <1>2 DEF Events!vars
  <2>0. /\ Events!TypeOK /\ Events!FilesSound /\ Events!FollowedInOrder /\ Events!ReaderSound
        /\ Events!EventsSound /\ Events!PublisherSound /\ Events!MirrorsSound
    BY DEF SoundEvents, Events!EventsInv
  <2>2. Events!TypeOK' BY <2>0, <2>1 DEF Events!TypeOK
  <2>3. Events!FilesSound' BY <2>0, <2>1 DEF Events!FilesSound, Events!Held
  <2>4. Events!FollowedInOrder' BY <2>0, <2>1 DEF Events!FollowedInOrder
  <2>5. Events!ReaderSound'
    BY <2>0, <2>1 DEF Events!ReaderSound, Events!Held, Events!Size, Events!Newer
  <2>6. Events!EventsSound'
    <3>1. \A e : Events!EventTrue(e) => Events!EventTrue(e)'
      BY <2>1, Zenon DEF Events!EventTrue, Events!RowsAt
    <3>2. \A k : Events!Held(k)' = Events!Held(k) BY <2>1, Zenon DEF Events!Held
    <3>3. ASSUME NEW k \in Events!Files, NEW a \in 1..Len(Events!Held(k)')
          PROVE  \E e : Events!Held(k)'[a] = e /\ Events!EventTrue(e)'
      BY <2>0, <3>1, <3>2 DEF Events!EventsSound
    <3>4. ASSUME NEW w \in Events!Writers, writer'[w].at # "idle"
          PROVE  \E e \in Events!Events : writer'[w].event = e /\ Events!EventTrue(e)'
      BY <2>0, <2>1, <3>1, <3>4 DEF Events!EventsSound
    <3>5. \A k \in Events!Files : \A a \in 1..Len(Events!Held(k)') : Events!EventTrue(Events!Held(k)[a])'
      BY <3>3
    <3>6. \A w \in Events!Writers : writer'[w].at # "idle" =>
            writer'[w].event \in Events!Events /\ Events!EventTrue(writer[w].event)'
      BY <3>4
    <3> QED BY <3>5, <3>6 DEF Events!EventsSound
  <2>7. Events!PublisherSound' /\ Events!MirrorsSound'
    BY <2>0, <2>1 DEF Events!PublisherSound, Events!MirrorsSound, Events!RowsSound, Events!RowsAt
  <2> QED BY <2>2, <2>3, <2>4, <2>5, <2>6, <2>7 DEF SoundEvents, Events!EventsInv
<1> QED BY <1>1, <1>2

THEOREM EventsInductive == ASSUME Events!ConstantsOK PROVE Events!Spec => []SoundEvents
<1>1. Events!Init => SoundEvents BY EventsInit
<1>2. SoundEvents /\ [Events!Next]_Events!vars => SoundEvents' BY EventsKept
<1> QED BY <1>1, <1>2, PTL DEF Events!Spec

\* What the invariant says of a follower and its mirror.
LEMMA EventsFollow == ASSUME SoundEvents PROVE Events!FollowedInOrder /\ Events!MirrorTrue
BY DEF SoundEvents, Events!EventsInv, Events!MirrorsSound, Events!MirrorTrue, Events!RowsSound,
  Events!RowsAt

\* What a follower is given is in the order it was written and nothing comes twice, however
\* the two writers rotate the files under it.
THEOREM FeedInOrder == ASSUME Events!ConstantsOK PROVE Events!Spec => []Events!FollowedInOrder
<1>1. SoundEvents => Events!FollowedInOrder BY EventsFollow
<1> QED BY <1>1, EventsInductive, PTL

\* A mirror is never wrong about what it claims: the rows it holds for a sequence of a daemon
\* are the rows that daemon had, whatever events were lost, rotated away or read too late.
THEOREM MirrorAlwaysTrue == ASSUME Events!ConstantsOK PROVE Events!Spec => []Events!MirrorTrue
<1>1. SoundEvents => Events!MirrorTrue BY EventsFollow
<1> QED BY <1>1, EventsInductive, PTL

-----------------------------------------------------------------------------
(* The content of a session and a reader's cursor *)

Of(s) == {s[k] : k \in 1..Len(s)}
\* The sets of ContentFeed are counted as those of this module.
LEMMA Counted ==
  ASSUME NEW S
  PROVE  Content!IsFiniteSet(S) = IsFiniteSet(S) /\ Content!Cardinality(S) = Cardinality(S)
BY DEF Content!IsFiniteSet, IsFiniteSet, Content!Cardinality, Cardinality

\* A sequence without one of its places.
LEMMA RemovedIs ==
  ASSUME NEW S, NEW s \in Seq(S), NEW k \in 1..Len(s)
  PROVE  /\ Content!RemovedAt(s, k) \in Seq(S) /\ Len(Content!RemovedAt(s, k)) = Len(s) - 1
         /\ \A j \in 1..(Len(s) - 1) : Content!RemovedAt(s, k)[j] = IF j < k THEN s[j] ELSE s[j + 1]
<1> DEFINE a == SubSeq(s, 1, k - 1)
           b == SubSeq(s, k + 1, Len(s))
<1>1. a \in Seq(S) /\ Len(a) = k - 1 /\ \A j \in 1..(k - 1) : a[j] = s[j]
  <2>1. \A j \in 1..(k - 1) : s[j] \in S OBVIOUS
  <2> QED BY <2>1, SubSeqProperties
<1>2. b \in Seq(S) /\ Len(b) = Len(s) - k /\ \A j \in 1..(Len(s) - k) : b[j] = s[k + j]
  <2>1. \A j \in (k + 1)..Len(s) : s[j] \in S OBVIOUS
  <2>2. /\ b \in Seq(S) /\ Len(b) = IF k + 1 <= Len(s) THEN Len(s) - (k + 1) + 1 ELSE 0
        /\ \A j \in 1..(Len(s) - (k + 1) + 1) : b[j] = s[k + 1 + j - 1]
    BY <2>1, SubSeqProperties
  <2> HIDE DEF b
  <2> QED BY <2>2
<1> HIDE DEF a, b
<1>3. /\ a \o b \in Seq(S) /\ Len(a \o b) = Len(s) - 1
      /\ \A j \in 1..(Len(s) - 1) : (a \o b)[j] = IF j <= k - 1 THEN a[j] ELSE b[j - (k - 1)]
  BY <1>1, <1>2, ConcatProperties
<1>4. \A j \in 1..(Len(s) - 1) : (a \o b)[j] = IF j < k THEN s[j] ELSE s[j + 1]
  BY <1>1, <1>2, <1>3
<1>5. Content!RemovedAt(s, k) = a \o b BY DEF Content!RemovedAt, a, b
<1> QED BY <1>3, <1>4, <1>5

\* The last of a sequence.
LEMMA LastOfIs ==
  ASSUME NEW S, NEW s \in Seq(S), NEW n \in Nat
  PROVE  /\ Content!LastOf(s, n) \in Seq(S)
         /\ Len(Content!LastOf(s, n)) = IF Len(s) > n THEN n ELSE Len(s)
         /\ \A j \in 1..Len(Content!LastOf(s, n)) :
              Content!LastOf(s, n)[j] = s[Len(s) - Len(Content!LastOf(s, n)) + j]
<1> DEFINE m == IF Len(s) > n THEN Len(s) - n + 1 ELSE 1
           t == SubSeq(s, m, Len(s))
<1>1. m \in 1..(Len(s) + 1) OBVIOUS
<1>2. \A j \in m..Len(s) : s[j] \in S OBVIOUS
<1>3. /\ t \in Seq(S) /\ Len(t) = IF m <= Len(s) THEN Len(s) - m + 1 ELSE 0
      /\ \A j \in 1..(Len(s) - m + 1) : t[j] = s[m + j - 1]
  <2> HIDE DEF m
  <2> QED BY <1>1, <1>2, SubSeqProperties
<1> HIDE DEF t
<1>0. Len(s) \in Nat OBVIOUS
<1>4. Len(t) = IF Len(s) > n THEN n ELSE Len(s)
  <2>1. CASE Len(s) > n BY <1>0, <1>3, <2>1
  <2>2. CASE ~(Len(s) > n) BY <1>0, <1>3, <2>2
  <2> QED BY <2>1, <2>2
<1>5. m = Len(s) - Len(t) + 1
  <2>1. CASE Len(s) > n BY <1>0, <1>4, <2>1
  <2>2. CASE ~(Len(s) > n) BY <1>0, <1>4, <2>2
  <2> QED BY <2>1, <2>2
<1>6. ASSUME NEW j \in 1..Len(t) PROVE t[j] = s[Len(s) - Len(t) + j]
  <2> HIDE DEF m
  <2>1. Len(t) \in Nat /\ m \in Int BY <1>0, <1>1, <1>4
  <2>2. m + j - 1 = Len(s) - Len(t) + j BY <1>0, <1>5, <2>1
  <2>3. j \in 1..(Len(s) - m + 1) BY <1>0, <1>5, <2>1
  <2>4. t[j] = s[m + j - 1] BY <1>3, <2>3
  <2> QED BY <2>2, <2>4
<1>7. Content!LastOf(s, n) = t BY DEF Content!LastOf, t, m
<1> QED BY <1>3, <1>4, <1>6, <1>7

LEMMA LastOfWhole ==
  ASSUME NEW S, NEW s \in Seq(S), NEW n \in Nat, Len(s) <= n
  PROVE  Content!LastOf(s, n) = s
<1>1. ~(Len(s) > n) OBVIOUS
<1>2. Content!LastOf(s, n) = SubSeq(s, 1, Len(s)) BY <1>1, Zenon DEF Content!LastOf
<1> QED BY <1>2, SubSeqFull

\* Rows of the same things as before, in any order, have one of each.
LEMMA RemovedRows ==
  ASSUME NEW S, NEW s \in Seq(S), Content!OneRow(s), NEW k \in 1..Len(s)
  PROVE  /\ Content!OneRow(Content!RemovedAt(s, k))
         /\ Of(Content!RemovedAt(s, k)) = {x \in Of(s) : x.item # s[k].item}
<1> DEFINE t == Content!RemovedAt(s, k)
<1>1. /\ t \in Seq(S) /\ Len(t) = Len(s) - 1
      /\ \A j \in 1..(Len(s) - 1) : t[j] = IF j < k THEN s[j] ELSE s[j + 1]
  BY RemovedIs
<1> HIDE DEF t
<1>2. \A j \in 1..Len(t) : \E m \in 1..Len(s) : t[j] = s[m] /\ m # k /\ (m = j \/ m = j + 1)
        /\ (m = j <=> j < k)
  <2> SUFFICES ASSUME NEW j \in 1..Len(t)
               PROVE \E m \in 1..Len(s) : t[j] = s[m] /\ m # k /\ (m = j \/ m = j + 1)
                       /\ (m = j <=> j < k)
    OBVIOUS
  <2>1. CASE j < k
    <3>1. j \in 1..Len(s) /\ t[j] = s[j] /\ j # k BY <1>1, <2>1
    <3> QED BY <2>1, <3>1
  <2>2. CASE ~(j < k)
    <3>1. j + 1 \in 1..Len(s) /\ t[j] = s[j + 1] /\ j + 1 # k /\ j + 1 # j BY <1>1, <2>2
    <3> QED BY <2>2, <3>1
  <2> QED BY <2>1, <2>2
<1>3. \A m \in 1..Len(s) : m # k => \E j \in 1..Len(t) : t[j] = s[m]
  <2> SUFFICES ASSUME NEW m \in 1..Len(s), m # k PROVE \E j \in 1..Len(t) : t[j] = s[m] OBVIOUS
  <2>1. CASE m < k BY <1>1, <2>1
  <2>2. CASE m > k
    <3>1. m - 1 \in 1..Len(t) /\ ~(m - 1 < k) /\ (m - 1) + 1 = m BY <1>1, <2>2
    <3> QED BY <1>1, <3>1
  <2> QED BY <2>1, <2>2
<1>4. Content!OneRow(t)
  <2> SUFFICES ASSUME NEW i \in 1..Len(t), NEW j \in 1..Len(t), t[i].item = t[j].item PROVE i = j
    BY DEF Content!OneRow
  <2>1. PICK m \in 1..Len(s) : t[i] = s[m] /\ (m = i \/ m = i + 1) /\ (m = i <=> i < k) BY <1>2
  <2>2. PICK n \in 1..Len(s) : t[j] = s[n] /\ (n = j \/ n = j + 1) /\ (n = j <=> j < k) BY <1>2
  <2>3. m = n BY <2>1, <2>2 DEF Content!OneRow
  <2> QED BY <2>1, <2>2, <2>3
<1>5. ASSUME NEW x, x \in Of(t) PROVE x \in Of(s) /\ x.item # s[k].item
  <2>1. PICK j \in 1..Len(t) : x = t[j] BY <1>5 DEF Of
  <2>2. PICK m \in 1..Len(s) : t[j] = s[m] /\ m # k BY <1>2
  <2> QED BY <2>1, <2>2 DEF Of, Content!OneRow
<1>6. ASSUME NEW x, x \in Of(s), x.item # s[k].item PROVE x \in Of(t)
  <2>1. PICK m \in 1..Len(s) : x = s[m] BY <1>6 DEF Of
  <2>2. m # k BY <1>6, <2>1
  <2> QED BY <1>3, <2>1, <2>2 DEF Of
<1>7. Of(t) = {x \in Of(s) : x.item # s[k].item} BY <1>5, <1>6
<1> QED BY <1>4, <1>7 DEF t

LEMMA WithoutIs ==
  ASSUME NEW S, NEW s \in Seq(S), Content!OneRow(s), NEW i
  PROVE  /\ Content!Without(s, i) \in Seq(S) /\ Len(Content!Without(s, i)) <= Len(s)
         /\ Content!OneRow(Content!Without(s, i))
         /\ Of(Content!Without(s, i)) = {x \in Of(s) : x.item # i}
<1>1. CASE Content!Has(s, i)
  <2>1. Content!At(s, i) \in 1..Len(s) /\ s[Content!At(s, i)].item = i
    BY <1>1 DEF Content!At, Content!Has
  <2>2. Content!Without(s, i) = Content!RemovedAt(s, Content!At(s, i))
    BY <1>1 DEF Content!Without
  <2> QED BY <2>1, <2>2, RemovedIs, RemovedRows
<1>2. CASE ~Content!Has(s, i)
  <2>1. Content!Without(s, i) = s BY <1>2 DEF Content!Without
  <2>2. \A x \in Of(s) : x.item # i BY <1>2 DEF Of, Content!Has
  <2> QED BY <2>1, <2>2
<1> QED BY <1>1, <1>2

\* A row that is put at the end in place of the one of its item.
LEMMA PutLast ==
  ASSUME NEW S, NEW s \in Seq(S), Content!OneRow(s), NEW r \in S
  PROVE  LET t == Append(Content!Without(s, r.item), r)
         IN /\ t \in Seq(S) /\ Len(t) <= Len(s) + 1 /\ Content!OneRow(t)
            /\ Of(t) = {x \in Of(s) : x.item # r.item} \cup {r}
<1> DEFINE w == Content!Without(s, r.item)
           t == Append(w, r)
<1>1. /\ w \in Seq(S) /\ Len(w) <= Len(s) /\ Content!OneRow(w) /\ Of(w) = {x \in Of(s) : x.item # r.item}
  BY WithoutIs
<1> HIDE DEF w
<1>2. t \in Seq(S) /\ Len(t) = Len(w) + 1 /\ t[Len(w) + 1] = r /\ \A k \in 1..Len(w) : t[k] = w[k]
  BY <1>1
<1> HIDE DEF t
<1>3. \A k \in 1..Len(w) : w[k].item # r.item BY <1>1 DEF Of
<1>4. Content!OneRow(t)
  <2> SUFFICES ASSUME NEW j \in 1..Len(t), NEW k \in 1..Len(t), t[j].item = t[k].item PROVE j = k
    BY DEF Content!OneRow
  <2>0. Len(w) \in Nat BY <1>1
  <2>1. CASE j = Len(w) + 1 /\ k = Len(w) + 1 BY <2>1
  <2>2. CASE j \in 1..Len(w) /\ k \in 1..Len(w) BY <1>1, <1>2, <2>2 DEF Content!OneRow
  <2>3. CASE j = Len(w) + 1 /\ k \in 1..Len(w) BY <1>2, <1>3, <2>3
  <2>4. CASE j \in 1..Len(w) /\ k = Len(w) + 1 BY <1>2, <1>3, <2>4
  <2> QED BY <2>0, <1>2, <2>1, <2>2, <2>3, <2>4
<1>5. Of(t) = Of(w) \cup {r}
  <2>0. Len(w) \in Nat BY <1>1
  <2>1. ASSUME NEW x \in Of(t) PROVE x \in Of(w) \cup {r}
    <3>1. PICK k \in 1..Len(t) : x = t[k] BY DEF Of
    <3> QED BY <2>0, <3>1, <1>2 DEF Of
  <2>2. ASSUME NEW x \in Of(w) PROVE x \in Of(t)
    <3>1. PICK k \in 1..Len(w) : x = w[k] BY DEF Of
    <3>2. k \in 1..Len(t) /\ x = t[k] BY <2>0, <1>2, <3>1
    <3> QED BY <3>2 DEF Of
  <2>3. r \in Of(t)
    <3>1. Len(w) + 1 \in 1..Len(t) BY <2>0, <1>2
    <3> QED BY <3>1, <1>2 DEF Of
  <2> QED BY <2>1, <2>2, <2>3
<1>6. Len(t) <= Len(s) + 1 BY <1>1, <1>2
<1> QED BY <1>1, <1>2, <1>4, <1>5, <1>6 DEF t, w

\* The row of an item.
LEMMA RowIs ==
  ASSUME NEW S, NEW s \in Seq(S), NEW i, Content!Has(s, i)
  PROVE  Content!Row(s, i) \in S /\ Content!Row(s, i) \in Of(s) /\ Content!Row(s, i).item = i
<1>1. Content!At(s, i) \in 1..Len(s) /\ s[Content!At(s, i)].item = i BY DEF Content!At, Content!Has
<1> QED BY <1>1 DEF Content!Row, Of

LEMMA HasIs ==
  ASSUME NEW S, NEW s \in Seq(S), NEW i
  PROVE  Content!Has(s, i) <=> \E x \in Of(s) : x.item = i
BY DEF Content!Has, Of

\* Some number of a set is the least.
LEMMA SmallestIs ==
  ASSUME NEW T, T \subseteq Nat, T # {}
  PROVE  \E n \in T : \A m \in T : n <= m
<1> DEFINE R == OpToRel(<, Nat)
<1>1. IsWellFoundedOn(R, Nat) BY NatLessThanWellFounded
<1> HIDE DEF R
<1>2. PICK x \in T : \A y \in T : ~(<<y, x>> \in R) BY <1>1, WFMin
<1>3. \A y \in T : x <= y
  <2> SUFFICES ASSUME NEW y \in T, ~(x <= y) PROVE FALSE OBVIOUS
  <2>1. x \in Nat /\ y \in Nat /\ y < x OBVIOUS
  <2>2. <<y, x>> \in R BY <2>1 DEF R, OpToRel
  <2> QED BY <1>2, <2>2
<1> QED BY <1>3

\* There are no more rows of some items than there are items.
LEMMA RowsFit ==
  ASSUME NEW S, NEW s \in Seq(S), Content!OneRow(s), NEW T, IsFiniteSet(T),
         \A k \in 1..Len(s) : s[k].item \in T
  PROVE  Len(s) <= Cardinality(T)
<1> DEFINE f == [k \in 1..Len(s) |-> s[k].item]
<1>0. Len(s) \in Nat OBVIOUS
<1>1. f \in Injection(1..Len(s), T) BY DEF Content!OneRow, Injection, IsInjective
<1>2. Cardinality(1..Len(s)) <= Cardinality(T) BY <1>1, FS_Injection
<1>3. Cardinality(1..Len(s)) = Len(s) BY <1>0, FS_Interval
<1> QED BY <1>2, <1>3

\* What boundStates leaves: of requests everything, while there is place for all of them.
LEMMA BoundedIs ==
  ASSUME Content!ConstantsOK, NEW ss \in Seq(Content!Rows), Content!OneRow(ss), Len(ss) <= MaxItems + 1
  PROVE  /\ Content!Bounded(ss) \in Seq(Content!Rows) /\ Len(Content!Bounded(ss)) <= MaxItems
         /\ Content!OneRow(Content!Bounded(ss)) /\ Of(Content!Bounded(ss)) \subseteq Of(ss)
         /\ Cardinality(Requests) <= MaxItems =>
              \A x \in Of(ss) : x.item \in Requests => x \in Of(Content!Bounded(ss))
<1> DEFINE text == {k \in 1..Len(ss) : ss[k].item \in Texts}
           out == IF text = {} THEN 1 ELSE CHOOSE k \in text : \A j \in text : k <= j
<1>0. Len(ss) \in Nat /\ MaxItems \in Nat BY DEF Content!ConstantsOK
<1>1. CASE Len(ss) <= MaxItems
  <2>1. Content!Bounded(ss) = ss BY <1>1 DEF Content!Bounded
  <2> QED BY <1>1, <2>1
<1>2. CASE ~(Len(ss) <= MaxItems)
  <2>1. Len(ss) = MaxItems + 1 BY <1>0, <1>2
  <2>2. out \in 1..Len(ss) /\ (text # {} => out \in text)
    <3>1. CASE text = {} BY <1>0, <2>1, <3>1
    <3>2. CASE text # {}
      <4>1. text \subseteq Nat OBVIOUS
      <4>2. \E k \in text : \A j \in text : k <= j BY <3>2, <4>1, SmallestIs
      <4>3. out \in text BY <3>2, <4>2
      <4> QED BY <4>3
    <3> QED BY <3>1, <3>2
  <2>3. Content!Bounded(ss) = Content!RemovedAt(ss, out) BY <1>2 DEF Content!Bounded
  <2> HIDE DEF out
  <2>4. /\ Content!Bounded(ss) \in Seq(Content!Rows) /\ Len(Content!Bounded(ss)) = MaxItems
        /\ Content!OneRow(Content!Bounded(ss))
        /\ Of(Content!Bounded(ss)) = {x \in Of(ss) : x.item # ss[out].item}
    BY <1>0, <2>1, <2>2, <2>3, RemovedIs, RemovedRows
  <2>5. ASSUME Cardinality(Requests) <= MaxItems, NEW x \in Of(ss), x.item \in Requests
        PROVE  x \in Of(Content!Bounded(ss))
    <3>1. text # {}
      <4> SUFFICES ASSUME text = {} PROVE FALSE OBVIOUS
      <4>0. IsFiniteSet(Requests) BY Counted DEF Content!ConstantsOK
      <4>1. \A k \in 1..Len(ss) : ss[k].item \in Texts \cup Requests
        <5>1. \A k \in 1..Len(ss) : ss[k] \in Content!Rows OBVIOUS
        <5> QED BY <5>1 DEF Content!Rows, Content!TextRows, Content!RowsOf
      <4>2. \A k \in 1..Len(ss) : ss[k].item \in Requests BY <4>1
      <4>3. Len(ss) <= Cardinality(Requests) BY <4>0, <4>2, RowsFit
      <4>4. Cardinality(Requests) \in Nat BY <4>0, FS_CardinalityType
      <4> QED BY <1>0, <2>1, <2>5, <4>3, <4>4
    <3>2. ss[out].item \in Texts BY <2>2, <3>1
    <3>3. x.item # ss[out].item BY <2>5, <3>2 DEF Content!ConstantsOK
    <3> QED BY <2>4, <3>3
  <2> QED BY <1>0, <2>4, <2>5
<1> QED BY <1>1, <1>2

\* The last of two sequences that are joined.
Joined(S, s, t, n) ==
  LET all == s \o t
      kept == Content!LastOf(all, n)
      d == Len(all) - Len(kept)
  IN /\ all \in Seq(S) /\ Len(all) = Len(s) + Len(t)
     /\ \A k \in 1..(Len(s) + Len(t)) : all[k] = IF k <= Len(s) THEN s[k] ELSE t[k - Len(s)]
     /\ kept \in Seq(S) /\ Len(kept) \in Nat /\ Len(kept) <= n
     /\ d \in Nat /\ d + Len(kept) = Len(s) + Len(t)
     /\ \A k \in 1..Len(kept) : d + k \in 1..Len(all) /\ kept[k] = all[d + k]
LEMMA JoinedIs ==
  ASSUME NEW S, NEW s \in Seq(S), NEW t \in Seq(S), NEW n \in Nat
  PROVE  Joined(S, s, t, n)
<1> DEFINE all == s \o t
           kept == Content!LastOf(all, n)
           d == Len(all) - Len(kept)
<1>1. /\ all \in Seq(S) /\ Len(all) = Len(s) + Len(t)
      /\ \A k \in 1..(Len(s) + Len(t)) : all[k] = IF k <= Len(s) THEN s[k] ELSE t[k - Len(s)]
  BY ConcatProperties
<1> HIDE DEF all
<1>2. /\ kept \in Seq(S) /\ Len(kept) = IF Len(all) > n THEN n ELSE Len(all)
      /\ \A j \in 1..Len(kept) : kept[j] = all[Len(all) - Len(kept) + j]
  BY <1>1, LastOfIs
<1> HIDE DEF kept
<1>3. Len(s) \in Nat /\ Len(t) \in Nat /\ Len(all) \in Nat OBVIOUS
<1>4. Len(kept) \in Nat /\ Len(kept) <= n /\ Len(kept) <= Len(all)
  <2>1. CASE Len(all) > n BY <1>2, <1>3, <2>1
  <2>2. CASE ~(Len(all) > n) BY <1>2, <1>3, <2>2
  <2> QED BY <2>1, <2>2
<1>5. d \in Nat /\ d + Len(kept) = Len(s) + Len(t) BY <1>1, <1>3, <1>4
<1>6. ASSUME NEW k \in 1..Len(kept) PROVE d + k \in 1..Len(all) /\ kept[k] = all[d + k]
  <2>1. d + k \in 1..Len(all) BY <1>3, <1>4
  <2> QED BY <1>2, <2>1
<1> QED BY <1>1, <1>2, <1>4, <1>5, <1>6 DEF Joined, all, kept

\* A record with its number.
Stamped(r, n) == [r EXCEPT !.seq = n]

LEMMA PushedIs ==
  ASSUME Content!ConstantsOK, NEW b \in Content!Buffers, Content!Numbered(b),
         NEW rs \in Seq(Content!Records)
  PROVE  LET p == Content!Pushed(b, rs)
         IN /\ p \in Content!Buffers /\ p.gen = b.gen /\ p.boundary = b.boundary
            /\ p.states = b.states /\ p.positions = b.positions
            /\ p.seq = b.seq + Len(rs) /\ Content!Numbered(p)
            /\ Len(p.records) <= MaxRecords /\ p.dropped >= b.dropped
            /\ \A k \in 1..Len(p.records), n \in Nat : n = p.dropped + k =>
                 /\ n <= b.seq => p.records[k] = b.records[n - b.dropped]
                 /\ n > b.seq => p.records[k] = Stamped(rs[n - b.seq], n)
<1> DEFINE new == [k \in 1..Len(rs) |-> [rs[k] EXCEPT !.seq = b.seq + k]]
           all == b.records \o new
           kept == Content!LastOf(all, MaxRecords)
           d == Len(all) - Len(kept)
<1>0. /\ MaxRecords \in Nat /\ Len(rs) \in Nat /\ b.seq \in Nat /\ b.dropped \in Nat
      /\ b.records \in Seq(Content!Records) /\ Len(b.records) \in Nat
      /\ b.dropped + Len(b.records) = b.seq
  BY DEF Content!ConstantsOK, Content!Buffers, Content!Numbered
<1>1. ASSUME NEW r \in Content!Records, NEW q \in Nat
      PROVE  Stamped(r, q) \in Content!Records /\ Stamped(r, q).seq = q
  BY DEF Stamped, Content!Records, Content!TextRecords, Content!RecordsOf
<1>2. new \in Seq(Content!Records) /\ Len(new) = Len(rs)
      /\ \A k \in 1..Len(rs) : new[k] = Stamped(rs[k], b.seq + k) /\ new[k].seq = b.seq + k
  <2>2. \A k \in 1..Len(rs) : rs[k] \in Content!Records /\ b.seq + k \in Nat BY <1>0
  <2>3. \A k \in 1..Len(rs) : Stamped(rs[k], b.seq + k) \in Content!Records
                              /\ Stamped(rs[k], b.seq + k).seq = b.seq + k
    BY <1>1, <2>2
  <2>4. new \in [1..Len(rs) -> Content!Records] BY <2>3 DEF Stamped
  <2>5. \A f \in [1..Len(rs) -> Content!Records] : f \in Seq(Content!Records) /\ Len(f) = Len(rs)
    BY <1>0
  <2>6. \A k \in 1..Len(rs) : new[k] = Stamped(rs[k], b.seq + k) BY DEF Stamped
  <2> HIDE DEF new
  <2> QED BY <2>3, <2>4, <2>5, <2>6
<1> HIDE DEF new
<1>3. /\ all \in Seq(Content!Records) /\ Len(all) = Len(b.records) + Len(rs)
      /\ \A k \in 1..(Len(b.records) + Len(rs)) :
           all[k] = IF k <= Len(b.records) THEN b.records[k] ELSE new[k - Len(b.records)]
      /\ kept \in Seq(Content!Records) /\ Len(kept) \in Nat /\ Len(kept) <= MaxRecords
      /\ d \in Nat /\ d + Len(kept) = Len(b.records) + Len(rs)
      /\ \A k \in 1..Len(kept) : d + k \in 1..Len(all) /\ kept[k] = all[d + k]
  <2>1. b.records \in Seq(Content!Records) /\ new \in Seq(Content!Records) /\ MaxRecords \in Nat
        /\ Len(new) = Len(rs)
    BY <1>0, <1>2
  <2>2. Joined(Content!Records, b.records, new, MaxRecords) BY <2>1, JoinedIs
  <2> HIDE DEF new
  <2> QED BY <2>1, <2>2 DEF Joined
<1>30. /\ Len(all) = Len(b.records) + Len(rs) /\ Len(kept) \in Nat /\ Len(kept) <= MaxRecords
       /\ d \in Nat /\ d + Len(kept) = Len(b.records) + Len(rs)
  BY <1>3
<1>31. \A m \in 1..Len(b.records) : all[m] = b.records[m] /\ b.records[m].seq = b.dropped + m
  BY <1>0, <1>3 DEF Content!Numbered
<1> HIDE DEF all
<1>4. ASSUME NEW m \in 1..Len(all), NEW n, n = b.dropped + m
      PROVE  /\ all[m].seq = n /\ (n <= b.seq => all[m] = b.records[m])
             /\ n > b.seq => all[m] = Stamped(rs[n - b.seq], n)
  <2>1. CASE m <= Len(b.records)
    <3>1. m \in 1..Len(b.records) /\ ~(n > b.seq) BY <1>0, <1>4, <2>1
    <3> QED BY <1>31, <1>4, <3>1
  <2>2. CASE ~(m <= Len(b.records))
    <3>1. m - Len(b.records) \in 1..Len(rs) BY <1>0, <1>3, <2>2
    <3>2. n - b.seq = m - Len(b.records) /\ b.seq + (m - Len(b.records)) = n /\ ~(n <= b.seq)
      BY <1>0, <1>4, <2>2
    <3>3. all[m] = new[m - Len(b.records)] BY <1>0, <1>3, <2>2
    <3>4. new[m - Len(b.records)].seq = n
          /\ new[m - Len(b.records)] = Stamped(rs[m - Len(b.records)], n)
      BY <1>2, <3>1, <3>2
    <3> QED BY <3>2, <3>3, <3>4
  <2> QED BY <2>1, <2>2
<1>5. (IF Len(kept) < Len(all) THEN all[d].seq ELSE b.dropped) = b.dropped + d
  <2> HIDE DEF kept
  <2>1. CASE Len(kept) < Len(all)
    <3>1. d \in 1..Len(all) BY <1>0, <1>3, <2>1
    <3> QED BY <1>4, <2>1, <3>1
  <2>2. CASE ~(Len(kept) < Len(all)) BY <1>0, <1>3, <2>2
  <2> QED BY <2>1, <2>2
<1> DEFINE p == Content!Pushed(b, rs)
<1>6. p = [b EXCEPT !.seq = b.seq + Len(rs), !.records = kept, !.dropped = b.dropped + d]
  BY <1>5, Zenon DEF Content!Pushed, all, new
<1> HIDE DEF kept, d
<1>32. d \in Nat /\ b.seq \in Nat /\ Len(rs) \in Nat /\ b.dropped \in Nat
  <2>1. d \in Nat BY <1>30
  <2>2. b.seq \in Nat /\ Len(rs) \in Nat /\ b.dropped \in Nat BY <1>0
  <2> QED BY <2>1, <2>2
<1>33. Len(kept) \in Nat /\ Len(kept) <= MaxRecords /\ d + Len(kept) = Len(b.records) + Len(rs)
  BY <1>30
<1>34. Len(b.records) \in Nat /\ b.dropped + Len(b.records) = b.seq /\ MaxRecords \in Nat BY <1>0
<1>7. /\ p \in Content!Buffers /\ p.gen = b.gen /\ p.boundary = b.boundary /\ p.states = b.states
      /\ p.positions = b.positions /\ p.seq = b.seq + Len(rs) /\ p.records = kept
      /\ p.dropped = b.dropped + d
  <2>1. b.seq + Len(rs) \in Nat /\ b.dropped + d \in Nat BY <1>32
  <2>2. kept \in Seq(Content!Records) BY <1>3
  <2>3. PICK q \in Nat, e \in Nat, r \in Seq(Content!Records) :
          q = b.seq + Len(rs) /\ e = b.dropped + d /\ r = kept
    BY <2>1, <2>2
  <2> HIDE DEF p
  <2>4. p = [b EXCEPT !.seq = q, !.records = r, !.dropped = e] BY <1>6, <2>3
  <2>5. /\ p \in Content!Buffers /\ p.gen = b.gen /\ p.boundary = b.boundary
        /\ p.states = b.states /\ p.positions = b.positions /\ p.seq = q
        /\ p.records = r /\ p.dropped = e
    BY <2>4 DEF Content!Buffers
  <2> QED BY <2>3, <2>5
<1> HIDE DEF p
<1>8. p.dropped + Len(p.records) = p.seq /\ Len(p.records) <= MaxRecords /\ p.dropped >= b.dropped
  <2>1. p.seq = b.seq + Len(rs) /\ p.records = kept /\ p.dropped = b.dropped + d BY <1>7
  <2>2. PICK i \in Nat, j \in Nat, m \in Nat, n \in Nat, q \in Nat, u \in Nat :
          /\ i = b.dropped /\ j = d /\ m = Len(kept) /\ n = Len(rs) /\ q = Len(b.records)
          /\ u = b.seq /\ j + m = q + n /\ i + q = u
    BY <1>32, <1>33, <1>34
  <2>20. j + m = q + n /\ i + q = u BY <2>2, Zenon
  <2>3. (i + j) + m = u + n /\ i + j >= i BY <2>20
  <2>4. (b.dropped + d) + Len(kept) = b.seq + Len(rs) /\ b.dropped + d >= b.dropped
    BY <2>2, <2>3, Zenon
  <2>5. Len(p.records) = Len(kept) /\ p.dropped = b.dropped + d BY <2>1
  <2>6. p.dropped + Len(p.records) = p.seq BY <2>1, <2>4, <2>5, Zenon
  <2>7. Len(p.records) <= MaxRecords BY <1>33, <2>5, Zenon
  <2>8. p.dropped >= b.dropped BY <2>4, <2>5, Zenon
  <2> QED BY <2>6, <2>7, <2>8
<1>9. ASSUME NEW k \in 1..Len(p.records), NEW n \in Nat, n = p.dropped + k
      PROVE /\ p.records[k].seq = n
            /\ n <= b.seq => p.records[k] = b.records[n - b.dropped]
            /\ n > b.seq => p.records[k] = Stamped(rs[n - b.seq], n)
  <2>1. d + k \in 1..Len(all) /\ p.records[k] = all[d + k] BY <1>3, <1>7
  <2>2. PICK m \in 1..Len(all) : m = d + k BY <2>1
  <2>3. n = b.dropped + m /\ n - b.dropped = m
    <3>1. p.dropped = b.dropped + d /\ k \in Nat BY <1>33, <1>7
    <3>2. n = b.dropped + d + k BY <1>9, <3>1
    <3> QED BY <1>32, <2>2, <3>1, <3>2
  <2>4. /\ all[m].seq = n /\ (n <= b.seq => all[m] = b.records[m])
        /\ n > b.seq => all[m] = Stamped(rs[n - b.seq], n)
    BY <1>4, <2>3
  <2>5. p.records[k] = all[m] BY <2>1, <2>2
  <2> HIDE DEF p, all
  <2> QED BY <2>3, <2>4, <2>5
<1>10. Content!Numbered(p)
  <2>1. \A k \in 1..Len(p.records) : p.records[k].seq = p.dropped + k
    <3>1. \A k \in 1..Len(p.records) : p.dropped + k \in Nat BY <1>32, <1>7
    <3> QED BY <1>9, <3>1
  <2> QED BY <1>8, <2>1 DEF Content!Numbered
<1> QED BY <1>7, <1>8, <1>9, <1>10 DEF p
\* A row that replaces the one of its item in the baseline.
LEMMA StatesIs ==
  ASSUME Content!ConstantsOK, NEW s \in Seq(Content!Rows), Content!OneRow(s), Len(s) <= MaxItems,
         NEW r \in Content!Rows
  PROVE  LET t == Content!Bounded(Append(Content!Without(s, r.item), r))
         IN /\ t \in Seq(Content!Rows) /\ Len(t) <= MaxItems /\ Content!OneRow(t)
            /\ Of(t) \subseteq {x \in Of(s) : x.item # r.item} \cup {r}
            /\ Cardinality(Requests) <= MaxItems =>
                 /\ r.item \in Requests => r \in Of(t)
                 /\ \A x \in Of(s) : x.item \in Requests /\ x.item # r.item => x \in Of(t)
<1> DEFINE a == Append(Content!Without(s, r.item), r)
<1>1. /\ a \in Seq(Content!Rows) /\ Len(a) <= Len(s) + 1 /\ Content!OneRow(a)
      /\ Of(a) = {x \in Of(s) : x.item # r.item} \cup {r}
  BY PutLast
<1> HIDE DEF a
<1>2. Len(a) <= MaxItems + 1 BY <1>1 DEF Content!ConstantsOK
<1>3. /\ Content!Bounded(a) \in Seq(Content!Rows) /\ Len(Content!Bounded(a)) <= MaxItems
      /\ Content!OneRow(Content!Bounded(a)) /\ Of(Content!Bounded(a)) \subseteq Of(a)
      /\ Cardinality(Requests) <= MaxItems =>
           \A x \in Of(a) : x.item \in Requests => x \in Of(Content!Bounded(a))
  BY <1>1, <1>2, BoundedIs
<1> QED BY <1>1, <1>3 DEF a

\* The position that is remembered: the last MaxPositions texts keep theirs.
LEMMA PositionsIs ==
  ASSUME Content!ConstantsOK, NEW b, b.positions \in Seq(Content!TextRows),
         Content!OneRow(b.positions), NEW r \in Content!TextRows
  PROVE  LET t == Content!rememberPosition(b, r)
         IN /\ t \in Seq(Content!TextRows) /\ Len(t) <= MaxPositions /\ Content!OneRow(t)
            /\ Cardinality(Texts) <= MaxPositions =>
                 Of(t) = {x \in Of(b.positions) : x.item # r.item} \cup {r}
<1> DEFINE a == Append(Content!Without(b.positions, r.item), r)
           t == Content!LastOf(a, MaxPositions)
<1>0. MaxPositions \in Nat /\ IsFiniteSet(Texts) BY Counted DEF Content!ConstantsOK
<1>1. /\ a \in Seq(Content!TextRows) /\ Content!OneRow(a)
      /\ Of(a) = {x \in Of(b.positions) : x.item # r.item} \cup {r}
  BY PutLast
<1> HIDE DEF a
<1>2. /\ t \in Seq(Content!TextRows) /\ Len(t) = IF Len(a) > MaxPositions THEN MaxPositions ELSE Len(a)
      /\ \A j \in 1..Len(t) : t[j] = a[Len(a) - Len(t) + j]
  BY <1>0, <1>1, LastOfIs
<1>3. Len(a) \in Nat /\ Len(t) \in Nat /\ Len(t) <= MaxPositions /\ Len(t) <= Len(a)
  <2>1. Len(a) \in Nat BY <1>1
  <2> HIDE DEF t
  <2> QED BY <2>1, <1>0, <1>2
<1>4. Content!OneRow(t)
  <2> HIDE DEF t
  <2> SUFFICES ASSUME NEW j \in 1..Len(t), NEW k \in 1..Len(t), t[j].item = t[k].item PROVE j = k
    BY DEF Content!OneRow
  <2>0. Len(a) - Len(t) + j \in 1..Len(a) /\ Len(a) - Len(t) + k \in 1..Len(a)
    <3>1. j \in Nat /\ k \in Nat /\ j >= 1 /\ k >= 1 /\ j <= Len(t) /\ k <= Len(t) BY <1>3
    <3> HIDE DEF Content!OneRow
    <3> QED BY <1>3, <3>1
  <2>1. PICK m \in 1..Len(a), n \in 1..Len(a) : m = Len(a) - Len(t) + j /\ n = Len(a) - Len(t) + k
    BY <2>0, Zenon
  <2>2. t[j] = a[m] /\ t[k] = a[n] BY <1>2, <2>1
  <2>3. m = n BY <1>1, <2>2 DEF Content!OneRow
  <2> QED BY <1>3, <2>1, <2>3
<1>5. ASSUME Cardinality(Texts) <= MaxPositions PROVE t = a
  <2>1. \A k \in 1..Len(a) : a[k].item \in Texts
    <3>1. \A k \in 1..Len(a) : a[k] \in Content!TextRows BY <1>1
    <3> QED BY <3>1 DEF Content!TextRows, Content!RowsOf
  <2>2. Len(a) <= Cardinality(Texts) BY <1>0, <1>1, <2>1, RowsFit
  <2>3. Cardinality(Texts) \in Nat BY <1>0, FS_CardinalityType
  <2>4. Len(a) <= MaxPositions BY <1>0, <1>3, <1>5, <2>2, <2>3
  <2> QED BY <1>0, <1>1, <2>4, LastOfWhole
<1>6. Content!rememberPosition(b, r) = t BY DEF Content!rememberPosition, t, a
<1> HIDE DEF t
<1> QED BY <1>1, <1>2, <1>3, <1>4, <1>5, <1>6

\* What a buffer knows of an item is a row of it.
LEMMA PriorIs ==
  ASSUME Content!ConstantsOK, NEW b, b.states \in Seq(Content!Rows),
         b.positions \in Seq(Content!TextRows), NEW i \in Texts
  PROVE  LET p == Content!Prior(b, i)
         IN p # None => /\ p \in Content!TextRows /\ p.item = i
                        /\ \E x \in Of(b.states) \cup Of(b.positions) :
                             /\ x.item = i /\ x.rev = p.rev /\ x.total = p.total /\ x.real = p.real
                             /\ x.complete = p.complete
<1> DEFINE p == Content!Prior(b, i)
<1>1. CASE Content!Has(b.states, i)
  <2>1. p = Content!Row(b.states, i) BY <1>1 DEF Content!Prior
  <2>2. p \in Content!Rows /\ p \in Of(b.states) /\ p.item = i BY <1>1, <2>1, RowIs
  <2>3. p \in Content!TextRows
    BY <2>2 DEF Content!Rows, Content!RowsOf, Content!ConstantsOK
  <2> QED BY <2>2, <2>3
<1>2. CASE ~Content!Has(b.states, i) /\ Content!Has(b.positions, i)
  <2> DEFINE x == Content!Row(b.positions, i)
  <2>1. p = [x EXCEPT !.from = x.total] BY <1>2 DEF Content!Prior
  <2>2. x \in Content!TextRows /\ x \in Of(b.positions) /\ x.item = i BY <1>2, RowIs
  <2> HIDE DEF x
  <2>3. p \in Content!TextRows /\ p.item = x.item /\ x.rev = p.rev /\ x.total = p.total
        /\ x.real = p.real /\ x.complete = p.complete
    BY <2>1, <2>2 DEF Content!TextRows, Content!RowsOf
  <2> QED BY <2>2, <2>3
<1>3. CASE ~Content!Has(b.states, i) /\ ~Content!Has(b.positions, i)
  <2>1. p = None BY <1>3 DEF Content!Prior
  <2> QED BY <2>1
<1> QED BY <1>1, <1>2, <1>3

\* Where what is said of a text begins, and under which revision.
OffsetOf(b, i, op) ==
  IF Content!Prior(b, i) = None \/ op = "replace" THEN 0 ELSE Content!Prior(b, i).total
RevisionOf(b, i, op) ==
  IF Content!Prior(b, i) = None THEN 1
  ELSE IF op = "replace" THEN Content!Prior(b, i).rev + 1 ELSE Content!Prior(b, i).rev
\* Records that say n units of a text, a unit each.
Says(rs, i, op, rev, offset, n, real, complete) ==
  /\ rs \in Seq(Content!TextRecords) /\ Len(rs) = IF n = 0 THEN 1 ELSE n
  /\ \A k \in 1..Len(rs) :
       /\ rs[k].item = i /\ rs[k].op = (IF k = 1 THEN op ELSE "append") /\ rs[k].rev = rev
       /\ rs[k].offset = offset + k - 1 /\ rs[k].real = real + k - 1
       /\ rs[k].units = (IF n = 0 THEN 0 ELSE 1)
       /\ rs[k].complete = (complete /\ k = Len(rs))
\* A row of a text that was said so far.
SaidRow(s, i, rev, total, real, complete) ==
  /\ s \in Content!TextRows /\ s.item = i /\ s.rev = rev /\ s.total = total /\ s.real = real
  /\ s.complete => complete
\* What text() does to a buffer.
Told(b, t, i, op, n, real, complete) ==
  \E rs, state, pos :
    /\ Says(rs, i, op, RevisionOf(b, i, op), OffsetOf(b, i, op), n, real, complete)
    /\ SaidRow(state, i, RevisionOf(b, i, op), OffsetOf(b, i, op) + n, real + n, complete)
    /\ SaidRow(pos, i, RevisionOf(b, i, op), OffsetOf(b, i, op) + n, real + n, complete)
    /\ pos.complete = complete
    /\ t = [Content!Pushed(b, rs) EXCEPT
             !.states = Content!Bounded(Append(Content!Without(b.states, i), state)),
             !.positions = Content!rememberPosition(b, pos)]

LEMMA TextIs ==
  ASSUME Content!ConstantsOK, NEW b, b.states \in Seq(Content!Rows),
         b.positions \in Seq(Content!TextRows), NEW i \in Texts, NEW op \in {"append", "replace"},
         NEW n \in Nat, NEW real \in Nat, NEW complete \in BOOLEAN
  PROVE  Told(b, Content!Text(b, i, op, n, real, complete), i, op, n, real, complete)
<1> DEFINE prior == Content!Prior(b, i)
           revision == IF prior = None THEN 1 ELSE IF op = "replace" THEN prior.rev + 1 ELSE prior.rev
           offset == IF prior = None \/ op = "replace" THEN 0 ELSE prior.total
           known == op = "replace" \/ offset = 0 \/ prior.known
           total == offset + n
           record(k) == [seq |-> 0, item |-> i, op |-> IF k = 1 THEN op ELSE "append", rev |-> revision,
             offset |-> offset + k - 1, units |-> IF n = 0 THEN 0 ELSE 1, real |-> real + k - 1,
             known |-> known, complete |-> complete /\ k = (IF n = 0 THEN 1 ELSE n)]
           start == IF op = "append" /\ prior # None THEN prior.from ELSE offset
           from == IF total - start > ItemUnits THEN total - ItemUnits ELSE start
           state == [item |-> i, rev |-> revision, from |-> from, total |-> total,
                     real |-> real + n, known |-> known /\ from = 0,
                     complete |-> complete /\ known /\ from = 0, status |-> "text"]
           m == IF n = 0 THEN 1 ELSE n
           rs == [k \in 1..m |-> record(k)]
           pos == [state EXCEPT !.complete = complete, !.known = known]
<1>1. Content!Text(b, i, op, n, real, complete) =
        [Content!Pushed(b, rs) EXCEPT
             !.states = Content!Bounded(Append(Content!Without(b.states, i), state)),
             !.positions = Content!rememberPosition(b, pos)]
  BY Zenon DEF Content!Text
<1>2. prior # None => prior \in Content!TextRows BY PriorIs
<1>3. revision = RevisionOf(b, i, op) /\ offset = OffsetOf(b, i, op)
  BY Zenon DEF RevisionOf, OffsetOf
<1>4. /\ prior # None => prior.rev \in Nat /\ prior.total \in Nat /\ prior.from \in Nat
                         /\ prior.known \in BOOLEAN
      /\ ItemUnits \in Nat
  BY <1>2 DEF Content!TextRows, Content!RowsOf, Content!ConstantsOK
<1> HIDE DEF prior
<1>5. revision \in Nat /\ offset \in Nat /\ start \in Nat BY <1>4
<1>6. known \in BOOLEAN BY <1>4
<1> HIDE DEF revision, offset, start, known
<1>7. total \in Nat /\ from \in Nat BY <1>4, <1>5
<1> HIDE DEF total, from
<1>8. state \in Content!TextRows BY <1>5, <1>6, <1>7 DEF Content!TextRows, Content!RowsOf
<1>9. pos \in Content!TextRows /\ pos.complete = complete
  BY <1>6, <1>8 DEF Content!TextRows, Content!RowsOf
<1>10. SaidRow(state, i, revision, total, real + n, complete) BY <1>8 DEF SaidRow
<1>11. SaidRow(pos, i, revision, total, real + n, complete) BY <1>9 DEF SaidRow
<1>12. Says(rs, i, op, revision, offset, n, real, complete)
  <2>1. m \in Nat BY DEF m
  <2>2. ASSUME NEW k \in 1..m
        PROVE  /\ record(k) \in Content!TextRecords
               /\ rs[k] = record(k)
    <3>1. offset + k - 1 \in Nat /\ real + k - 1 \in Nat BY <2>1, <1>5
    <3> QED BY <3>1, <1>5, <1>6 DEF Content!TextRecords, Content!RecordsOf
  <2>3. rs \in [1..m -> Content!TextRecords] BY <2>2
  <2>4. \A f \in [1..m -> Content!TextRecords] : f \in Seq(Content!TextRecords) /\ Len(f) = m
    BY <2>1
  <2>5. rs \in Seq(Content!TextRecords) /\ Len(rs) = m BY <2>3, <2>4
  <2> HIDE DEF rs
  <2>6. ASSUME NEW k \in 1..m
        PROVE  /\ rs[k].item = i /\ rs[k].op = (IF k = 1 THEN op ELSE "append")
               /\ rs[k].rev = revision /\ rs[k].offset = offset + k - 1
               /\ rs[k].real = real + k - 1 /\ rs[k].units = (IF n = 0 THEN 0 ELSE 1)
               /\ rs[k].complete = (complete /\ k = m)
    <3>1. rs[k] = record(k) BY <2>2
    <3> QED BY <3>1
  <2> HIDE DEF record
  <2> QED BY <2>5, <2>6 DEF Says, m
<1>13. total = OffsetOf(b, i, op) + n BY <1>3 DEF total
<1> HIDE DEF rs, state, pos
<1> QED BY <1>1, <1>3, <1>9, <1>10, <1>11, <1>12, <1>13, Zenon DEF Told
\* Records that were pushed, and a row that was put among others.
Pushes(b, t, rs) ==
  /\ t.gen = b.gen /\ t.boundary = b.boundary /\ t.seq = b.seq + Len(rs) /\ t.dropped >= b.dropped
  /\ \A k \in 1..Len(t.records), n \in Nat : n = t.dropped + k =>
       /\ n <= b.seq => t.records[k] = b.records[n - b.dropped]
       /\ n > b.seq => t.records[k] = Stamped(rs[n - b.seq], n)
Puts(s, t, r) ==
  /\ Of(t) \subseteq {x \in Of(s) : x.item # r.item} \cup {r}
  /\ Cardinality(Requests) <= MaxItems =>
       /\ r.item \in Requests => r \in Of(t)
       /\ \A x \in Of(s) : x.item \in Requests /\ x.item # r.item => x \in Of(t)

Put(b, rs, row, ps) ==
  [Content!Pushed(b, rs) EXCEPT
     !.states = Content!Bounded(Append(Content!Without(b.states, row.item), row)),
     !.positions = ps]

LEMMA BufferMoves ==
  ASSUME Content!ConstantsOK, NEW b, Content!BufferOK(b), NEW rs \in Seq(Content!Records),
         NEW row \in Content!Rows, NEW ps \in Seq(Content!TextRows), Content!OneRow(ps),
         Len(ps) <= MaxPositions,
         NEW t, t = Put(b, rs, row, ps)
  PROVE  /\ Content!BufferOK(t) /\ Pushes(b, t, rs) /\ Puts(b.states, t.states, row)
         /\ t.positions = ps
<1> DEFINE p == Content!Pushed(b, rs)
           ss == Content!Bounded(Append(Content!Without(b.states, row.item), row))
<1>1. /\ b \in Content!Buffers /\ Content!Numbered(b) /\ b.states \in Seq(Content!Rows)
      /\ Content!OneRow(b.states) /\ Len(b.states) <= MaxItems /\ b.boundary <= b.dropped
      /\ b.boundary \in Nat /\ b.dropped \in Nat
  BY DEF Content!BufferOK, Content!Buffers
<1>2. /\ p \in Content!Buffers /\ p.gen = b.gen /\ p.boundary = b.boundary
      /\ p.states = b.states /\ p.positions = b.positions
      /\ p.seq = b.seq + Len(rs) /\ Content!Numbered(p)
      /\ Len(p.records) <= MaxRecords /\ p.dropped >= b.dropped
      /\ \A k \in 1..Len(p.records), n \in Nat : n = p.dropped + k =>
           /\ n <= b.seq => p.records[k] = b.records[n - b.dropped]
           /\ n > b.seq => p.records[k] = Stamped(rs[n - b.seq], n)
  BY <1>1, PushedIs
<1>3. /\ ss \in Seq(Content!Rows) /\ Len(ss) <= MaxItems /\ Content!OneRow(ss)
      /\ Puts(b.states, ss, row)
  BY <1>1, StatesIs DEF Puts
<1> HIDE DEF p, ss
<1>4. t = [p EXCEPT !.states = ss, !.positions = ps] BY DEF p, ss, Put
<1>5. /\ t \in Content!Buffers /\ t.gen = p.gen /\ t.boundary = p.boundary /\ t.seq = p.seq
      /\ t.records = p.records /\ t.dropped = p.dropped /\ t.states = ss /\ t.positions = ps
  <2>1. p \in Content!Buffers BY <1>2
  <2>2. ss \in Seq(Content!Rows) BY <1>3
  <2> QED BY <1>4, <2>1, <2>2 DEF Content!Buffers
<1>6. Content!Numbered(t) BY <1>2, <1>5, Zenon DEF Content!Numbered
<1>7. Pushes(b, t, rs)
  <2>1. ASSUME NEW k \in 1..Len(t.records), NEW n \in Nat, n = t.dropped + k
        PROVE  /\ n <= b.seq => t.records[k] = b.records[n - b.dropped]
               /\ n > b.seq => t.records[k] = Stamped(rs[n - b.seq], n)
    <3>1. k \in 1..Len(p.records) /\ n = p.dropped + k BY <1>5, <2>1, Zenon
    <3>2. t.records[k] = p.records[k] BY <1>5, Zenon
    <3> QED BY <1>2, <3>1, <3>2
  <2>2. t.gen = b.gen /\ t.boundary = b.boundary /\ t.seq = b.seq + Len(rs) /\ t.dropped >= b.dropped
    BY <1>2, <1>5, Zenon
  <2> QED BY <2>1, <2>2, Zenon DEF Pushes
<1>8. t.boundary <= t.dropped
  <2>1. p.dropped \in Nat BY <1>2 DEF Content!Buffers
  <2>2. p.dropped >= b.dropped /\ p.boundary = b.boundary BY <1>2
  <2>3. b.boundary <= p.dropped BY <1>1, <2>1, <2>2
  <2> QED BY <1>5, <2>2, <2>3
<1> QED BY <1>2, <1>3, <1>5, <1>6, <1>7, <1>8, Zenon DEF Content!BufferOK

\* What is said of a text, in records, in the baseline and in the positions.
TextPut(b, t, i, op, n, real, complete) ==
  \E rs, state, pos :
    /\ Says(rs, i, op, RevisionOf(b, i, op), OffsetOf(b, i, op), n, real, complete)
    /\ SaidRow(state, i, RevisionOf(b, i, op), OffsetOf(b, i, op) + n, real + n, complete)
    /\ SaidRow(pos, i, RevisionOf(b, i, op), OffsetOf(b, i, op) + n, real + n, complete)
    /\ pos.complete = complete
    /\ Pushes(b, t, rs) /\ Puts(b.states, t.states, state)
    /\ Cardinality(Texts) <= MaxPositions =>
         Of(t.positions) = {x \in Of(b.positions) : x.item # i} \cup {pos}
\* A step of a request, in a record and in the baseline.
RequestPut(b, t, i, status) ==
  \E rs \in Seq(Content!Records), row \in Content!Rows :
    /\ Len(rs) = 1 /\ rs[1].item = i /\ rs[1].op = status
    /\ row.item = i /\ row.status = status
    /\ Pushes(b, t, rs) /\ Puts(b.states, t.states, row) /\ t.positions = b.positions

LEMMA TextMoves ==
  ASSUME Content!ConstantsOK, NEW b, Content!BufferOK(b), NEW i \in Texts,
         NEW op \in {"append", "replace"}, NEW n \in Nat, NEW real \in Nat, NEW complete \in BOOLEAN,
         NEW t, t = Content!Text(b, i, op, n, real, complete)
  PROVE  Content!BufferOK(t) /\ TextPut(b, t, i, op, n, real, complete)
<1>1. /\ b.states \in Seq(Content!Rows) /\ b.positions \in Seq(Content!TextRows)
      /\ Content!OneRow(b.positions)
  BY DEF Content!BufferOK, Content!Buffers
<1>2. Told(b, t, i, op, n, real, complete) BY <1>1, TextIs
<1>3. PICK rs, state, pos :
    /\ Says(rs, i, op, RevisionOf(b, i, op), OffsetOf(b, i, op), n, real, complete)
    /\ SaidRow(state, i, RevisionOf(b, i, op), OffsetOf(b, i, op) + n, real + n, complete)
    /\ SaidRow(pos, i, RevisionOf(b, i, op), OffsetOf(b, i, op) + n, real + n, complete)
    /\ pos.complete = complete
    /\ t = [Content!Pushed(b, rs) EXCEPT
             !.states = Content!Bounded(Append(Content!Without(b.states, i), state)),
             !.positions = Content!rememberPosition(b, pos)]
  BY <1>2, Zenon DEF Told
<1>4. rs \in Seq(Content!Records)
  <2>1. rs \in Seq(Content!TextRecords) BY <1>3 DEF Says
  <2>2. Content!TextRecords \subseteq Content!Records BY DEF Content!Records
  <2> HIDE DEF Content!TextRecords, Content!Records
  <2> QED BY <2>1, <2>2
<1>5. state \in Content!Rows /\ state.item = i /\ pos \in Content!TextRows /\ pos.item = i
  BY <1>3 DEF SaidRow, Content!Rows
<1>6. PICK ps : ps = Content!rememberPosition(b, pos) OBVIOUS
<1>7. /\ ps \in Seq(Content!TextRows) /\ Len(ps) <= MaxPositions /\ Content!OneRow(ps)
      /\ Cardinality(Texts) <= MaxPositions =>
           Of(ps) = {x \in Of(b.positions) : x.item # i} \cup {pos}
  BY <1>1, <1>5, <1>6, PositionsIs
<1>8. t = Put(b, rs, state, ps) BY <1>3, <1>5, <1>6 DEF Put
<1>9. /\ Content!BufferOK(t) /\ Pushes(b, t, rs) /\ Puts(b.states, t.states, state)
      /\ t.positions = ps
  BY <1>4, <1>5, <1>7, <1>8, BufferMoves
<1> QED BY <1>3, <1>7, <1>9, Zenon DEF TextPut

LEMMA RequestMoves ==
  ASSUME Content!ConstantsOK, NEW b, Content!BufferOK(b), NEW i \in Requests,
         NEW status \in {"requested", "resolved"},
         NEW t, t = Content!lifecycle(b, i, status)
  PROVE  Content!BufferOK(t) /\ RequestPut(b, t, i, status)
<1> DEFINE prev == IF Content!Has(b.states, i) THEN Content!Row(b.states, i).rev ELSE 0
           row == [item |-> i, rev |-> prev + 1, from |-> 0, total |-> 0, real |-> 0, known |-> TRUE,
                   complete |-> status = "resolved", status |-> status]
           record == [seq |-> 0, item |-> i, op |-> status, rev |-> prev + 1, offset |-> 0, units |-> 0,
                      real |-> 0, known |-> TRUE, complete |-> status = "resolved"]
           rs == <<record>>
<1>1. /\ b.states \in Seq(Content!Rows) /\ b.positions \in Seq(Content!TextRows)
      /\ Content!OneRow(b.positions) /\ Len(b.positions) <= MaxPositions
      /\ b \in Content!Buffers /\ Content!Numbered(b)
  BY DEF Content!BufferOK, Content!Buffers
<1>2. prev \in Nat
  <2>1. CASE Content!Has(b.states, i)
    <3>1. Content!Row(b.states, i) \in Content!Rows BY <1>1, <2>1, RowIs
    <3> QED BY <2>1, <3>1 DEF Content!Rows, Content!TextRows, Content!RowsOf
  <2>2. CASE ~Content!Has(b.states, i) BY <2>2
  <2> QED BY <2>1, <2>2
<1>3. row \in Content!Rows /\ row.item = i /\ row.status = status
  <2> HIDE DEF prev
  <2> QED BY <1>2 DEF Content!Rows, Content!RowsOf
<1>4. record \in Content!Records /\ record.item = i /\ record.op = status
  <2> HIDE DEF prev
  <2> QED BY <1>2 DEF Content!Records, Content!RecordsOf
<1>5. t = [Content!Pushed(b, rs) EXCEPT
             !.states = Content!Bounded(Append(Content!Without(b.states, i), row))]
  BY Zenon DEF Content!lifecycle
<1> HIDE DEF row, record
<1>6. rs \in Seq(Content!Records) /\ Len(rs) = 1 /\ rs[1] = record BY <1>4
<1> HIDE DEF rs
<1>7. PICK p : p = Content!Pushed(b, rs) OBVIOUS
<1>8. p \in Content!Buffers /\ p.positions = b.positions BY <1>1, <1>6, <1>7, PushedIs
<1>9. [p EXCEPT !.states = Content!Bounded(Append(Content!Without(b.states, i), row))] =
        [p EXCEPT !.states = Content!Bounded(Append(Content!Without(b.states, i), row)),
                  !.positions = b.positions]
  BY <1>8 DEF Content!Buffers
<1>10. t = Put(b, rs, row, b.positions) BY <1>3, <1>5, <1>7, <1>9 DEF Put
<1>11. /\ Content!BufferOK(t) /\ Pushes(b, t, rs) /\ Puts(b.states, t.states, row)
       /\ t.positions = b.positions
  BY <1>1, <1>3, <1>6, <1>10, BufferMoves
<1> QED BY <1>3, <1>4, <1>6, <1>11 DEF RequestPut

\* What a reader keeps, and what one record makes of it.
Readers == [cur : {None} \cup Content!Cursors, seen : SUBSET Content!Held, broken : BOOLEAN]

LEMMA ApplyIs ==
  ASSUME NEW r \in Readers, NEW rec \in Content!Records
  PROVE  Content!Apply(r, rec) \in Readers
<1> DEFINE held == {x \in r.seen : x.item = rec.item}
           new == [item |-> rec.item, rev |-> rec.rev, from |-> rec.offset,
              total |-> rec.offset + rec.units, real |-> rec.real + rec.units,
              complete |-> rec.complete /\ rec.known,
              status |-> IF rec.item \in Texts THEN "text" ELSE rec.op]
           x == CHOOSE x \in held : TRUE
           y == [x EXCEPT !.total = @ + rec.units, !.real = rec.real + rec.units, !.complete = rec.complete]
<1>1. /\ rec.item \in Texts \cup Requests /\ rec.rev \in Nat /\ rec.offset \in Nat /\ rec.units \in Nat
      /\ rec.real \in Nat /\ rec.complete \in BOOLEAN /\ rec.known \in BOOLEAN
      /\ rec.item \in Texts \/ rec.op \in {"requested", "resolved"}
  BY DEF Content!Records, Content!TextRecords, Content!RecordsOf
<1>2. CASE held = {} \/ rec.op # "append"
  <2>1. new \in Content!Held BY <1>1 DEF Content!Held, Content!Items
  <2>2. Content!Apply(r, rec) = [r EXCEPT !.seen = (r.seen \ held) \cup {new}]
    BY <1>2, Zenon DEF Content!Apply
  <2> HIDE DEF new, held
  <2> QED BY <2>1, <2>2 DEF Readers
<1>3. CASE ~(held = {} \/ rec.op # "append")
  <2>1. x \in Content!Held BY <1>3 DEF Readers
  <2>2. Content!Apply(r, rec) = [r EXCEPT !.seen = (r.seen \ held) \cup {y},
               !.broken = r.broken \/ x.rev # rec.rev \/ x.total # rec.offset]
    BY <1>3, Zenon DEF Content!Apply
  <2> HIDE DEF x
  <2>3. y \in Content!Held
    <3>1. x.total \in Nat BY <2>1 DEF Content!Held
    <3>2. PICK q \in Nat, p \in Nat : q = x.total + rec.units /\ p = rec.real + rec.units
      BY <1>1, <3>1
    <3>3. y = [x EXCEPT !.total = q, !.real = p, !.complete = rec.complete] BY <3>2
    <3> HIDE DEF y
    <3> QED BY <1>1, <2>1, <3>3 DEF Content!Held
  <2> HIDE DEF y, held
  <2> QED BY <2>2, <2>3 DEF Readers
<1> QED BY <1>2, <1>3

LEMMA AppliedRecords ==
  ASSUME NEW r \in Readers, NEW rs \in Seq(Content!Records), NEW after \in Nat
  PROVE  \E f \in [0..Len(rs) -> Readers] :
           /\ Content!Applied(r, rs, after) = f[Len(rs)] /\ f[0] = r
           /\ \A k \in 1..Len(rs) :
                f[k] = IF rs[k].seq > after THEN Content!Apply(f[k - 1], rs[k]) ELSE f[k - 1]
<1> DEFINE n == Len(rs)
           step == [k \in 1..n |-> [x \in Readers |->
                      IF rs[k].seq > after THEN Content!Apply(x, rs[k]) ELSE x]]
           Is(g) == g = [k \in 0..n |->
                           IF k = 0 THEN r
                           ELSE IF rs[k].seq > after THEN Content!Apply(g[k - 1], rs[k]) ELSE g[k - 1]]
           f == CHOOSE g : Is(g)
           S == {k \in Nat : k <= n => f[k] \in Readers}
<1>1. n \in Nat OBVIOUS
<1>2. \A k \in 1..n, x \in Readers : Content!Apply(x, rs[k]) \in Readers BY ApplyIs
<1>3. step \in StepsIn(n, Readers) BY <1>2 DEF StepsIn
<1>4. PICK g : g \in PathsOf(n, Readers, r, step)
  <2> HIDE DEF n, step
  <2> QED BY <1>1, <1>3, PathExists
<1>5. Is(g)
  <2>1. g \in [0..n -> Readers] /\ g[0] = r /\ \A k \in 1..n : g[k] = step[k][g[k - 1]]
    BY <1>4 DEF PathsOf
  <2>2. ASSUME NEW k \in 1..n
        PROVE  g[k] = IF rs[k].seq > after THEN Content!Apply(g[k - 1], rs[k]) ELSE g[k - 1]
    <3>1. k - 1 \in 0..n BY <1>1
    <3>2. g[k - 1] \in Readers BY <2>1, <3>1
    <3> QED BY <2>1, <3>2
  <2> HIDE DEF step
  <2>3. \A k \in 0..n : g[k] = IF k = 0 THEN r
           ELSE IF rs[k].seq > after THEN Content!Apply(g[k - 1], rs[k]) ELSE g[k - 1]
    BY <1>1, <2>1, <2>2
  <2> QED BY <2>1, <2>3
<1>6. Is(f)
  <2> HIDE DEF Is
  <2> QED BY <1>5
<1>7. /\ f[0] = r
      /\ \A k \in 1..n :
           f[k] = IF rs[k].seq > after THEN Content!Apply(f[k - 1], rs[k]) ELSE f[k - 1]
  <2> HIDE DEF f
  <2> QED BY <1>1, <1>6
<1>8. Content!Applied(r, rs, after) = f[n] BY DEF Content!Applied
<1>80. DOMAIN f = 0..n /\ f = [k \in 0..n |-> f[k]]
  <2> HIDE DEF f
  <2> QED BY <1>6
<1> HIDE DEF f, n
<1>9. 0 \in S BY <1>7
<1>10. ASSUME NEW k \in Nat, k \in S PROVE k + 1 \in S
  <2>1. k + 1 <= n => k + 1 \in 1..n /\ (k + 1) - 1 = k /\ f[k] \in Readers BY <1>1, <1>10
  <2> QED BY <1>2, <1>7, <2>1
<1>11. \A k \in 0..n : f[k] \in Readers
  <2>1. Nat \subseteq S
    <3> HIDE DEF S
    <3> QED BY <1>9, <1>10, SetInduction
  <2> QED BY <1>1, <2>1
<1>12. f \in [0..n -> Readers] BY <1>80, <1>11
<1> QED BY <1>7, <1>8, <1>12 DEF n

\* A buffer that begins again, and what is written of one.
LEMMA EmptyIs ==
  ASSUME Content!ConstantsOK, NEW g \in 1..MaxGenerations
  PROVE  Content!BufferOK(Content!Empty(g)) /\ Content!Empty(g).gen = g
<1> DEFINE b == Content!Empty(g)
<1>1. b = [gen |-> g, seq |-> 0, dropped |-> 0, boundary |-> 0,
           records |-> <<>>, states |-> <<>>, positions |-> <<>>]
  BY DEF Content!Empty
<1>2. b \in Content!Buffers BY <1>1 DEF Content!Buffers
<1>3. b.records = <<>> /\ b.states = <<>> /\ b.positions = <<>> /\ b.seq = 0 /\ b.dropped = 0
      /\ b.boundary = 0 /\ b.gen = g
  BY <1>1
<1> HIDE DEF b
<1>4. Content!Numbered(b) /\ Content!OneRow(b.states) /\ Content!OneRow(b.positions)
  BY <1>3 DEF Content!Numbered, Content!OneRow
<1>5. 0 <= MaxRecords /\ 0 <= MaxItems /\ 0 <= MaxPositions BY DEF Content!ConstantsOK
<1>6. Len(b.records) = 0 /\ Len(b.states) = 0 /\ Len(b.positions) = 0 BY <1>3
<1>7. Content!BufferOK(b) BY <1>2, <1>3, <1>4, <1>5, <1>6 DEF Content!BufferOK
<1> QED BY <1>3, <1>7 DEF b

LEMMA ResetIs ==
  ASSUME Content!ConstantsOK, NEW b, Content!BufferOK(b)
  PROVE  LET t == Content!Reset(b)
         IN /\ Content!BufferOK(t) /\ t.gen = b.gen /\ t.seq = b.seq + 1 /\ t.boundary = b.seq + 1
            /\ t.dropped = b.seq + 1 /\ t.records = <<>> /\ t.states = <<>> /\ t.positions = <<>>
<1> DEFINE t == Content!Reset(b)
<1>1. b.gen \in 1..MaxGenerations /\ b.seq + 1 \in Nat BY DEF Content!BufferOK, Content!Buffers
<1>2. PICK q \in Nat, g \in 1..MaxGenerations : q = b.seq + 1 /\ g = b.gen BY <1>1
<1>20. t = [[gen |-> g, seq |-> 0, dropped |-> 0, boundary |-> 0,
             records |-> <<>>, states |-> <<>>, positions |-> <<>>]
              EXCEPT !.seq = q, !.boundary = q, !.dropped = q]
  BY <1>2, Zenon DEF Content!Empty, Content!Reset
<1>3. t = [gen |-> g, seq |-> q, dropped |-> q, boundary |-> q,
           records |-> <<>>, states |-> <<>>, positions |-> <<>>]
  BY <1>20
<1>4. t \in Content!Buffers BY <1>3 DEF Content!Buffers
<1>5. t.records = <<>> /\ t.states = <<>> /\ t.positions = <<>> /\ t.seq = q /\ t.dropped = q
      /\ t.boundary = q /\ t.gen = g
  BY <1>3
<1> HIDE DEF t
<1>6. Content!Numbered(t) /\ Content!OneRow(t.states) /\ Content!OneRow(t.positions)
  BY <1>5 DEF Content!Numbered, Content!OneRow
<1>7. 0 <= MaxRecords /\ 0 <= MaxItems /\ 0 <= MaxPositions BY DEF Content!ConstantsOK
<1>8. Len(t.records) = 0 /\ Len(t.states) = 0 /\ Len(t.positions) = 0 /\ t.boundary <= t.dropped
  BY <1>5
<1>9. Content!BufferOK(t) BY <1>4, <1>6, <1>7, <1>8 DEF Content!BufferOK
<1> QED BY <1>2, <1>5, <1>9 DEF t

LEMMA SnapshotIs ==
  ASSUME NEW b \in Content!Buffers
  PROVE  LET f == Content!Snapshot(b)
         IN /\ f \in Content!Snapshots /\ f.gen = b.gen /\ f.seq = b.seq /\ f.dropped = b.dropped
            /\ f.boundary = b.boundary /\ f.records = b.records /\ f.baseline = b.states
BY DEF Content!Snapshot, Content!Snapshots, Content!Buffers

\* What the provider says of an item goes into the buffer, or is refused.
Spoken(b, t) == Content!BufferOK(t) /\ t.gen = b.gen
Delivered(b, t, i, op, n, real) ==
  \/ Content!Refused(b, i, op, n, FALSE) /\ t = b
  \/ TextPut(b, t, i, op, n, real, FALSE)
LEMMA SpeaksIs ==
  ASSUME Content!ConstantsOK, Content!TypeOK
  PROVE  /\ \A i \in Texts, n \in 1..2 : Content!Delta(i, n) =>
              Spoken(buf, buf') /\ Delivered(buf, buf', i, "append", n, native[i].units)
         /\ \A i \in Texts : Content!Complete(i) =>
              Spoken(buf, buf') /\ TextPut(buf, buf', i, "replace", native[i].units, 0, TRUE)
         /\ \A i \in Texts : Content!LateStart(i) =>
              Spoken(buf, buf') /\ Delivered(buf, buf', i, "replace", 0, 0)
         /\ \A i \in Requests : Content!Ask(i) =>
              Spoken(buf, buf') /\ RequestPut(buf, buf', i, "requested")
         /\ \A i \in Requests : Content!Resolve(i) =>
              Spoken(buf, buf') /\ RequestPut(buf, buf', i, "resolved")
<1>1. Content!BufferOK(buf) BY DEF Content!TypeOK
<1>2. PICK b : b = buf OBVIOUS
<1>3. Content!BufferOK(b) BY <1>1, <1>2
<1>4. Spoken(b, b) BY <1>3 DEF Spoken
<1>5. ASSUME NEW i \in Texts, NEW op \in {"append", "replace"}, NEW n \in Nat, NEW real \in Nat,
             NEW complete \in BOOLEAN, NEW t, t = Content!Text(b, i, op, n, real, complete)
      PROVE  Spoken(b, t) /\ TextPut(b, t, i, op, n, real, complete)
  <2>1. Content!BufferOK(t) /\ TextPut(b, t, i, op, n, real, complete) BY <1>3, <1>5, TextMoves
  <2>2. t.gen = b.gen BY <2>1 DEF TextPut, Pushes
  <2> QED BY <2>1, <2>2 DEF Spoken
<1>6. ASSUME NEW i \in Requests, NEW status \in {"requested", "resolved"},
             NEW t, t = Content!lifecycle(b, i, status)
      PROVE  Spoken(b, t) /\ RequestPut(b, t, i, status)
  <2>1. Content!BufferOK(t) /\ RequestPut(b, t, i, status) BY <1>3, <1>6, RequestMoves
  <2>2. t.gen = b.gen BY <2>1 DEF RequestPut, Pushes
  <2> QED BY <2>1, <2>2 DEF Spoken
<1>7. \A i \in Texts : native[i].units \in Nat
  BY DEF Content!TypeOK, Content!Items, Content!ConstantsOK
<1>8. ASSUME NEW i \in Texts, NEW n \in 1..2, Content!Delta(i, n)
      PROVE  Spoken(b, buf') /\ Delivered(b, buf', i, "append", n, native[i].units)
  <2>0. PICK t : t = buf' OBVIOUS
  <2>1. PICK u \in Nat, op \in {"append", "replace"} :
          t = buf' /\ u = native[i].units /\ op = "append"
    BY <1>7, <2>0
  <2>2. \/ t = b /\ Content!Refused(b, i, op, n, FALSE)
        \/ t = Content!Text(b, i, op, n, u, FALSE)
    BY <1>2, <1>8, <2>1 DEF Content!Delta, Content!Published
  <2>3. n \in Nat OBVIOUS
  <2>4. Spoken(b, t) /\ Delivered(b, t, i, op, n, u) BY <1>4, <1>5, <2>2, <2>3 DEF Delivered
  <2> QED BY <2>1, <2>4
<1>9. ASSUME NEW i \in Texts, Content!Complete(i)
      PROVE  Spoken(b, buf') /\ TextPut(b, buf', i, "replace", native[i].units, 0, TRUE)
  <2>0. PICK t : t = buf' OBVIOUS
  <2>1. PICK u \in Nat, op \in {"append", "replace"} :
          t = buf' /\ u = native[i].units /\ op = "replace"
    BY <1>7, <2>0
  <2>2. t = Content!Text(b, i, op, u, 0, TRUE)
    BY <1>2, <1>9, <2>1 DEF Content!Complete, Content!Published
  <2>3. Spoken(b, t) /\ TextPut(b, t, i, op, u, 0, TRUE) BY <1>5, <2>2
  <2> QED BY <2>1, <2>3
<1>10. ASSUME NEW i \in Texts, Content!LateStart(i)
       PROVE  Spoken(b, buf') /\ Delivered(b, buf', i, "replace", 0, 0)
  <2>0. PICK t : t = buf' OBVIOUS
  <2>1. PICK op \in {"append", "replace"} : t = buf' /\ op = "replace" BY <2>0
  <2>2. \/ t = b /\ Content!Refused(b, i, op, 0, FALSE)
        \/ t = Content!Text(b, i, op, 0, 0, FALSE)
    BY <1>2, <1>10, <2>1 DEF Content!LateStart, Content!Published
  <2>3. Spoken(b, t) /\ Delivered(b, t, i, op, 0, 0) BY <1>4, <1>5, <2>2 DEF Delivered
  <2> QED BY <2>1, <2>3
<1>11. ASSUME NEW i \in Requests, Content!Ask(i)
       PROVE  Spoken(b, buf') /\ RequestPut(b, buf', i, "requested")
  <2>1. buf' = Content!lifecycle(b, i, "requested")
    BY <1>2, <1>11 DEF Content!Ask, Content!Published
  <2> QED BY <1>6, <2>1
<1>12. ASSUME NEW i \in Requests, Content!Resolve(i)
       PROVE  Spoken(b, buf') /\ RequestPut(b, buf', i, "resolved")
  <2>1. buf' = Content!lifecycle(b, i, "resolved")
    BY <1>2, <1>12 DEF Content!Resolve, Content!Published
  <2> QED BY <1>6, <2>1
<1> QED BY <1>2, <1>8, <1>9, <1>10, <1>11, <1>12

LEMMA ReadIs ==
  ASSUME Content!ConstantsOK, Content!TypeOK, Content!Read
  PROVE  reader' \in Readers
<1> DEFINE moved == [reader EXCEPT !.cur = [gen |-> file.gen, seq |-> file.seq]]
<1>1. file \in Content!Snapshots /\ reader \in Readers BY DEF Content!TypeOK, Readers
<1>2. moved \in Readers
  <2>1. [gen |-> file.gen, seq |-> file.seq] \in Content!Cursors
    BY <1>1 DEF Content!Snapshots, Content!Cursors
  <2> QED BY <1>1, <2>1 DEF Readers
<1>3. reader' = IF Content!contentReset(file, reader.cur) = "none"
                THEN Content!Applied(moved, file.records, reader.cur.seq)
                ELSE [moved EXCEPT !.seen = Content!Baseline(file)]
  BY DEF Content!Read
<1> HIDE DEF moved
<1>4. CASE Content!contentReset(file, reader.cur) = "none"
  <2>1. reader.cur # None BY <1>4 DEF Content!contentReset
  <2>2. reader.cur.seq \in Nat BY <1>1, <2>1 DEF Readers, Content!Cursors
  <2>3. file.records \in Seq(Content!Records) BY <1>1 DEF Content!Snapshots
  <2>4. PICK after \in Nat, rs \in Seq(Content!Records) : after = reader.cur.seq /\ rs = file.records
    BY <2>2, <2>3
  <2>5. PICK f \in [0..Len(rs) -> Readers] : Content!Applied(moved, rs, after) = f[Len(rs)]
    BY <1>2, AppliedRecords
  <2>6. Len(rs) \in 0..Len(rs) OBVIOUS
  <2> QED BY <1>3, <1>4, <2>4, <2>5, <2>6
<1>5. CASE Content!contentReset(file, reader.cur) # "none"
  <2>1. file.baseline \in Seq(Content!Rows) BY <1>1 DEF Content!Snapshots
  <2>2. PICK rows \in Seq(Content!Rows) : rows = file.baseline BY <2>1
  <2>3. Content!Baseline(file) \subseteq Content!Held
    <3>1. \A k \in 1..Len(rows) : rows[k] \in Content!Rows OBVIOUS
    <3>2. \A s \in Content!Rows : [item |-> s.item, rev |-> s.rev, from |-> s.from, total |-> s.total,
             real |-> s.real, complete |-> s.complete, status |-> s.status] \in Content!Held
      BY DEF Content!Rows, Content!TextRows, Content!RowsOf, Content!Held, Content!Items
    <3> QED BY <2>2, <3>1, <3>2 DEF Content!Baseline
  <2> QED BY <1>2, <1>3, <1>5, <2>3 DEF Readers
<1> QED BY <1>4, <1>5

LEMMA ContentKinds ==
  ASSUME Content!ConstantsOK, Content!TypeOK, [Content!Next]_(Content!vars)
  PROVE  Content!TypeOK'
<1>00. /\ \A i \in Texts, n \in 1..2 : Content!Delta(i, n) => Spoken(buf, buf')
       /\ \A i \in Texts : Content!Complete(i) => Spoken(buf, buf')
       /\ \A i \in Texts : Content!LateStart(i) => Spoken(buf, buf')
       /\ \A i \in Requests : Content!Ask(i) => Spoken(buf, buf')
       /\ \A i \in Requests : Content!Resolve(i) => Spoken(buf, buf')
  BY SpeaksIs
<1>01. Content!Read => reader' \in Readers BY ReadIs
<1> USE DEF Content!TypeOK
<1>0. /\ buf.gen \in 1..MaxGenerations /\ live \in Nat /\ MaxGenerations \in Nat
      /\ buf \in Content!Buffers
  BY DEF Content!BufferOK, Content!Buffers, Content!ConstantsOK
<1>1. ASSUME Spoken(buf, buf'), next' \in BOOLEAN,
             native' \in [Content!Items -> [units : 0..MaxUnits, open : BOOLEAN, done : BOOLEAN]],
             UNCHANGED <<writing, file, live, reader, resets>>
      PROVE  Content!TypeOK'
  BY <1>1 DEF Spoken
<1>2. ASSUME NEW i \in Texts, NEW n \in 1..2, Content!Delta(i, n) PROVE Content!TypeOK'
  <2>1. Spoken(buf, buf') BY <1>2, <1>00, Zenon
  <2>2. native' \in [Content!Items -> [units : 0..MaxUnits, open : BOOLEAN, done : BOOLEAN]]
    <3>1. native[i].units + n \in 0..MaxUnits /\ i \in Content!Items
          /\ native' = [native EXCEPT ![i].units = native[i].units + n, ![i].open = TRUE]
      BY <1>2 DEF Content!Delta, Content!Items, Content!ConstantsOK
    <3>2. PICK u \in 0..MaxUnits : u = native[i].units + n BY <3>1
    <3>3. native' = [native EXCEPT ![i].units = u, ![i].open = TRUE] BY <3>1, <3>2
    <3> QED BY <3>1, <3>3, ZenonT(40)
  <2> QED BY <1>1, <1>2, <2>1, <2>2 DEF Content!Delta, Content!Published
<1>3. ASSUME NEW i \in Texts, Content!Complete(i) PROVE Content!TypeOK'
  <2>1. Spoken(buf, buf') BY <1>3, <1>00, Zenon
  <2>2. native' \in [Content!Items -> [units : 0..MaxUnits, open : BOOLEAN, done : BOOLEAN]]
    BY <1>3 DEF Content!Complete
  <2> QED BY <1>1, <1>3, <2>1, <2>2 DEF Content!Complete, Content!Published
<1>4. ASSUME NEW i \in Texts, Content!LateStart(i) PROVE Content!TypeOK'
  <2>1. Spoken(buf, buf') BY <1>4, <1>00, Zenon
  <2> QED BY <1>1, <1>4, <2>1 DEF Content!LateStart, Content!Published
<1>5. ASSUME NEW i \in Requests, Content!Ask(i) PROVE Content!TypeOK'
  <2>1. Spoken(buf, buf') BY <1>5, <1>00, Zenon
  <2>2. native' \in [Content!Items -> [units : 0..MaxUnits, open : BOOLEAN, done : BOOLEAN]]
    BY <1>5 DEF Content!Ask
  <2> QED BY <1>1, <1>5, <2>1, <2>2 DEF Content!Ask, Content!Published
<1>6. ASSUME NEW i \in Requests, Content!Resolve(i) PROVE Content!TypeOK'
  <2>1. Spoken(buf, buf') BY <1>6, <1>00, Zenon
  <2>2. native' \in [Content!Items -> [units : 0..MaxUnits, open : BOOLEAN, done : BOOLEAN]]
    BY <1>6 DEF Content!Resolve
  <2> QED BY <1>1, <1>6, <2>1, <2>2 DEF Content!Resolve, Content!Published
<1>7. Content!Fresh \in [Content!Items -> [units : 0..MaxUnits, open : BOOLEAN, done : BOOLEAN]]
  BY DEF Content!Fresh, Content!ConstantsOK
<1>8. ASSUME Content!resetContext PROVE Content!TypeOK'
  <2>1. buf' = Content!Reset(buf) /\ next' \in BOOLEAN /\ native' = Content!Fresh
        /\ UNCHANGED <<writing, file, live, reader>> /\ resets' \in 0..MaxResets
    BY <1>8 DEF Content!resetContext, Content!Published, Content!ConstantsOK
  <2>2. PICK b : b = buf OBVIOUS
  <2>3. Content!BufferOK(Content!Reset(b)) /\ Content!Reset(b).gen = b.gen BY <2>2, ResetIs
  <2>4. Content!BufferOK(buf') /\ buf'.gen = buf.gen BY <2>1, <2>2, <2>3
  <2> QED BY <1>7, <2>1, <2>4
<1>9. ASSUME Content!flush PROVE Content!TypeOK'
  <2>1. Content!Snapshot(buf) \in Content!Snapshots BY <1>0, SnapshotIs
  <2> QED BY <1>9, <2>1 DEF Content!flush
<1>10. ASSUME Content!Written PROVE Content!TypeOK' BY <1>10 DEF Content!Written
<1>11. ASSUME Content!OwnerDies PROVE Content!TypeOK' BY <1>11 DEF Content!OwnerDies
<1>12. ASSUME Content!OwnerOpens PROVE Content!TypeOK'
  <2>1. buf.gen + 1 \in 1..MaxGenerations BY <1>0, <1>12 DEF Content!OwnerOpens
  <2>2. PICK g \in 1..MaxGenerations : g = buf.gen + 1 BY <2>1
  <2>3. Content!BufferOK(Content!Empty(g)) /\ Content!Empty(g).gen = g BY EmptyIs
  <2>4. Content!Snapshot(Content!Empty(g)) \in Content!Snapshots
    BY <2>3, SnapshotIs DEF Content!BufferOK
  <2>5. buf' = Content!Empty(g) /\ live' = g /\ file' = Content!Snapshot(Content!Empty(g))
        /\ native' = Content!Fresh /\ UNCHANGED <<next, writing, reader, resets>>
    BY <1>12, <2>2 DEF Content!OwnerOpens
  <2>6. Content!BufferOK(buf') /\ buf'.gen = g BY <2>3, <2>5
  <2>7. live' \in {0, buf'.gen} /\ live' # 0 BY <2>5, <2>6
  <2>8. native' \in [Content!Items -> [units : 0..MaxUnits, open : BOOLEAN, done : BOOLEAN]]
        /\ file' \in Content!Snapshots
    BY <1>7, <2>4, <2>5
  <2> QED BY <2>5, <2>6, <2>7, <2>8
<1>13. ASSUME Content!Read PROVE Content!TypeOK'
  <2>1. reader' \in Readers BY <1>13, <1>01
  <2> QED BY <1>13, <2>1 DEF Content!Read, Readers
<1>14. CASE UNCHANGED Content!vars BY <1>14 DEF Content!vars
<1> QED BY <1>2, <1>3, <1>4, <1>5, <1>6, <1>8, <1>9, <1>10, <1>11, <1>12, <1>13, <1>14 DEF Content!Next

\* An open request is in the baseline, while there is place for all of them.
RequestsShown ==
  Cardinality(Requests) <= MaxItems =>
    \A i \in Requests : native[i].open =>
      \E x \in Of(buf.states) : x.item = i /\ x.status = "requested"

LEMMA RequestsKept ==
  ASSUME Content!ConstantsOK, Content!TypeOK, RequestsShown, [Content!Next]_(Content!vars)
  PROVE  RequestsShown'
<1>1. \A i \in Texts : i \notin Requests BY DEF Content!ConstantsOK
<1>2. native \in [Content!Items -> [units : 0..MaxUnits, open : BOOLEAN, done : BOOLEAN]]
      /\ Texts \subseteq Content!Items /\ Requests \subseteq Content!Items
  BY DEF Content!TypeOK, Content!Items
<1> SUFFICES ASSUME Cardinality(Requests) <= MaxItems, NEW i \in Requests, native'[i].open
             PROVE  \E x \in Of(buf'.states) : x.item = i /\ x.status = "requested"
  BY DEF RequestsShown
<1>3. native[i].open => \E x \in Of(buf.states) : x.item = i /\ x.status = "requested"
  BY DEF RequestsShown
<1>4. ASSUME NEW t, t = buf', native[i].open, NEW row, Puts(buf.states, t.states, row), row.item # i
      PROVE  \E x \in Of(buf'.states) : x.item = i /\ x.status = "requested"
  BY <1>3, <1>4 DEF Puts
<1>5. ASSUME NEW j \in Texts, NEW op, NEW n, NEW real, NEW complete,
             TextPut(buf, buf', j, op, n, real, complete), native[i].open
      PROVE  \E x \in Of(buf'.states) : x.item = i /\ x.status = "requested"
  <2>1. PICK t : t = buf' OBVIOUS
  <2>2. TextPut(buf, t, j, op, n, real, complete) BY <1>5, <2>1
  <2>3. PICK row : row.item = j /\ Puts(buf.states, t.states, row) BY <2>2 DEF TextPut, SaidRow
  <2>4. row.item # i BY <1>1, <2>3
  <2> QED BY <1>4, <1>5, <2>1, <2>3, <2>4
<1>6. ASSUME NEW j \in Texts, NEW n \in 1..2, Content!Delta(j, n)
      PROVE  \E x \in Of(buf'.states) : x.item = i /\ x.status = "requested"
  <2>1. native[i].open BY <1>1, <1>2, <1>6 DEF Content!Delta
  <2>2. buf' = buf \/ TextPut(buf, buf', j, "append", n, native[j].units, FALSE)
    BY <1>6, SpeaksIs DEF Delivered
  <2> QED BY <1>3, <1>5, <2>1, <2>2
<1>7. ASSUME NEW j \in Texts, Content!Complete(j)
      PROVE  \E x \in Of(buf'.states) : x.item = i /\ x.status = "requested"
  <2>1. native[i].open BY <1>1, <1>2, <1>7 DEF Content!Complete
  <2>2. TextPut(buf, buf', j, "replace", native[j].units, 0, TRUE) BY <1>7, SpeaksIs
  <2> QED BY <1>5, <2>1, <2>2
<1>8. ASSUME NEW j \in Texts, Content!LateStart(j)
      PROVE  \E x \in Of(buf'.states) : x.item = i /\ x.status = "requested"
  <2>1. native[i].open BY <1>8 DEF Content!LateStart
  <2>2. buf' = buf \/ TextPut(buf, buf', j, "replace", 0, 0, FALSE) BY <1>8, SpeaksIs DEF Delivered
  <2> QED BY <1>3, <1>5, <2>1, <2>2
<1>9. ASSUME NEW j \in Requests, Content!Ask(j)
      PROVE  \E x \in Of(buf'.states) : x.item = i /\ x.status = "requested"
  <2>1. PICK t : t = buf' OBVIOUS
  <2>2. RequestPut(buf, t, j, "requested") BY <1>9, <2>1, SpeaksIs
  <2>3. PICK row : row.item = j /\ row.status = "requested" /\ Puts(buf.states, t.states, row)
    BY <2>2 DEF RequestPut
  <2>4. CASE i = j BY <2>1, <2>3, <2>4 DEF Puts
  <2>5. CASE i # j
    <3>1. native[i].open BY <1>2, <1>9, <2>5 DEF Content!Ask
    <3> QED BY <1>4, <2>1, <2>3, <2>5, <3>1
  <2> QED BY <2>4, <2>5
<1>10. ASSUME NEW j \in Requests, Content!Resolve(j)
       PROVE  \E x \in Of(buf'.states) : x.item = i /\ x.status = "requested"
  <2>1. PICK t : t = buf' OBVIOUS
  <2>2. RequestPut(buf, t, j, "resolved") BY <1>10, <2>1, SpeaksIs
  <2>3. PICK row : row.item = j /\ Puts(buf.states, t.states, row) BY <2>2 DEF RequestPut
  <2>4. i # j /\ native[i].open BY <1>2, <1>10 DEF Content!Resolve
  <2> QED BY <1>4, <2>1, <2>3, <2>4
<1>11. CASE Content!resetContext \/ Content!OwnerOpens
  <2>1. native' = Content!Fresh BY <1>11 DEF Content!resetContext, Content!OwnerOpens
  <2> QED BY <1>2, <2>1 DEF Content!Fresh
<1>12. CASE Content!flush \/ Content!Written \/ Content!OwnerDies \/ Content!Read
              \/ UNCHANGED Content!vars
  <2>1. native' = native /\ buf' = buf
    BY <1>12 DEF Content!flush, Content!Written, Content!OwnerDies, Content!Read, Content!vars
  <2> QED BY <1>3, <2>1
<1> QED BY <1>6, <1>7, <1>8, <1>9, <1>10, <1>11, <1>12 DEF Content!Next

-----------------------------------------------------------------------------
(* All that an owner said, of which the buffer, what is written and what a
   reader read are parts.  A history has a record at every number, and None
   where the conversation was reset. *)

Said == Seq(Content!Records \cup {None})
\* The last that was said of an item up to a number.
LastIn(h, k, i, m) ==
  /\ k \in 1..m /\ h[k] # None /\ h[k].item = i
  /\ \A j \in (k + 1)..m : h[j] # None /\ h[j].item # i
\* What is held of an item is what was last said of it.
Shown(h, m, x) ==
  \E k \in 1..m : /\ LastIn(h, k, x.item, m) /\ x.rev = h[k].rev
                  /\ x.total = h[k].offset + h[k].units /\ x.real = h[k].real + h[k].units
                  /\ (x.complete => h[k].complete)
\* What is appended goes on where the item was left.
LinkedAt(h, k) ==
  h[k] # None /\ h[k].item \in Texts /\ h[k].op = "append" =>
    \A j \in 1..(k - 1) : LastIn(h, j, h[k].item, k - 1) =>
      h[k].rev = h[j].rev /\ h[k].offset = h[j].offset + h[j].units
Linked(h) == \A k \in 1..Len(h) : LinkedAt(h, k)
\* More was said.
Prefix(h, g) == Len(h) <= Len(g) /\ \A k \in 1..Len(h) : g[k] = h[k]

LEMMA LastOne ==
  ASSUME NEW h, NEW i, NEW m \in Nat, NEW j, NEW k, LastIn(h, j, i, m), LastIn(h, k, i, m)
  PROVE  j = k
<1>1. j \in 1..m /\ k \in 1..m BY DEF LastIn
<1>2. CASE j < k
  <2>1. k \in (j + 1)..m BY <1>1, <1>2
  <2> QED BY <2>1 DEF LastIn
<1>3. CASE k < j
  <2>1. j \in (k + 1)..m BY <1>1, <1>3
  <2> QED BY <2>1 DEF LastIn
<1> QED BY <1>1, <1>2, <1>3

LEMMA LastStays ==
  ASSUME NEW h \in Said, NEW g \in Said, Prefix(h, g), NEW m \in Nat, m <= Len(h), NEW i, NEW k
  PROVE  LastIn(h, k, i, m) <=> LastIn(g, k, i, m)
<1>1. \A j \in 1..m : g[j] = h[j]
  <2>1. \A j \in 1..m : j \in 1..Len(h) OBVIOUS
  <2> QED BY <2>1 DEF Prefix
<1>2. \A j \in (k + 1)..m : k \in 1..m => j \in 1..m OBVIOUS
<1> QED BY <1>1, <1>2 DEF LastIn

LEMMA ShownStays ==
  ASSUME NEW h \in Said, NEW g \in Said, Prefix(h, g), NEW m \in Nat, m <= Len(h), NEW x,
         Shown(h, m, x)
  PROVE  Shown(g, m, x)
<1>1. PICK k \in 1..m : /\ LastIn(h, k, x.item, m) /\ x.rev = h[k].rev
                        /\ x.total = h[k].offset + h[k].units /\ x.real = h[k].real + h[k].units
                        /\ (x.complete => h[k].complete)
  BY DEF Shown
<1>2. LastIn(g, k, x.item, m) BY <1>1, LastStays
<1>3. g[k] = h[k]
  <2>1. k \in 1..Len(h) OBVIOUS
  <2> QED BY <2>1 DEF Prefix
<1> QED BY <1>1, <1>2, <1>3 DEF Shown

\* What is said of others changes nothing.
LEMMA ShownOn ==
  ASSUME NEW h \in Said, NEW g \in Said, Prefix(h, g), NEW m \in Nat, NEW n \in Nat, m <= n,
         m <= Len(h), n <= Len(g),
         NEW x, Shown(h, m, x), \A k \in (m + 1)..n : g[k] # None /\ g[k].item # x.item
  PROVE  Shown(g, n, x)
<1>0. Shown(g, m, x) BY ShownStays
<1>1. PICK k \in 1..m : /\ LastIn(g, k, x.item, m) /\ x.rev = g[k].rev
                        /\ x.total = g[k].offset + g[k].units /\ x.real = g[k].real + g[k].units
                        /\ (x.complete => g[k].complete)
  BY <1>0 DEF Shown
<1>2. k \in 1..n OBVIOUS
<1>3. LastIn(g, k, x.item, n)
  <2>1. \A j \in (k + 1)..n : j \in (k + 1)..m \/ j \in (m + 1)..n OBVIOUS
  <2> QED BY <1>1, <1>2, <2>1 DEF LastIn
<1> QED BY <1>1, <1>2, <1>3 DEF Shown

\* What is said last of an item is what is held of it.
LEMMA ShownLast ==
  ASSUME NEW h, NEW m \in Nat, m > 0, h[m] # None, NEW x, x.item = h[m].item, x.rev = h[m].rev,
         x.total = h[m].offset + h[m].units, x.real = h[m].real + h[m].units,
         x.complete => h[m].complete
  PROVE  Shown(h, m, x)
<1>1. m \in 1..m OBVIOUS
<1>2. LastIn(h, m, x.item, m) BY <1>1 DEF LastIn
<1> QED BY <1>1, <1>2 DEF Shown

\* A reader that has what was said up to a number, and nothing that does not go on.
ReaderShows(h, m, r) == ~r.broken /\ \A x \in r.seen : x.item \in Texts => Shown(h, m, x)

LEMMA ApplyShows ==
  ASSUME Content!ConstantsOK, NEW h \in Said, NEW m \in Nat, NEW n \in 1..Len(h), n = m + 1,
         Linked(h), NEW rec \in Content!Records, h[n] = rec,
         NEW r \in Readers, ReaderShows(h, m, r), NEW out, out = Content!Apply(r, rec)
  PROVE  ReaderShows(h, n, out)
<1> DEFINE held == {x \in r.seen : x.item = rec.item}
           new == [item |-> rec.item, rev |-> rec.rev, from |-> rec.offset,
              total |-> rec.offset + rec.units, real |-> rec.real + rec.units,
              complete |-> rec.complete /\ rec.known,
              status |-> IF rec.item \in Texts THEN "text" ELSE rec.op]
           x == CHOOSE x \in held : TRUE
           y == [x EXCEPT !.total = @ + rec.units, !.real = rec.real + rec.units, !.complete = rec.complete]
<1>0. /\ rec # None /\ n > 0 /\ n \in Nat
      /\ rec.op = "append" => rec.item \in Texts
  <2>1. rec # None BY DEF Content!ConstantsOK
  <2>2. rec.op = "append" => rec.item \in Texts
    BY DEF Content!Records, Content!TextRecords, Content!RecordsOf
  <2> QED BY <2>1, <2>2
<1>1. ASSUME NEW z \in r.seen \ held, z.item \in Texts PROVE Shown(h, n, z)
  <2>1. Shown(h, m, z) BY <1>1 DEF ReaderShows
  <2>2. \A k \in (m + 1)..n : h[k] # None /\ h[k].item # z.item
    <3>1. \A k \in (m + 1)..n : k = n OBVIOUS
    <3>2. z.item # rec.item BY <1>1
    <3> QED BY <1>0, <3>1, <3>2
  <2>3. Prefix(h, h) BY DEF Prefix
  <2>4. m <= n /\ m <= Len(h) /\ n <= Len(h) OBVIOUS
  <2> HIDE DEF held
  <2> QED BY <1>0, <2>1, <2>2, <2>3, <2>4, ShownOn
<1>2. ASSUME NEW z, out.seen = (r.seen \ held) \cup {z}, ~out.broken,
             z.item \in Texts => Shown(h, n, z)
      PROVE  ReaderShows(h, n, out)
  <2> HIDE DEF held
  <2> QED BY <1>1, <1>2 DEF ReaderShows
<1>3. CASE held = {} \/ rec.op # "append"
  <2>1. out = [r EXCEPT !.seen = (r.seen \ held) \cup {new}] BY <1>3, Zenon DEF Content!Apply
  <2>2. new.item = rec.item /\ new.rev = rec.rev /\ new.total = rec.offset + rec.units
        /\ new.real = rec.real + rec.units /\ new.complete = (rec.complete /\ rec.known)
    OBVIOUS
  <2> HIDE DEF new, held
  <2>3. out.seen = (r.seen \ held) \cup {new} /\ out.broken = r.broken BY <2>1 DEF Readers
  <2>4. ~out.broken BY <2>3 DEF ReaderShows
  <2>5. Shown(h, n, new) BY <1>0, <2>2, ShownLast
  <2> QED BY <1>2, <2>3, <2>4, <2>5
<1>4. CASE ~(held = {} \/ rec.op # "append")
  <2>1. out = [r EXCEPT !.seen = (r.seen \ held) \cup {y},
               !.broken = r.broken \/ x.rev # rec.rev \/ x.total # rec.offset]
    BY <1>4, Zenon DEF Content!Apply
  <2>2. x \in held BY <1>4
  <2>3. x \in r.seen /\ x.item = rec.item /\ rec.item \in Texts /\ x \in Content!Held
    BY <1>0, <1>4, <2>2 DEF Readers
  <2> HIDE DEF x
  <2>4. PICK k \in 1..m : /\ LastIn(h, k, rec.item, m) /\ x.rev = h[k].rev
                          /\ x.total = h[k].offset + h[k].units
    BY <2>3 DEF ReaderShows, Shown
  <2>5. LinkedAt(h, n) BY DEF Linked
  <2>6. n - 1 = m OBVIOUS
  <2>7. rec.rev = x.rev /\ rec.offset = x.total BY <1>0, <1>4, <2>3, <2>4, <2>5, <2>6 DEF LinkedAt
  <2>8. y.item = rec.item /\ y.rev = rec.rev /\ y.total = rec.offset + rec.units
        /\ y.real = rec.real + rec.units /\ y.complete = rec.complete
    BY <2>3, <2>7 DEF Content!Held
  <2> HIDE DEF y, held
  <2>9. out.seen = (r.seen \ held) \cup {y} /\ ~out.broken BY <2>1, <2>7 DEF Readers, ReaderShows
  <2>10. Shown(h, n, y) BY <1>0, <2>8, ShownLast
  <2> QED BY <1>2, <2>9, <2>10
<1> QED BY <1>3, <1>4

\* A snapshot holds the last of what was said, and in its baseline where the texts were left.
Copied(h, f) ==
  /\ f.seq <= Len(h) /\ f.dropped + Len(f.records) = f.seq
  /\ \A k \in 1..Len(f.records), n \in Nat : n = f.dropped + k =>
       f.records[k] = h[n] /\ f.records[k].seq = n
  /\ \A x \in Of(f.baseline) : x.item \in Texts => Shown(h, f.seq, x)
ReaderOK(h, r, gen) ==
  /\ ~r.broken
  /\ r.cur # None /\ r.cur.gen = gen =>
       r.cur.seq <= Len(h) /\ \A x \in r.seen : x.item \in Texts => Shown(h, r.cur.seq, x)

\* What a reader with a cursor is served goes on where it was.
LEMMA ServedShows ==
  ASSUME Content!ConstantsOK, NEW h \in Said, Linked(h), NEW rs \in Seq(Content!Records),
         NEW d \in Nat, NEW m \in Nat, d <= m, m <= d + Len(rs), d + Len(rs) <= Len(h),
         \A k \in 1..Len(rs), n \in Nat : n = d + k => rs[k] = h[n] /\ rs[k].seq = n,
         NEW r \in Readers, ReaderShows(h, m, r)
  PROVE  ReaderShows(h, d + Len(rs), Content!Applied(r, rs, m))
<1>1. PICK f \in [0..Len(rs) -> Readers] :
           /\ Content!Applied(r, rs, m) = f[Len(rs)] /\ f[0] = r
           /\ \A k \in 1..Len(rs) :
                f[k] = IF rs[k].seq > m THEN Content!Apply(f[k - 1], rs[k]) ELSE f[k - 1]
  BY AppliedRecords
<1> DEFINE S == {k \in Nat : k <= Len(rs) =>
                    /\ d + k <= m => f[k] = r
                    /\ d + k >= m => ReaderShows(h, d + k, f[k])}
<1>2. 0 \in S
  <2>1. d + 0 = d /\ (d >= m => d = m) OBVIOUS
  <2> QED BY <1>1, <2>1
<1>3. ASSUME NEW k \in Nat, k \in S PROVE k + 1 \in S
  <2> SUFFICES ASSUME k + 1 <= Len(rs)
               PROVE  /\ d + (k + 1) <= m => f[k + 1] = r
                      /\ d + (k + 1) >= m => ReaderShows(h, d + (k + 1), f[k + 1])
    OBVIOUS
  <2>1. k + 1 \in 1..Len(rs) /\ (k + 1) - 1 = k /\ k \in 0..Len(rs) OBVIOUS
  <2>2. PICK n \in Nat : n = d + (k + 1) OBVIOUS
  <2>3. rs[k + 1] = h[n] /\ rs[k + 1].seq = n BY <2>1, <2>2
  <2>4. f[k + 1] = IF n > m THEN Content!Apply(f[k], rs[k + 1]) ELSE f[k] BY <1>1, <2>1, <2>3
  <2>5. f[k] \in Readers /\ rs[k + 1] \in Content!Records BY <2>1
  <2>6. CASE n > m
    <3>1. ReaderShows(h, d + k, f[k])
      <4>1. d + k >= m /\ k <= Len(rs) BY <2>2, <2>6
      <4> QED BY <1>3, <4>1
    <3>2. n \in 1..Len(h) /\ n = (d + k) + 1 /\ d + k \in Nat BY <2>2
    <3>3. ReaderShows(h, n, Content!Apply(f[k], rs[k + 1])) BY <2>3, <2>5, <3>1, <3>2, ApplyShows
    <3> QED BY <2>2, <2>4, <2>6, <3>3
  <2>7. CASE n <= m
    <3>1. f[k] = r
      <4>1. d + k <= m /\ k <= Len(rs) BY <2>2, <2>7
      <4> QED BY <1>3, <4>1
    <3>2. f[k + 1] = r BY <2>4, <2>7, <3>1
    <3>3. n >= m => n = m BY <2>7
    <3> QED BY <2>2, <3>2, <3>3
  <2> QED BY <2>2, <2>6, <2>7
<1>4. Len(rs) \in S
  <2>1. Len(rs) \in Nat OBVIOUS
  <2>2. Nat \subseteq S
    <3> HIDE DEF S
    <3> QED BY <1>2, <1>3, SetInduction
  <2> QED BY <2>1, <2>2
<1> QED BY <1>1, <1>4

\* The history of a buffer, and what the buffer has of it.
HistoryOK(h, b) ==
  /\ h \in Said /\ Len(h) = b.seq /\ Linked(h)
  /\ \A k \in 1..Len(h) : h[k] = None => k <= b.boundary
  /\ b.boundary > 0 => b.boundary \in 1..Len(h) /\ h[b.boundary] = None
RecordsIn(h, b) == \A k \in 1..Len(b.records), n \in Nat : n = b.dropped + k => b.records[k] = h[n]
StatesIn(h, b) == \A x \in Of(b.states) : x.item \in Texts => Shown(h, Len(h), x)
PositionsIn(h, b) ==
  /\ \A x \in Of(b.positions) : x.item \in Texts /\ Shown(h, Len(h), x)
  /\ \A k \in 1..Len(h) : k > b.boundary /\ h[k].item \in Texts =>
       \E x \in Of(b.positions) : x.item = h[k].item

LEMMA StampIs ==
  ASSUME NEW r \in Content!Records, NEW n \in Nat
  PROVE  LET s == Stamped(r, n)
         IN /\ s \in Content!Records /\ s.seq = n /\ s.item = r.item /\ s.op = r.op /\ s.rev = r.rev
            /\ s.offset = r.offset /\ s.units = r.units /\ s.real = r.real /\ s.complete = r.complete
BY DEF Stamped, Content!Records, Content!TextRecords, Content!RecordsOf

Grows(h, g, rs) ==
  /\ g \in Said /\ Len(g) = Len(h) + Len(rs) /\ Prefix(h, g)
  /\ \A k \in 1..Len(rs), n \in Nat : n = Len(h) + k =>
       g[n] = Stamped(rs[k], n) /\ g[n] \in Content!Records

LEMMA GrowsIs ==
  ASSUME NEW h \in Said, NEW rs \in Seq(Content!Records)
  PROVE  \E g \in Said : Grows(h, g, rs)
<1> DEFINE new == [k \in 1..Len(rs) |-> Stamped(rs[k], Len(h) + k)]
           g == h \o new
<1>0. Len(h) \in Nat /\ Len(rs) \in Nat BY DEF Said
<1>1. \A k \in 1..Len(rs) : Stamped(rs[k], Len(h) + k) \in Content!Records
  <2>1. \A k \in 1..Len(rs) : rs[k] \in Content!Records /\ Len(h) + k \in Nat BY <1>0
  <2> QED BY <2>1, StampIs
<1>2. new \in Said /\ Len(new) = Len(rs)
      /\ \A k \in 1..Len(rs) : new[k] = Stamped(rs[k], Len(h) + k)
  <2>1. new \in [1..Len(rs) -> Content!Records \cup {None}] BY <1>1
  <2>2. \A f \in [1..Len(rs) -> Content!Records \cup {None}] : f \in Said /\ Len(f) = Len(rs)
    BY <1>0 DEF Said
  <2>3. \A k \in 1..Len(rs) : new[k] = Stamped(rs[k], Len(h) + k) OBVIOUS
  <2> HIDE DEF new
  <2> QED BY <2>1, <2>2, <2>3
<1> HIDE DEF new
<1>3. /\ g \in Said /\ Len(g) = Len(h) + Len(rs)
      /\ \A k \in 1..(Len(h) + Len(rs)) : g[k] = IF k <= Len(h) THEN h[k] ELSE new[k - Len(h)]
  <2>1. h \in Seq(Content!Records \cup {None}) /\ new \in Seq(Content!Records \cup {None})
    BY <1>2 DEF Said
  <2>2. /\ g \in Seq(Content!Records \cup {None}) /\ Len(g) = Len(h) + Len(new)
        /\ \A k \in 1..(Len(h) + Len(new)) : g[k] = IF k <= Len(h) THEN h[k] ELSE new[k - Len(h)]
    BY <2>1, ConcatProperties
  <2>3. Len(new) = Len(rs) BY <1>2
  <2>4. g \in Said BY <2>2 DEF Said
  <2> HIDE DEF g
  <2> QED BY <2>2, <2>3, <2>4
<1> HIDE DEF g
<1>4. Prefix(h, g) BY <1>0, <1>3 DEF Prefix
<1>5. ASSUME NEW k \in 1..Len(rs), NEW n \in Nat, n = Len(h) + k
      PROVE  g[n] = Stamped(rs[k], n) /\ g[n] \in Content!Records
  <2>1. n \in 1..(Len(h) + Len(rs)) /\ ~(n <= Len(h)) /\ n - Len(h) = k BY <1>0, <1>5
  <2>2. g[n] = new[k] BY <1>3, <2>1
  <2>3. new[k] = Stamped(rs[k], n) BY <1>2, <1>5
  <2>4. Stamped(rs[k], n) \in Content!Records BY <1>1, <1>5
  <2> QED BY <2>2, <2>3, <2>4
<1>6. Grows(h, g, rs) BY <1>3, <1>4, <1>5 DEF Grows
<1> QED BY <1>3, <1>6

LEMMA RecordsGrow ==
  ASSUME NEW b, Content!BufferOK(b), NEW t, Content!BufferOK(t), NEW rs \in Seq(Content!Records),
         Pushes(b, t, rs), NEW h \in Said, Len(h) = b.seq, RecordsIn(h, b), NEW g, Grows(h, g, rs)
  PROVE  RecordsIn(g, t) /\ Len(g) = t.seq
<1>1. /\ b.seq \in Nat /\ b.dropped \in Nat /\ Len(b.records) \in Nat /\ t.dropped \in Nat
      /\ b.dropped + Len(b.records) = b.seq /\ Len(t.records) \in Nat
      /\ t.dropped + Len(t.records) = t.seq /\ t.seq = b.seq + Len(rs) /\ Len(rs) \in Nat
      /\ t.dropped >= b.dropped
  BY DEF Content!BufferOK, Content!Buffers, Content!Numbered, Pushes
<1>2. Len(g) = t.seq BY <1>1 DEF Grows
<1>3. ASSUME NEW k \in 1..Len(t.records), NEW n \in Nat, n = t.dropped + k
      PROVE  t.records[k] = g[n]
  <2>1. /\ n <= b.seq => t.records[k] = b.records[n - b.dropped]
        /\ n > b.seq => t.records[k] = Stamped(rs[n - b.seq], n)
    BY <1>3 DEF Pushes
  <2>2. CASE n <= b.seq
    <3>1. n - b.dropped \in 1..Len(b.records) /\ n \in 1..Len(h) BY <1>1, <1>3, <2>2
    <3>2. PICK j \in 1..Len(b.records) : j = n - b.dropped BY <3>1
    <3>3. n = b.dropped + j BY <1>1, <3>2
    <3>4. b.records[j] = h[n] BY <3>3 DEF RecordsIn
    <3>5. g[n] = h[n] BY <3>1 DEF Grows, Prefix
    <3> QED BY <2>1, <2>2, <3>2, <3>4, <3>5
  <2>3. CASE n > b.seq
    <3>0. n <= b.seq + Len(rs)
      <4>1. k <= Len(t.records) /\ k \in Nat BY <1>1
      <4>2. n <= t.seq BY <1>1, <1>3, <4>1
      <4> QED BY <1>1, <4>2
    <3>1. n - b.seq \in 1..Len(rs)
      <4> HIDE DEF Content!Numbered
      <4>1. b.seq \in Nat /\ Len(rs) \in Nat BY <1>1
      <4> QED BY <2>3, <3>0, <4>1
    <3>2. PICK j \in 1..Len(rs) : j = n - b.seq BY <3>1
    <3>3. n = Len(h) + j BY <1>1, <3>2
    <3>4. g[n] = Stamped(rs[j], n) BY <3>3 DEF Grows
    <3> QED BY <2>1, <2>3, <3>2, <3>4
  <2> QED BY <1>1, <2>2, <2>3
<1> QED BY <1>2, <1>3 DEF RecordsIn

\* What was last said of an item was said after the reset.
LEMMA LastSince ==
  ASSUME NEW h, NEW b, HistoryOK(h, b), b.boundary \in Nat, Len(h) \in Nat, NEW i, NEW j,
         NEW m \in Nat, m <= Len(h), b.boundary <= m, LastIn(h, j, i, m)
  PROVE  j \in 1..Len(h) /\ j > b.boundary /\ h[j].item = i
<1>1. j \in 1..m /\ h[j] # None /\ h[j].item = i BY DEF LastIn
<1>2. j > b.boundary
  <2> SUFFICES ASSUME j <= b.boundary PROVE FALSE BY <1>1
  <2>1. h[b.boundary] = None BY <1>1 DEF HistoryOK
  <2>2. j # b.boundary BY <1>1, <2>1
  <2>3. b.boundary \in (j + 1)..m BY <1>1, <2>2
  <2> QED BY <2>1, <2>3 DEF LastIn
<1> QED BY <1>1, <1>2

\* Where a buffer was left by what was said of a text.
LEMMA LeftAt ==
  ASSUME Content!ConstantsOK, NEW b, Content!BufferOK(b), NEW h, HistoryOK(h, b), StatesIn(h, b),
         PositionsIn(h, b), NEW i \in Texts, NEW j, LastIn(h, j, i, Len(h))
  PROVE  LET p == Content!Prior(b, i)
         IN /\ p # None /\ p.rev = h[j].rev /\ p.total = h[j].offset + h[j].units
            /\ p.real = h[j].real + h[j].units /\ (p.complete => h[j].complete)
<1>1. /\ b.states \in Seq(Content!Rows) /\ b.positions \in Seq(Content!TextRows)
      /\ b.boundary \in Nat /\ h \in Said /\ Len(h) \in Nat
  BY DEF Content!BufferOK, Content!Buffers, HistoryOK, Said
<1>2. j \in 1..Len(h) /\ h[j] # None /\ h[j].item = i BY DEF LastIn
<1>3. j > b.boundary
  <2>1. b.boundary <= Len(h) BY <1>1 DEF HistoryOK
  <2> QED BY <1>1, <2>1, LastSince
<1>4. PICK y \in Of(b.positions) : y.item = i BY <1>2, <1>3 DEF PositionsIn
<1>5. Content!Has(b.positions, i) BY <1>1, <1>4, HasIs
<1> DEFINE p == Content!Prior(b, i)
<1>6. p # None
  <2>1. CASE Content!Has(b.states, i)
    <3>1. p = Content!Row(b.states, i) BY <2>1 DEF Content!Prior
    <3>2. p \in Content!Rows BY <1>1, <2>1, <3>1, RowIs
    <3> QED BY <3>2 DEF Content!ConstantsOK
  <2>2. CASE ~Content!Has(b.states, i)
    <3> DEFINE x == Content!Row(b.positions, i)
    <3>1. p = [x EXCEPT !.from = x.total] BY <1>5, <2>2 DEF Content!Prior
    <3>2. x \in Content!TextRows BY <1>1, <1>5, RowIs
    <3> HIDE DEF x
    <3>3. p \in Content!TextRows BY <3>1, <3>2 DEF Content!TextRows, Content!RowsOf
    <3> QED BY <3>3 DEF Content!ConstantsOK, Content!Rows
  <2> QED BY <2>1, <2>2
<1>7. PICK x \in Of(b.states) \cup Of(b.positions) :
        /\ x.item = i /\ x.rev = p.rev /\ x.total = p.total /\ x.real = p.real
        /\ x.complete = p.complete
  BY <1>1, <1>6, PriorIs
<1>8. Shown(h, Len(h), x) BY <1>7 DEF StatesIn, PositionsIn
<1>9. PICK k \in 1..Len(h) : /\ LastIn(h, k, i, Len(h)) /\ x.rev = h[k].rev
                  /\ x.total = h[k].offset + h[k].units /\ x.real = h[k].real + h[k].units
                  /\ (x.complete => h[k].complete)
  BY <1>7, <1>8 DEF Shown
<1>10. k = j BY <1>1, <1>9, LastOne
<1> HIDE DEF p
<1>11. /\ p # None /\ p.rev = h[j].rev /\ p.total = h[j].offset + h[j].units
       /\ p.real = h[j].real + h[j].units /\ (p.complete => h[j].complete)
  BY <1>6, <1>7, <1>9, <1>10
<1> QED BY <1>11 DEF p

\* What is said goes on where the history was left.
LEMMA LinkedGrows ==
  ASSUME NEW h \in Said, Linked(h), NEW rs \in Seq(Content!Records), NEW g, Grows(h, g, rs),
         \A k \in 1..Len(rs), m \in Nat : m = Len(h) + k => LinkedAt(g, m)
  PROVE  Linked(g)
<1>1. Len(h) \in Nat /\ Len(rs) \in Nat /\ g \in Said /\ Prefix(h, g) /\ Len(g) = Len(h) + Len(rs)
  BY DEF Said, Grows
<1>2. ASSUME NEW k \in 1..Len(g), k <= Len(h) PROVE LinkedAt(g, k)
  <2>1. k \in 1..Len(h) /\ k - 1 \in Nat /\ k - 1 <= Len(h) BY <1>1, <1>2
  <2>2. LinkedAt(h, k) BY <2>1 DEF Linked
  <2>3. g[k] = h[k] BY <1>1, <2>1 DEF Prefix
  <2>4. \A j \in 1..(k - 1) : g[j] = h[j]
    <3>1. \A j \in 1..(k - 1) : j \in 1..Len(h) BY <1>1, <2>1
    <3> QED BY <1>1, <3>1 DEF Prefix
  <2>5. ASSUME NEW i, NEW j PROVE LastIn(h, j, i, k - 1) <=> LastIn(g, j, i, k - 1)
    <3>1. PICK m \in Nat : m = k - 1 /\ m <= Len(h) BY <2>1
    <3>2. LastIn(h, j, i, m) <=> LastIn(g, j, i, m) BY <1>1, <3>1, LastStays
    <3> QED BY <3>1, <3>2
  <2> QED BY <2>2, <2>3, <2>4, <2>5 DEF LinkedAt
<1>3. ASSUME NEW k \in 1..Len(g), k > Len(h) PROVE LinkedAt(g, k)
  <2>1. k - Len(h) \in 1..Len(rs) /\ k = Len(h) + (k - Len(h)) /\ k \in Nat BY <1>1, <1>3
  <2> QED BY <2>1
<1>4. \A k \in 1..Len(g) : k <= Len(h) \/ k > Len(h) BY <1>1
<1>5. \A k \in 1..Len(g) : LinkedAt(g, k) BY <1>2, <1>3, <1>4
<1> QED BY <1>5 DEF Linked

\* The records that say a text, where they are in the history.
SaidAt(r, k, last, i, op, rev, offset, n, real, complete) ==
  /\ r # None /\ r.item = i /\ r.op = (IF k = 1 THEN op ELSE "append")
  /\ r.rev = rev /\ r.offset = offset + k - 1 /\ r.real = real + k - 1
  /\ r.units = (IF n = 0 THEN 0 ELSE 1)
  /\ r.complete = (complete /\ k = last)
LEMMA SaysIs ==
  ASSUME Content!ConstantsOK, NEW h \in Said, NEW i \in Texts, NEW op \in {"append", "replace"},
         NEW rev, NEW offset \in Nat, NEW n \in Nat, NEW real \in Nat, NEW complete,
         NEW rs \in Seq(Content!Records), Says(rs, i, op, rev, offset, n, real, complete),
         NEW g, Grows(h, g, rs)
  PROVE  \A k \in 1..Len(rs), m \in Nat : m = Len(h) + k =>
           SaidAt(g[m], k, Len(rs), i, op, rev, offset, n, real, complete)
<1> SUFFICES ASSUME NEW k \in 1..Len(rs), NEW m \in Nat, m = Len(h) + k
             PROVE  SaidAt(g[m], k, Len(rs), i, op, rev, offset, n, real, complete)
  OBVIOUS
<1>1. g[m] = Stamped(rs[k], m) /\ g[m] \in Content!Records BY DEF Grows
<1>2. rs[k] \in Content!Records OBVIOUS
<1>3. /\ g[m].item = rs[k].item /\ g[m].op = rs[k].op /\ g[m].rev = rs[k].rev
      /\ g[m].offset = rs[k].offset /\ g[m].units = rs[k].units /\ g[m].real = rs[k].real
      /\ g[m].complete = rs[k].complete
  <2>1. PICK r \in Content!Records : r = rs[k] BY <1>2
  <2>2. /\ Stamped(r, m).item = r.item /\ Stamped(r, m).op = r.op /\ Stamped(r, m).rev = r.rev
        /\ Stamped(r, m).offset = r.offset /\ Stamped(r, m).units = r.units
        /\ Stamped(r, m).real = r.real /\ Stamped(r, m).complete = r.complete
    BY StampIs
  <2> QED BY <1>1, <2>1, <2>2, Zenon
<1>4. g[m] # None BY <1>1 DEF Content!ConstantsOK
<1> QED BY <1>3, <1>4 DEF Says, SaidAt

\* What is said of a text: a record follows the one before it.
LEMMA TextLinks ==
  ASSUME Content!ConstantsOK, NEW h \in Said, NEW i \in Texts, NEW op \in {"append", "replace"},
         NEW rev, NEW offset \in Nat, NEW n \in Nat, NEW real \in Nat, NEW complete,
         NEW rs \in Seq(Content!Records), Says(rs, i, op, rev, offset, n, real, complete),
         NEW g, Grows(h, g, rs), Linked(h),
         op = "append" =>
           \A j \in 1..Len(h) : LastIn(h, j, i, Len(h)) =>
             rev = h[j].rev /\ offset = h[j].offset + h[j].units
  PROVE  Linked(g)
<1>1. Len(h) \in Nat /\ Len(rs) \in Nat /\ Prefix(h, g) /\ g \in Said BY DEF Said, Grows
<1>2. ASSUME NEW k \in 1..Len(rs), NEW m \in Nat, m = Len(h) + k
      PROVE  /\ g[m] # None /\ g[m].item = i /\ g[m].op = (IF k = 1 THEN op ELSE "append")
             /\ g[m].rev = rev /\ g[m].offset = offset + k - 1
             /\ g[m].units = (IF n = 0 THEN 0 ELSE 1)
  <2>1. SaidAt(g[m], k, Len(rs), i, op, rev, offset, n, real, complete) BY <1>2, SaysIs
  <2> QED BY <2>1 DEF SaidAt
<1>3. ASSUME NEW k \in 1..Len(rs), NEW m \in Nat, m = Len(h) + k PROVE LinkedAt(g, m)
  <2> SUFFICES ASSUME g[m].op = "append", NEW j \in 1..(m - 1), LastIn(g, j, i, m - 1)
               PROVE  g[m].rev = g[j].rev /\ g[m].offset = g[j].offset + g[j].units
    BY <1>2, <1>3 DEF LinkedAt
  <2>1. CASE k = 1
    <3>1. m - 1 = Len(h) /\ op = "append" /\ g[m].rev = rev /\ g[m].offset = offset
      <4>1. offset + k - 1 = offset BY <2>1
      <4>2. m - 1 = Len(h) BY <1>1, <1>3, <2>1
      <4> QED BY <1>2, <1>3, <2>1, <4>1, <4>2
    <3>2. LastIn(g, j, i, Len(h)) BY <3>1
    <3>3. LastIn(h, j, i, Len(h)) BY <1>1, <3>2, LastStays
    <3>4. j \in 1..Len(h) BY <3>1
    <3>5. g[j] = h[j] BY <1>1, <3>4 DEF Prefix
    <3> QED BY <3>1, <3>3, <3>4, <3>5
  <2>2. CASE k # 1
    <3>1. PICK q \in 1..Len(rs), p \in Nat : q = k - 1 /\ p = m - 1 /\ p = Len(h) + q
      <4>1. k - 1 \in 1..Len(rs) /\ m - 1 \in Nat /\ m - 1 = Len(h) + (k - 1) BY <1>1, <1>3, <2>2
      <4> QED BY <4>1
    <3>2. /\ g[p] # None /\ g[p].item = i /\ g[p].rev = rev /\ g[p].offset = offset + q - 1
          /\ g[p].units = (IF n = 0 THEN 0 ELSE 1)
      BY <1>2, <3>1
    <3>3. LastIn(g, p, i, p)
      <4>1. p \in 1..p BY <3>1, <1>1
      <4> QED BY <3>2, <4>1 DEF LastIn
    <3>4. j = p BY <3>1, <3>3, LastOne
    <3>5. n # 0
      <4>1. Len(rs) >= 2 BY <1>1, <2>2
      <4> QED BY <4>1 DEF Says
    <3>6. offset + k - 1 = offset + q - 1 + 1 BY <3>1
    <3> QED BY <1>2, <1>3, <3>2, <3>4, <3>5, <3>6
  <2> QED BY <2>1, <2>2
<1> QED BY <1>3, LinkedGrows

\* The row of a text is what was said of it last.
LEMMA SaidLast ==
  ASSUME Content!ConstantsOK, NEW h \in Said, NEW i \in Texts, NEW op \in {"append", "replace"},
         NEW rev, NEW offset \in Nat, NEW n \in Nat, NEW real \in Nat, NEW complete,
         NEW rs \in Seq(Content!Records), Says(rs, i, op, rev, offset, n, real, complete),
         NEW g, Grows(h, g, rs), NEW x, SaidRow(x, i, rev, offset + n, real + n, complete)
  PROVE  Shown(g, Len(g), x)
<1>1. Len(h) \in Nat /\ Len(rs) \in Nat /\ Len(g) = Len(h) + Len(rs) BY DEF Said, Grows
<1>2. Len(rs) \in 1..Len(rs) /\ Len(rs) = IF n = 0 THEN 1 ELSE n BY DEF Says
<1>3. PICK m \in Nat, k \in 1..Len(rs) : m = Len(g) /\ k = Len(rs) /\ m = Len(h) + k
  BY <1>1, <1>2
<1>4. /\ g[m] # None /\ g[m].item = i /\ g[m].rev = rev /\ g[m].offset = offset + k - 1
      /\ g[m].real = real + k - 1 /\ g[m].units = (IF n = 0 THEN 0 ELSE 1)
      /\ g[m].complete = (complete /\ k = Len(rs))
  <2>1. SaidAt(g[m], k, Len(rs), i, op, rev, offset, n, real, complete) BY <1>3, SaysIs
  <2> QED BY <2>1 DEF SaidAt
<1>5. offset + n = g[m].offset + g[m].units /\ real + n = g[m].real + g[m].units
  <2>1. CASE n = 0 BY <1>2, <1>3, <1>4, <2>1
  <2>2. CASE n # 0 BY <1>2, <1>3, <1>4, <2>2
  <2> QED BY <2>1, <2>2
<1>6. x.item = i /\ x.rev = rev /\ x.total = offset + n /\ x.real = real + n
      /\ (x.complete => complete)
  BY DEF SaidRow
<1>7. m > 0 BY <1>1, <1>3
<1>8. Shown(g, m, x) BY <1>3, <1>4, <1>5, <1>6, <1>7, ShownLast
<1> QED BY <1>3, <1>8

\* A buffer follows the history of what was said.
Follows(h, b) == HistoryOK(h, b) /\ RecordsIn(h, b) /\ StatesIn(h, b) /\ PositionsIn(h, b)

LEMMA HistoryGrows ==
  ASSUME NEW b, Content!BufferOK(b), NEW t, Content!BufferOK(t), NEW rs \in Seq(Content!Records),
         Pushes(b, t, rs), NEW h, Follows(h, b), NEW g, Grows(h, g, rs), Linked(g), Content!ConstantsOK
  PROVE  HistoryOK(g, t) /\ RecordsIn(g, t)
<1>1. h \in Said /\ Len(h) = b.seq /\ RecordsIn(h, b) BY DEF Follows, HistoryOK
<1>2. RecordsIn(g, t) /\ Len(g) = t.seq BY <1>1, RecordsGrow
<1>3. g \in Said /\ Len(g) = Len(h) + Len(rs) /\ Prefix(h, g) /\ t.boundary = b.boundary
      /\ Len(h) \in Nat /\ Len(rs) \in Nat /\ b.boundary \in Nat
  BY <1>1 DEF Grows, Pushes, Said, Content!BufferOK, Content!Buffers
<1>4. ASSUME NEW k \in 1..Len(g), g[k] = None PROVE k <= t.boundary
  <2>1. k <= Len(h)
    <3> SUFFICES ASSUME k > Len(h) PROVE FALSE BY <1>3
    <3>1. k - Len(h) \in 1..Len(rs) /\ k = Len(h) + (k - Len(h)) /\ k \in Nat BY <1>3
    <3>2. g[k] \in Content!Records BY <3>1 DEF Grows
    <3> QED BY <1>4, <3>2 DEF Content!ConstantsOK
  <2>2. k \in 1..Len(h) /\ h[k] = None BY <1>3, <1>4, <2>1 DEF Prefix
  <2> QED BY <1>3, <2>2 DEF Follows, HistoryOK
<1>5. b.boundary > 0 => b.boundary \in 1..Len(g) /\ g[b.boundary] = None
  <2>1. b.boundary > 0 => b.boundary \in 1..Len(h) /\ h[b.boundary] = None
    BY DEF Follows, HistoryOK
  <2> QED BY <1>3, <2>1 DEF Prefix
<1> QED BY <1>2, <1>3, <1>4, <1>5 DEF HistoryOK

\* The buffer follows what is said of a text.
LEMMA TextFollows ==
  ASSUME Content!ConstantsOK, Cardinality(Texts) <= MaxPositions,
         NEW b, Content!BufferOK(b), NEW t, Content!BufferOK(t), NEW h, Follows(h, b),
         NEW i \in Texts, NEW op \in {"append", "replace"}, NEW n \in Nat, NEW real \in Nat,
         NEW complete, TextPut(b, t, i, op, n, real, complete)
  PROVE  \E g, rs : /\ Follows(g, t) /\ Grows(h, g, rs) /\ rs \in Seq(Content!Records)
                    /\ Says(rs, i, op, RevisionOf(b, i, op), OffsetOf(b, i, op), n, real, complete)
<1>1. PICK rs, state, pos :
    /\ Says(rs, i, op, RevisionOf(b, i, op), OffsetOf(b, i, op), n, real, complete)
    /\ SaidRow(state, i, RevisionOf(b, i, op), OffsetOf(b, i, op) + n, real + n, complete)
    /\ SaidRow(pos, i, RevisionOf(b, i, op), OffsetOf(b, i, op) + n, real + n, complete)
    /\ Pushes(b, t, rs) /\ Puts(b.states, t.states, state)
    /\ Of(t.positions) = {x \in Of(b.positions) : x.item # i} \cup {pos}
  BY DEF TextPut
<1>2. PICK rev, offset : rev = RevisionOf(b, i, op) /\ offset = OffsetOf(b, i, op) OBVIOUS
<1>3. /\ h \in Said /\ Linked(h) /\ Len(h) \in Nat /\ HistoryOK(h, b) /\ StatesIn(h, b)
      /\ PositionsIn(h, b) /\ b.boundary \in Nat
  BY DEF Follows, HistoryOK, Said, Content!BufferOK, Content!Buffers
<1>4. rs \in Seq(Content!Records)
  <2>1. rs \in Seq(Content!TextRecords) BY <1>1 DEF Says
  <2>2. Content!TextRecords \subseteq Content!Records BY DEF Content!Records
  <2> HIDE DEF Content!TextRecords, Content!Records
  <2> QED BY <2>1, <2>2
<1>5. offset \in Nat
  <2>1. b.states \in Seq(Content!Rows) /\ b.positions \in Seq(Content!TextRows)
    BY DEF Content!BufferOK, Content!Buffers
  <2>2. Content!Prior(b, i) # None => Content!Prior(b, i) \in Content!TextRows BY <2>1, PriorIs
  <2> QED BY <1>2, <2>2 DEF OffsetOf, Content!TextRows, Content!RowsOf
<1>6. PICK g \in Said : Grows(h, g, rs) BY <1>3, <1>4, GrowsIs
<1>7. Says(rs, i, op, rev, offset, n, real, complete)
      /\ SaidRow(state, i, rev, offset + n, real + n, complete)
      /\ SaidRow(pos, i, rev, offset + n, real + n, complete)
  BY <1>1, <1>2, Zenon
<1>8. Linked(g)
  <2>1. ASSUME op = "append", NEW j \in 1..Len(h), LastIn(h, j, i, Len(h))
        PROVE  rev = h[j].rev /\ offset = h[j].offset + h[j].units
    <3>1. LET p == Content!Prior(b, i)
          IN p # None /\ p.rev = h[j].rev /\ p.total = h[j].offset + h[j].units
      BY <1>3, <2>1, LeftAt
    <3> QED BY <1>2, <2>1, <3>1 DEF RevisionOf, OffsetOf
  <2> QED BY <1>3, <1>4, <1>5, <1>6, <1>7, <2>1, TextLinks
<1>9. HistoryOK(g, t) /\ RecordsIn(g, t) BY <1>1, <1>4, <1>6, <1>8, HistoryGrows
<1>10. ASSUME NEW x, SaidRow(x, i, rev, offset + n, real + n, complete)
       PROVE  x.item \in Texts /\ Shown(g, Len(g), x)
  <2>1. Shown(g, Len(g), x) BY <1>3, <1>4, <1>5, <1>6, <1>7, <1>10, SaidLast
  <2>2. x.item = i BY <1>10 DEF SaidRow
  <2> QED BY <2>1, <2>2
<1>11. Prefix(h, g) /\ Len(g) = Len(h) + Len(rs) /\ Len(rs) \in Nat /\ Len(g) \in Nat
  BY <1>3, <1>4, <1>6 DEF Grows
<1>12. \A k \in (Len(h) + 1)..Len(g) : g[k] # None /\ g[k].item = i
  <2> SUFFICES ASSUME NEW k \in (Len(h) + 1)..Len(g) PROVE g[k] # None /\ g[k].item = i OBVIOUS
  <2>1. PICK q \in 1..Len(rs), m \in Nat : m = k /\ m = Len(h) + q
    <3>1. k - Len(h) \in 1..Len(rs) /\ k \in Nat /\ k = Len(h) + (k - Len(h)) BY <1>3, <1>11
    <3> QED BY <3>1
  <2>2. SaidAt(g[m], q, Len(rs), i, op, rev, offset, n, real, complete)
    BY <1>3, <1>4, <1>5, <1>6, <1>7, <2>1, SaysIs
  <2> QED BY <2>1, <2>2 DEF SaidAt
<1>13. ASSUME NEW x, x.item # i, Shown(h, Len(h), x) PROVE Shown(g, Len(g), x)
  <2>1. Len(h) <= Len(g) BY <1>3, <1>11
  <2> QED BY <1>3, <1>6, <1>11, <1>12, <1>13, <2>1, ShownOn
<1>14. StatesIn(g, t)
  <2> SUFFICES ASSUME NEW x \in Of(t.states), x.item \in Texts PROVE Shown(g, Len(g), x)
    BY DEF StatesIn
  <2>1. x = state \/ (x \in Of(b.states) /\ x.item # i)
    <3>1. state.item = i BY <1>7 DEF SaidRow
    <3> QED BY <1>1, <3>1 DEF Puts
  <2>2. CASE x = state BY <1>7, <1>10, <2>2
  <2>3. CASE x \in Of(b.states) /\ x.item # i BY <1>3, <1>13, <2>3 DEF StatesIn
  <2> QED BY <2>1, <2>2, <2>3
<1>15. PositionsIn(g, t)
  <2>1. ASSUME NEW x \in Of(t.positions) PROVE x.item \in Texts /\ Shown(g, Len(g), x)
    <3>1. CASE x = pos BY <1>7, <1>10, <3>1
    <3>2. CASE x \in Of(b.positions) /\ x.item # i BY <1>3, <1>13, <3>2 DEF PositionsIn
    <3> QED BY <1>1, <2>1, <3>1, <3>2
  <2>2. ASSUME NEW k \in 1..Len(g), k > t.boundary, g[k].item \in Texts
        PROVE  \E x \in Of(t.positions) : x.item = g[k].item
    <3>0. pos \in Of(t.positions) /\ pos.item = i BY <1>1, <1>7 DEF SaidRow
    <3>1. CASE g[k].item = i BY <3>0, <3>1
    <3>2. CASE g[k].item # i
      <4>1. k \in 1..Len(h) BY <1>3, <1>11, <1>12, <3>2
      <4>2. g[k] = h[k] /\ k > b.boundary BY <1>1, <1>11, <2>2, <4>1 DEF Prefix, Pushes
      <4>3. PICK x \in Of(b.positions) : x.item = h[k].item BY <1>3, <2>2, <4>1, <4>2 DEF PositionsIn
      <4>4. x \in Of(t.positions) BY <1>1, <3>2, <4>2, <4>3
      <4> QED BY <4>2, <4>3, <4>4
    <3> QED BY <3>1, <3>2
  <2> QED BY <2>1, <2>2 DEF PositionsIn
<1> QED BY <1>1, <1>4, <1>6, <1>9, <1>14, <1>15 DEF Follows

\* And what is said of a request.
LEMMA RequestFollows ==
  ASSUME Content!ConstantsOK, NEW b, Content!BufferOK(b), NEW t, Content!BufferOK(t),
         NEW h, Follows(h, b), NEW i \in Requests, NEW status \in {"requested", "resolved"},
         RequestPut(b, t, i, status)
  PROVE  \E g : /\ Follows(g, t) /\ Prefix(h, g) /\ Len(g) = Len(h) + 1
                /\ g[Len(g)] # None /\ g[Len(g)].item = i
<1>1. PICK rs \in Seq(Content!Records), row \in Content!Rows :
    /\ Len(rs) = 1 /\ rs[1].item = i /\ rs[1].op = status /\ row.item = i
    /\ Pushes(b, t, rs) /\ Puts(b.states, t.states, row) /\ t.positions = b.positions
  BY DEF RequestPut
<1>2. /\ h \in Said /\ Linked(h) /\ Len(h) \in Nat /\ StatesIn(h, b) /\ PositionsIn(h, b)
      /\ i \notin Texts /\ b.boundary \in Nat
  BY DEF Follows, HistoryOK, Said, Content!BufferOK, Content!Buffers, Content!ConstantsOK
<1>3. PICK g \in Said : Grows(h, g, rs) BY <1>2, GrowsIs
<1>4. Prefix(h, g) /\ Len(g) = Len(h) + 1 /\ Len(g) \in Nat BY <1>1, <1>2, <1>3 DEF Grows
<1>5. g[Len(g)] # None /\ g[Len(g)].item = i /\ g[Len(g)].op # "append"
  <2>1. PICK m \in Nat, q \in 1..Len(rs) : m = Len(g) /\ q = 1 /\ m = Len(h) + q BY <1>1, <1>4
  <2>2. g[m] = Stamped(rs[q], m) /\ g[m] \in Content!Records BY <1>3, <2>1 DEF Grows
  <2>3. PICK r \in Content!Records : r = rs[q] OBVIOUS
  <2>4. Stamped(r, m).item = r.item /\ Stamped(r, m).op = r.op BY StampIs
  <2>5. g[m].item = i /\ g[m].op = status BY <1>1, <2>1, <2>2, <2>3, <2>4, Zenon
  <2> QED BY <2>1, <2>2, <2>5 DEF Content!ConstantsOK
<1>6. Linked(g)
  <2>1. \A k \in 1..Len(rs), m \in Nat : m = Len(h) + k => LinkedAt(g, m)
    <3>1. \A k \in 1..Len(rs), m \in Nat : m = Len(h) + k => m = Len(g) BY <1>1, <1>2, <1>4
    <3> QED BY <1>5, <3>1 DEF LinkedAt
  <2> QED BY <1>2, <1>3, <2>1, LinkedGrows
<1>7. HistoryOK(g, t) /\ RecordsIn(g, t) BY <1>1, <1>3, <1>6, HistoryGrows
<1>8. ASSUME NEW x, x.item \in Texts, Shown(h, Len(h), x) PROVE Shown(g, Len(g), x)
  <2>1. \A k \in (Len(h) + 1)..Len(g) : g[k] # None /\ g[k].item # x.item
    <3>1. \A k \in (Len(h) + 1)..Len(g) : k = Len(g) BY <1>2, <1>4
    <3> QED BY <1>2, <1>5, <1>8, <3>1
  <2>2. Len(h) <= Len(g) BY <1>2, <1>4
  <2> QED BY <1>2, <1>3, <1>4, <1>8, <2>1, <2>2, ShownOn
<1>9. StatesIn(g, t) BY <1>1, <1>2, <1>8 DEF StatesIn, Puts
<1>10. PositionsIn(g, t)
  <2>1. \A x \in Of(t.positions) : x.item \in Texts /\ Shown(g, Len(g), x)
    BY <1>1, <1>2, <1>8 DEF PositionsIn
  <2>2. ASSUME NEW k \in 1..Len(g), k > t.boundary, g[k].item \in Texts
        PROVE  \E x \in Of(t.positions) : x.item = g[k].item
    <3>1. k \in 1..Len(h) BY <1>2, <1>4, <1>5, <2>2
    <3>2. g[k] = h[k] /\ k > b.boundary BY <1>1, <1>4, <2>2, <3>1 DEF Prefix, Pushes
    <3> QED BY <1>1, <1>2, <2>2, <3>1, <3>2 DEF PositionsIn
  <2> QED BY <2>1, <2>2 DEF PositionsIn
<1> QED BY <1>4, <1>5, <1>7, <1>9, <1>10 DEF Follows

\* A reset is a number of its own in the history.
LEMMA ResetFollows ==
  ASSUME Content!ConstantsOK, NEW b, Content!BufferOK(b), NEW h, Follows(h, b)
  PROVE  \E g : /\ Follows(g, Content!Reset(b)) /\ Prefix(h, g) /\ Len(g) = Len(h) + 1
                /\ g[Len(g)] = None
<1>1. /\ h \in Said /\ Linked(h) /\ Len(h) \in Nat /\ Len(h) = b.seq
  BY DEF Follows, HistoryOK, Said
<1>2. PICK t : t = Content!Reset(b) OBVIOUS
<1>3. /\ t.seq = b.seq + 1 /\ t.boundary = b.seq + 1 /\ t.records = <<>> /\ t.states = <<>>
      /\ t.positions = <<>>
  BY <1>2, ResetIs
<1>4. PICK g : g = Append(h, None) OBVIOUS
<1>5. /\ g \in Said /\ Len(g) = Len(h) + 1 /\ g[Len(g)] = None
      /\ \A k \in 1..Len(h) : g[k] = h[k]
  BY <1>1, <1>4 DEF Said
<1>6. Prefix(h, g) BY <1>1, <1>5 DEF Prefix
<1>7. Linked(g)
  <2>1. ASSUME NEW k \in 1..Len(g) PROVE LinkedAt(g, k)
    <3>1. CASE k = Len(g) BY <1>5, <3>1 DEF LinkedAt
    <3>2. CASE k # Len(g)
      <4>1. k \in 1..Len(h) /\ k - 1 \in Nat /\ k - 1 <= Len(h) BY <1>1, <1>5, <3>2
      <4>2. LinkedAt(h, k) /\ g[k] = h[k] BY <1>1, <1>5, <4>1 DEF Linked
      <4>3. \A j \in 1..(k - 1) : g[j] = h[j]
        <5>1. \A j \in 1..(k - 1) : j \in 1..Len(h) BY <1>1, <4>1
        <5> QED BY <1>5, <5>1
      <4>4. ASSUME NEW i, NEW j PROVE LastIn(h, j, i, k - 1) <=> LastIn(g, j, i, k - 1)
        <5>1. PICK m \in Nat : m = k - 1 /\ m <= Len(h) BY <4>1
        <5>2. LastIn(h, j, i, m) <=> LastIn(g, j, i, m) BY <1>1, <1>5, <1>6, <5>1, LastStays
        <5> QED BY <5>1, <5>2
      <4> QED BY <4>2, <4>3, <4>4 DEF LinkedAt
    <3> QED BY <3>1, <3>2
  <2> QED BY <2>1 DEF Linked
<1>8. HistoryOK(g, t)
  <2>1. \A k \in 1..Len(g) : k <= t.boundary BY <1>1, <1>3, <1>5
  <2>2. t.boundary = Len(g) /\ t.boundary \in 1..Len(g) /\ Len(g) = t.seq BY <1>1, <1>3, <1>5
  <2> QED BY <1>5, <1>7, <2>1, <2>2 DEF HistoryOK
<1>9. RecordsIn(g, t) /\ StatesIn(g, t) /\ PositionsIn(g, t)
  <2>1. \A k \in 1..Len(g) : ~(k > t.boundary) BY <1>1, <1>3, <1>5
  <2> QED BY <1>3, <2>1 DEF RecordsIn, StatesIn, PositionsIn, Of
<1> QED BY <1>2, <1>5, <1>6, <1>8, <1>9 DEF Follows

LEMMA EmptyFollows ==
  ASSUME Content!ConstantsOK, NEW g \in 1..MaxGenerations
  PROVE  Follows(<<>>, Content!Empty(g))
<1>1. PICK b : b = Content!Empty(g) OBVIOUS
<1>2. /\ b.seq = 0 /\ b.boundary = 0 /\ b.records = <<>> /\ b.states = <<>> /\ b.positions = <<>>
  BY <1>1 DEF Content!Empty
<1>3. PICK h : h = <<>> OBVIOUS
<1>4. h \in Said /\ Len(h) = 0 BY <1>3 DEF Said
<1>5. HistoryOK(h, b) BY <1>2, <1>4 DEF HistoryOK, Linked
<1>6. RecordsIn(h, b) /\ StatesIn(h, b) /\ PositionsIn(h, b)
  BY <1>2, <1>4 DEF RecordsIn, StatesIn, PositionsIn, Of
<1> QED BY <1>1, <1>3, <1>5, <1>6 DEF Follows

\* What was said since the last reset is the text the provider produced, up to
\* all of it, and what is complete is whole.
UnitsTrue(h, b, nat) ==
  \A k \in 1..Len(h) : k > b.boundary /\ h[k].item \in Texts =>
    /\ h[k].real = h[k].offset
    /\ h[k].offset + h[k].units <= nat[h[k].item].units
    /\ (h[k].complete => nat[h[k].item].done /\ h[k].offset + h[k].units = nat[h[k].item].units)
\* A text that was produced was said, to its end.
EndsTrue(h, nat) ==
  \A i \in Texts :
    /\ \A j \in 1..Len(h) : LastIn(h, j, i, Len(h)) => h[j].offset + h[j].units = nat[i].units
    /\ nat[i].units # 0 \/ nat[i].done => \E j \in 1..Len(h) : LastIn(h, j, i, Len(h))
DoneKnown(b, nat) == \A x \in Of(b.positions) : x.complete = nat[x.item].done
TextTrue(h, b, nat) == UnitsTrue(h, b, nat) /\ EndsTrue(h, nat) /\ DoneKnown(b, nat)

\* A position of what was said of no item but one is where it was.
LEMMA LastOther ==
  ASSUME NEW h \in Said, NEW g \in Said, Prefix(h, g), NEW i,
         \A k \in (Len(h) + 1)..Len(g) : g[k] # None /\ g[k].item = i, NEW u, u # i, NEW j
  PROVE  LastIn(g, j, u, Len(g)) <=> LastIn(h, j, u, Len(h))
<1>1. Len(h) \in Nat /\ Len(g) \in Nat /\ Len(h) <= Len(g) BY DEF Said, Prefix
<1>2. LastIn(h, j, u, Len(h)) <=> LastIn(g, j, u, Len(h)) BY <1>1, LastStays
<1>3. ASSUME LastIn(g, j, u, Len(g)) PROVE LastIn(g, j, u, Len(h))
  <2>1. j \in 1..Len(g) /\ g[j].item = u BY <1>3 DEF LastIn
  <2>2. j \in 1..Len(h)
    <3> SUFFICES ASSUME j > Len(h) PROVE FALSE BY <1>1, <2>1
    <3>1. j \in (Len(h) + 1)..Len(g) BY <1>1, <2>1
    <3> QED BY <2>1, <3>1
  <2>3. \A k \in (j + 1)..Len(h) : k \in (j + 1)..Len(g) BY <1>1, <2>2
  <2> QED BY <1>3, <2>2, <2>3 DEF LastIn
<1>4. ASSUME LastIn(g, j, u, Len(h)) PROVE LastIn(g, j, u, Len(g))
  <2>1. j \in 1..Len(h) BY <1>4 DEF LastIn
  <2>2. j \in 1..Len(g) BY <1>1, <2>1
  <2>3. \A k \in (j + 1)..Len(g) : k \in (j + 1)..Len(h) \/ k \in (Len(h) + 1)..Len(g)
    BY <1>1, <2>1
  <2> QED BY <1>4, <2>2, <2>3 DEF LastIn
<1> QED BY <1>2, <1>3, <1>4

\* What the buffer knows of a text is where the provider is.
LEMMA PriorTrue ==
  ASSUME Content!ConstantsOK, NEW b, Content!BufferOK(b), NEW h, Follows(h, b), NEW nat,
         TextTrue(h, b, nat), NEW i \in Texts, nat[i].units \in Nat
  PROVE  /\ OffsetOf(b, i, "append") = nat[i].units
         /\ Content!Prior(b, i) # None /\ Content!Prior(b, i).complete => nat[i].done
         /\ Content!Has(b.positions, i) => Content!Row(b.positions, i).complete = nat[i].done
         /\ nat[i].done => Content!Prior(b, i) # None /\ Content!Has(b.positions, i)
<1>1. /\ b.states \in Seq(Content!Rows) /\ b.positions \in Seq(Content!TextRows)
      /\ HistoryOK(h, b) /\ StatesIn(h, b) /\ PositionsIn(h, b) /\ h \in Said /\ Len(h) \in Nat
      /\ b.boundary \in Nat
  BY DEF Content!BufferOK, Content!Buffers, Follows, HistoryOK, Said
<1> DEFINE p == Content!Prior(b, i)
<1>2. ASSUME NEW j \in 1..Len(h), LastIn(h, j, i, Len(h))
      PROVE  /\ p # None /\ p.total = nat[i].units /\ (p.complete => h[j].complete)
  <2>1. /\ p # None /\ p.total = h[j].offset + h[j].units /\ (p.complete => h[j].complete)
    BY <1>1, <1>2, LeftAt
  <2> QED BY <1>2, <2>1 DEF TextTrue, EndsTrue
<1>3. ASSUME NEW x \in Of(b.states) \cup Of(b.positions), x.item = i
      PROVE  \E j \in 1..Len(h) : LastIn(h, j, i, Len(h))
  <2>1. Shown(h, Len(h), x) BY <1>1, <1>3 DEF StatesIn, PositionsIn
  <2> QED BY <1>3, <2>1 DEF Shown
<1>4. p # None => \E j \in 1..Len(h) : LastIn(h, j, i, Len(h))
  <2>1. p # None => \E x \in Of(b.states) \cup Of(b.positions) : x.item = i BY <1>1, PriorIs
  <2> QED BY <1>3, <2>1
<1> HIDE DEF p
<1>5. ASSUME NEW j \in 1..Len(h), LastIn(h, j, i, Len(h))
      PROVE  j > b.boundary /\ h[j].item = i
  <2>1. b.boundary <= Len(h) BY <1>1 DEF HistoryOK
  <2> QED BY <1>1, <1>5, <2>1, LastSince
<1>6. OffsetOf(b, i, "append") = nat[i].units
  <2>1. OffsetOf(b, i, "append") = IF p = None THEN 0 ELSE p.total BY DEF OffsetOf, p
  <2>2. CASE p # None BY <1>2, <1>4, <2>1, <2>2
  <2>3. CASE p = None
    <3>1. nat[i].units = 0 BY <1>2, <2>3 DEF TextTrue, EndsTrue
    <3> QED BY <2>1, <2>3, <3>1
  <2> QED BY <2>2, <2>3
<1>7. p # None /\ p.complete => nat[i].done
  <2> SUFFICES ASSUME p # None, p.complete PROVE nat[i].done OBVIOUS
  <2>1. PICK j \in 1..Len(h) : LastIn(h, j, i, Len(h)) BY <1>4
  <2>2. h[j].complete /\ j > b.boundary /\ h[j].item = i BY <1>2, <1>5, <2>1
  <2> QED BY <2>2 DEF TextTrue, UnitsTrue
<1>8. Content!Has(b.positions, i) => Content!Row(b.positions, i).complete = nat[i].done
  <2> SUFFICES ASSUME Content!Has(b.positions, i)
               PROVE  Content!Row(b.positions, i).complete = nat[i].done
    OBVIOUS
  <2>1. PICK x : x = Content!Row(b.positions, i) OBVIOUS
  <2>2. x \in Of(b.positions) /\ x.item = i BY <1>1, <2>1, RowIs
  <2>3. x.complete = nat[i].done BY <2>2 DEF TextTrue, DoneKnown
  <2> QED BY <2>1, <2>3
<1>9. nat[i].done => p # None /\ Content!Has(b.positions, i)
  <2> SUFFICES ASSUME nat[i].done PROVE p # None /\ Content!Has(b.positions, i) OBVIOUS
  <2>1. PICK j \in 1..Len(h) : LastIn(h, j, i, Len(h)) BY DEF TextTrue, EndsTrue
  <2>2. p # None BY <1>2, <2>1
  <2>3. j > b.boundary /\ h[j].item = i BY <1>5, <2>1
  <2>4. \E x \in Of(b.positions) : x.item = i BY <1>1, <2>3 DEF PositionsIn
  <2> QED BY <1>1, <2>2, <2>4, HasIs
<1> QED BY <1>6, <1>7, <1>8, <1>9 DEF p

\* The provider has gone on with one text.
GoesOn(nat, new, i, units, done) ==
  /\ new[i].units = units /\ new[i].done = done
  /\ nat[i].units <= units /\ (nat[i].done => done /\ nat[i].units = units)
  /\ \A j \in Texts : j # i => new[j].units = nat[j].units /\ new[j].done = nat[j].done

\* The number of every record is a number.
LEMMA SaidNumbers ==
  ASSUME NEW h \in Said, NEW k \in 1..Len(h), h[k] # None
  PROVE  /\ h[k] \in Content!Records /\ h[k].offset \in Nat /\ h[k].units \in Nat
         /\ h[k].real \in Nat
<1>1. h[k] \in Content!Records BY DEF Said
<1> QED BY <1>1 DEF Content!Records, Content!TextRecords, Content!RecordsOf

LEMMA TextSpoken ==
  ASSUME Content!ConstantsOK, Cardinality(Texts) <= MaxPositions,
         NEW b, Content!BufferOK(b), NEW t, NEW h, Follows(h, b), NEW nat, TextTrue(h, b, nat),
         NEW i \in Texts, NEW op \in {"append", "replace"}, NEW n \in Nat, NEW real \in Nat,
         NEW complete, TextPut(b, t, i, op, n, real, complete),
         NEW offset \in Nat, offset = real, OffsetOf(b, i, op) = offset,
         NEW g, Follows(g, t), NEW rs \in Seq(Content!Records), Grows(h, g, rs),
         Says(rs, i, op, RevisionOf(b, i, op), OffsetOf(b, i, op), n, real, complete),
         \A j \in Texts : nat[j].units \in Nat,
         NEW new, GoesOn(nat, new, i, offset + n, complete), complete => new[i].done
  PROVE  TextTrue(g, t, new)
<1>1. /\ h \in Said /\ Len(h) \in Nat /\ Len(rs) \in Nat /\ g \in Said /\ Prefix(h, g)
      /\ Len(g) = Len(h) + Len(rs) /\ b.boundary \in Nat /\ t.boundary = b.boundary
      /\ Len(g) \in Nat /\ HistoryOK(h, b)
  BY DEF Follows, HistoryOK, Said, Grows, Content!BufferOK, Content!Buffers, TextPut, Pushes
<1>2. PICK rev : rev = RevisionOf(b, i, op) OBVIOUS
<1>3. Says(rs, i, op, rev, offset, n, real, complete) BY <1>2, Zenon
<1>4. Len(rs) \in 1..Len(rs) /\ Len(rs) = IF n = 0 THEN 1 ELSE n BY <1>1, <1>3 DEF Says
<1>5. ASSUME NEW m \in 1..Len(g), m > Len(h)
      PROVE  /\ g[m] # None /\ g[m].item = i /\ g[m].real = g[m].offset
             /\ g[m].offset + g[m].units <= offset + n
             /\ g[m].complete => complete /\ g[m].offset + g[m].units = offset + n
             /\ m = Len(g) => g[m].offset + g[m].units = offset + n
  <2>1. PICK k \in 1..Len(rs), q \in Nat : q = m /\ q = Len(h) + k
    <3>1. m - Len(h) \in 1..Len(rs) /\ m \in Nat /\ m = Len(h) + (m - Len(h)) BY <1>1, <1>5
    <3> QED BY <3>1
  <2>2. SaidAt(g[q], k, Len(rs), i, op, rev, offset, n, real, complete)
    BY <1>1, <1>3, <2>1, SaysIs
  <2>3. /\ g[m] # None /\ g[m].item = i /\ g[m].offset = offset + k - 1
        /\ g[m].real = real + k - 1 /\ g[m].units = (IF n = 0 THEN 0 ELSE 1)
        /\ (g[m].complete => complete /\ k = Len(rs))
    BY <2>1, <2>2 DEF SaidAt
  <2>4. k \in Nat /\ k >= 1 /\ k <= Len(rs) /\ (m = Len(g) => k = Len(rs)) BY <1>1, <2>1
  <2>5. g[m].real = g[m].offset BY <2>3
  <2>6. CASE n = 0
    <3>1. k = 1 /\ Len(rs) = 1 BY <1>4, <2>4, <2>6
    <3>2. g[m].offset + g[m].units = offset + n BY <2>3, <2>6, <3>1
    <3> QED BY <2>3, <2>5, <2>6, <3>2
  <2>7. CASE n # 0
    <3>1. Len(rs) = n BY <1>4, <2>7
    <3>2. g[m].offset + g[m].units = offset + k BY <2>3, <2>4, <2>7
    <3>3. offset + k <= offset + n /\ (k = Len(rs) => offset + k = offset + n) BY <2>4, <3>1
    <3> QED BY <2>3, <2>4, <2>5, <3>2, <3>3
  <2> QED BY <2>6, <2>7
<1>6. ASSUME NEW m \in 1..Len(g), ~(m > Len(h)) PROVE m \in 1..Len(h) /\ g[m] = h[m]
  <2>1. m \in 1..Len(h) BY <1>1, <1>6
  <2> QED BY <1>1, <2>1 DEF Prefix
<1>7. /\ new[i].units = offset + n /\ new[i].done = complete
      /\ nat[i].units <= offset + n /\ (nat[i].done => complete /\ nat[i].units = offset + n)
      /\ \A j \in Texts : j # i => new[j].units = nat[j].units /\ new[j].done = nat[j].done
      /\ UnitsTrue(h, b, nat) /\ EndsTrue(h, nat) /\ DoneKnown(b, nat)
      /\ \A j \in Texts : nat[j].units \in Nat
  BY DEF GoesOn, TextTrue
<1>8. UnitsTrue(g, t, new)
  <2> SUFFICES ASSUME NEW m \in 1..Len(g), m > t.boundary, g[m].item \in Texts
               PROVE  /\ g[m].real = g[m].offset
                      /\ g[m].offset + g[m].units <= new[g[m].item].units
                      /\ (g[m].complete => new[g[m].item].done
                             /\ g[m].offset + g[m].units = new[g[m].item].units)
    BY DEF UnitsTrue
  <2>1. CASE m > Len(h) BY <1>5, <1>7, <2>1
  <2>2. CASE ~(m > Len(h))
    <3>1. m \in 1..Len(h) /\ g[m] = h[m] /\ m > b.boundary BY <1>1, <1>6, <2>2
    <3>2. /\ h[m].real = h[m].offset /\ h[m].offset + h[m].units <= nat[h[m].item].units
          /\ (h[m].complete => nat[h[m].item].done
                 /\ h[m].offset + h[m].units = nat[h[m].item].units)
      BY <1>7, <3>1 DEF UnitsTrue
    <3>3. h[m] # None BY <1>1, <3>1 DEF HistoryOK
    <3>4. h[m].offset \in Nat /\ h[m].units \in Nat BY <1>1, <3>1, <3>3, SaidNumbers
    <3>5. CASE h[m].item = i
      <4>1. h[m].offset + h[m].units <= offset + n BY <1>7, <3>2, <3>4, <3>5
      <4> QED BY <1>7, <3>1, <3>2, <3>5, <4>1
    <3>6. CASE h[m].item # i BY <1>7, <3>1, <3>2, <3>6
    <3> QED BY <3>5, <3>6
  <2> QED BY <2>1, <2>2
<1>9. EndsTrue(g, new)
  <2>1. \A k \in (Len(h) + 1)..Len(g) : g[k] # None /\ g[k].item = i
    <3>1. \A k \in (Len(h) + 1)..Len(g) : k \in 1..Len(g) /\ k > Len(h) BY <1>1
    <3> QED BY <1>5, <3>1
  <2>2. Len(g) \in 1..Len(g) /\ Len(g) > Len(h) BY <1>1, <1>4
  <2>3. LastIn(g, Len(g), i, Len(g))
    <3>1. \A j \in (Len(g) + 1)..Len(g) : FALSE BY <1>1
    <3> QED BY <1>5, <2>2, <3>1 DEF LastIn
  <2>4. \A j \in 1..Len(g) : LastIn(g, j, i, Len(g)) => g[j].offset + g[j].units = new[i].units
    <3>1. \A j : LastIn(g, j, i, Len(g)) => j = Len(g) BY <1>1, <2>3, LastOne
    <3> QED BY <1>5, <1>7, <2>2, <3>1
  <2>5. ASSUME NEW u \in Texts, u # i
        PROVE  /\ \A j \in 1..Len(g) : LastIn(g, j, u, Len(g)) => g[j].offset + g[j].units = new[u].units
               /\ new[u].units # 0 \/ new[u].done => \E j \in 1..Len(g) : LastIn(g, j, u, Len(g))
    <3>1. \A j : LastIn(g, j, u, Len(g)) <=> LastIn(h, j, u, Len(h)) BY <1>1, <2>1, <2>5, LastOther
    <3>2. \A j : LastIn(h, j, u, Len(h)) => j \in 1..Len(h) BY DEF LastIn
    <3>3. \A j \in 1..Len(h) : j \in 1..Len(g) /\ g[j] = h[j] BY <1>1 DEF Prefix
    <3>4. /\ \A j \in 1..Len(h) : LastIn(h, j, u, Len(h)) => h[j].offset + h[j].units = nat[u].units
          /\ nat[u].units # 0 \/ nat[u].done => \E j \in 1..Len(h) : LastIn(h, j, u, Len(h))
      BY <1>7 DEF EndsTrue
    <3>5. new[u].units = nat[u].units /\ new[u].done = nat[u].done BY <1>7, <2>5
    <3> QED BY <3>1, <3>2, <3>3, <3>4, <3>5
  <2> QED BY <2>2, <2>3, <2>4, <2>5 DEF EndsTrue
<1>10. DoneKnown(t, new)
  <2>1. PICK pos : /\ pos.item = i /\ pos.complete = complete
                   /\ Of(t.positions) = {x \in Of(b.positions) : x.item # i} \cup {pos}
    BY DEF TextPut, SaidRow
  <2>2. \A x \in Of(b.positions) : x.item \in Texts BY DEF Follows, PositionsIn
  <2> QED BY <1>7, <2>1, <2>2 DEF DoneKnown
<1> QED BY <1>8, <1>9, <1>10 DEF TextTrue

\* What is said of a request says nothing of a text.
LEMMA RequestSpoken ==
  ASSUME Content!ConstantsOK, NEW b, Content!BufferOK(b), NEW t, NEW h, Follows(h, b),
         NEW nat, TextTrue(h, b, nat), NEW i \in Requests, NEW status, RequestPut(b, t, i, status),
         NEW g, Follows(g, t), Prefix(h, g), Len(g) = Len(h) + 1,
         g[Len(g)] # None, g[Len(g)].item = i,
         NEW new, \A j \in Texts : new[j].units = nat[j].units /\ new[j].done = nat[j].done
  PROVE  TextTrue(g, t, new)
<1>1. /\ h \in Said /\ Len(h) \in Nat /\ g \in Said /\ Len(g) \in Nat /\ i \notin Texts
      /\ t.boundary = b.boundary /\ t.positions = b.positions /\ b.boundary \in Nat
      /\ UnitsTrue(h, b, nat) /\ EndsTrue(h, nat) /\ DoneKnown(b, nat)
  BY DEF Follows, HistoryOK, Said, RequestPut, Pushes, Content!ConstantsOK, TextTrue,
         Content!BufferOK, Content!Buffers
<1>2. \A k \in 1..Len(h) : k \in 1..Len(g) /\ g[k] = h[k] BY <1>1 DEF Prefix
<1>3. UnitsTrue(g, t, new)
  <2> SUFFICES ASSUME NEW m \in 1..Len(g), m > t.boundary, g[m].item \in Texts
               PROVE  /\ g[m].real = g[m].offset
                      /\ g[m].offset + g[m].units <= new[g[m].item].units
                      /\ (g[m].complete => new[g[m].item].done
                             /\ g[m].offset + g[m].units = new[g[m].item].units)
    BY DEF UnitsTrue
  <2>1. m \in 1..Len(h) BY <1>1
  <2>2. g[m] = h[m] /\ m > b.boundary BY <1>1, <1>2, <2>1
  <2> QED BY <1>1, <2>1, <2>2 DEF UnitsTrue
<1>4. EndsTrue(g, new)
  <2>1. \A k \in (Len(h) + 1)..Len(g) : g[k] # None /\ g[k].item = i
    <3>1. \A k \in (Len(h) + 1)..Len(g) : k = Len(g) BY <1>1
    <3> QED BY <3>1
  <2>2. ASSUME NEW u \in Texts
        PROVE  \A j : LastIn(g, j, u, Len(g)) <=> LastIn(h, j, u, Len(h))
    <3>1. u # i /\ h \in Said /\ g \in Said /\ Prefix(h, g) BY <1>1
    <3> QED BY <2>1, <3>1, LastOther
  <2>3. \A u, j : LastIn(h, j, u, Len(h)) => j \in 1..Len(h) BY DEF LastIn
  <2> QED BY <1>1, <1>2, <2>2, <2>3 DEF EndsTrue
<1>5. DoneKnown(t, new)
  <2>1. \A x \in Of(b.positions) : x.item \in Texts BY DEF Follows, PositionsIn
  <2> QED BY <1>1, <2>1 DEF DoneKnown
<1> QED BY <1>3, <1>4, <1>5 DEF TextTrue

\* After a reset there is nothing to be true of.
LEMMA FreshTrue ==
  ASSUME NEW g, NEW t, t.positions = <<>>, t.boundary \in Nat, Len(g) \in Nat, t.boundary = Len(g),
         Len(g) = 0 \/ g[Len(g)] = None
  PROVE  TextTrue(g, t, Content!Fresh)
<1>1. \A i \in Texts : Content!Fresh[i].units = 0 /\ ~Content!Fresh[i].done
  BY DEF Content!Fresh, Content!Items
<1>2. ASSUME NEW i, NEW j \in 1..Len(g), LastIn(g, j, i, Len(g)) PROVE FALSE
  <2>1. Len(g) # 0 /\ g[Len(g)] = None /\ g[j] # None BY <1>2 DEF LastIn
  <2>2. j # Len(g) BY <2>1
  <2>3. Len(g) \in (j + 1)..Len(g) BY <2>2
  <2> QED BY <1>2, <2>1, <2>3 DEF LastIn
<1>3. UnitsTrue(g, t, Content!Fresh)
  <2>1. \A k \in 1..Len(g) : ~(k > t.boundary) OBVIOUS
  <2> QED BY <2>1 DEF UnitsTrue
<1>4. EndsTrue(g, Content!Fresh) BY <1>1, <1>2 DEF EndsTrue
<1>5. DoneKnown(t, Content!Fresh) BY DEF DoneKnown, Of
<1> QED BY <1>3, <1>4, <1>5 DEF TextTrue

\* What was written, and what was read, stays of the history when more is said.
LEMMA CopiedStays ==
  ASSUME NEW h \in Said, NEW g \in Said, Prefix(h, g), NEW f \in Content!Snapshots, Copied(h, f)
  PROVE  Copied(g, f)
<1>1. /\ f.seq \in Nat /\ f.dropped \in Nat /\ Len(f.records) \in Nat /\ f.seq <= Len(h)
      /\ f.dropped + Len(f.records) = f.seq /\ Len(h) \in Nat /\ Len(g) \in Nat /\ Len(h) <= Len(g)
  BY DEF Content!Snapshots, Copied, Said, Prefix
<1>2. ASSUME NEW k \in 1..Len(f.records), NEW n \in Nat, n = f.dropped + k
      PROVE  f.records[k] = g[n] /\ f.records[k].seq = n
  <2>1. f.records[k] = h[n] /\ f.records[k].seq = n BY <1>2 DEF Copied
  <2>2. n \in 1..Len(h) BY <1>1, <1>2
  <2> QED BY <2>1, <2>2 DEF Prefix
<1>3. \A x \in Of(f.baseline) : x.item \in Texts => Shown(g, f.seq, x)
  BY <1>1, ShownStays DEF Copied
<1> QED BY <1>1, <1>2, <1>3 DEF Copied

LEMMA CursorStays ==
  ASSUME NEW h \in Said, NEW g \in Said, Prefix(h, g), NEW r \in Readers, NEW q, ReaderOK(h, r, q)
  PROVE  ReaderOK(g, r, q)
<1>1. CASE r.cur # None /\ r.cur.gen = q
  <2>1. r.cur.seq <= Len(h) /\ (\A x \in r.seen : x.item \in Texts => Shown(h, r.cur.seq, x))
    BY <1>1 DEF ReaderOK
  <2>2. r.cur.seq \in Nat /\ Len(h) \in Nat /\ Len(g) \in Nat /\ Len(h) <= Len(g)
    BY <1>1 DEF Readers, Content!Cursors, Said, Prefix
  <2>3. PICK m \in Nat : m = r.cur.seq BY <2>2
  <2>4. \A x \in r.seen : x.item \in Texts => Shown(g, m, x) BY <2>1, <2>2, <2>3, ShownStays
  <2>5. r.cur.seq <= Len(g) BY <2>1, <2>2
  <2> QED BY <2>3, <2>4, <2>5 DEF ReaderOK
<1>2. CASE ~(r.cur # None /\ r.cur.gen = q) BY <1>2 DEF ReaderOK
<1> QED BY <1>1, <1>2

LEMMA SnapshotCopied ==
  ASSUME NEW b, Content!BufferOK(b), NEW h, Follows(h, b)
  PROVE  Copied(h, Content!Snapshot(b))
<1>1. PICK f : f = Content!Snapshot(b) OBVIOUS
<1>2. /\ f.seq = b.seq /\ f.dropped = b.dropped /\ f.records = b.records /\ f.baseline = b.states
  BY <1>1, SnapshotIs DEF Content!BufferOK
<1>3. /\ b.seq \in Nat /\ b.dropped + Len(b.records) = b.seq /\ Len(h) = b.seq
      /\ \A k \in 1..Len(b.records) : b.records[k].seq = b.dropped + k
      /\ RecordsIn(h, b) /\ StatesIn(h, b)
  BY DEF Content!BufferOK, Content!Buffers, Content!Numbered, Follows, HistoryOK
<1>4. \A k \in 1..Len(b.records), n \in Nat : n = b.dropped + k =>
         b.records[k] = h[n] /\ b.records[k].seq = n
  BY <1>3 DEF RecordsIn
<1>5. f.seq <= Len(h) BY <1>2, <1>3
<1>6. f.dropped + Len(f.records) = f.seq BY <1>2, <1>3
<1>7. \A x \in Of(f.baseline) : x.item \in Texts => Shown(h, f.seq, x)
  BY <1>2, <1>3 DEF StatesIn
<1>8. Copied(h, f) BY <1>2, <1>4, <1>5, <1>6, <1>7 DEF Copied
<1> QED BY <1>1, <1>8

\* Applying records leaves the cursor.
LEMMA ApplyStays ==
  ASSUME NEW r \in Readers, NEW rec \in Content!Records
  PROVE  Content!Apply(r, rec).cur = r.cur
<1> DEFINE held == {x \in r.seen : x.item = rec.item}
           new == [item |-> rec.item, rev |-> rec.rev, from |-> rec.offset,
              total |-> rec.offset + rec.units, real |-> rec.real + rec.units,
              complete |-> rec.complete /\ rec.known,
              status |-> IF rec.item \in Texts THEN "text" ELSE rec.op]
           x == CHOOSE x \in held : TRUE
           y == [x EXCEPT !.total = @ + rec.units, !.real = rec.real + rec.units, !.complete = rec.complete]
<1>1. CASE held = {} \/ rec.op # "append"
  <2>1. Content!Apply(r, rec) = [r EXCEPT !.seen = (r.seen \ held) \cup {new}]
    BY <1>1, Zenon DEF Content!Apply
  <2> HIDE DEF held, new
  <2> QED BY <2>1 DEF Readers
<1>2. CASE ~(held = {} \/ rec.op # "append")
  <2>1. Content!Apply(r, rec) = [r EXCEPT !.seen = (r.seen \ held) \cup {y},
               !.broken = r.broken \/ x.rev # rec.rev \/ x.total # rec.offset]
    BY <1>2, Zenon DEF Content!Apply
  <2> HIDE DEF held, x, y
  <2> QED BY <2>1 DEF Readers
<1> QED BY <1>1, <1>2

LEMMA AppliedStays ==
  ASSUME NEW r \in Readers, NEW rs \in Seq(Content!Records), NEW after \in Nat
  PROVE  Content!Applied(r, rs, after) \in Readers /\ Content!Applied(r, rs, after).cur = r.cur
<1>1. PICK f \in [0..Len(rs) -> Readers] :
           /\ Content!Applied(r, rs, after) = f[Len(rs)] /\ f[0] = r
           /\ \A k \in 1..Len(rs) :
                f[k] = IF rs[k].seq > after THEN Content!Apply(f[k - 1], rs[k]) ELSE f[k - 1]
  BY AppliedRecords, ZenonT(40)
<1> DEFINE S == {k \in Nat : k <= Len(rs) => f[k].cur = r.cur}
<1>2. 0 \in S BY <1>1
<1>3. ASSUME NEW k \in Nat, k \in S PROVE k + 1 \in S
  <2> SUFFICES ASSUME k + 1 <= Len(rs) PROVE f[k + 1].cur = r.cur OBVIOUS
  <2>1. k + 1 \in 1..Len(rs) /\ (k + 1) - 1 = k /\ k \in 0..Len(rs) /\ k <= Len(rs) OBVIOUS
  <2>2. f[k + 1] = IF rs[k + 1].seq > after THEN Content!Apply(f[k], rs[k + 1]) ELSE f[k]
    BY <1>1, <2>1
  <2>3. f[k] \in Readers /\ rs[k + 1] \in Content!Records /\ f[k].cur = r.cur BY <1>3, <2>1
  <2>4. Content!Apply(f[k], rs[k + 1]).cur = f[k].cur BY <2>3, ApplyStays
  <2> QED BY <2>2, <2>3, <2>4
<1>4. Nat \subseteq S
  <2> HIDE DEF S
  <2> QED BY <1>2, <1>3, SetInduction
<1>5. Len(rs) \in Nat /\ Len(rs) \in 0..Len(rs) OBVIOUS
<1>6. f[Len(rs)].cur = r.cur /\ f[Len(rs)] \in Readers BY <1>4, <1>5
<1> QED BY <1>1, <1>6

\* What a frame makes of a reader.
ReadOf(r, f, out) ==
  LET moved == [r EXCEPT !.cur = [gen |-> f.gen, seq |-> f.seq]]
  IN out = IF Content!contentReset(f, r.cur) = "none"
           THEN Content!Applied(moved, f.records, r.cur.seq)
           ELSE [moved EXCEPT !.seen = Content!Baseline(f)]
\* What a reader has after a frame is what was said, up to its new cursor.
LEMMA ReadShows ==
  ASSUME Content!ConstantsOK, NEW h \in Said, Linked(h), NEW f \in Content!Snapshots, Copied(h, f),
         NEW r \in Readers, NEW gen, f.gen = gen, ReaderOK(h, r, gen),
         NEW out, ReadOf(r, f, out)
  PROVE  /\ ReaderOK(h, out, gen)
         /\ out.cur # None /\ out.cur.gen = gen /\ out.cur.seq = f.seq
<1>0. PICK moved : /\ moved = [r EXCEPT !.cur = [gen |-> f.gen, seq |-> f.seq]]
                   /\ out = IF Content!contentReset(f, r.cur) = "none"
                            THEN Content!Applied(moved, f.records, r.cur.seq)
                            ELSE [moved EXCEPT !.seen = Content!Baseline(f)]
  BY DEF ReadOf
<1>1. /\ f.seq \in Nat /\ f.dropped \in Nat /\ f.records \in Seq(Content!Records)
      /\ f.baseline \in Seq(Content!Rows) /\ Len(h) \in Nat /\ f.seq <= Len(h)
      /\ Len(f.records) \in Nat /\ f.dropped + Len(f.records) = f.seq
  BY DEF Content!Snapshots, Copied, Said
<1>2. PICK c \in Content!Cursors : c = [gen |-> f.gen, seq |-> f.seq]
  BY DEF Content!Cursors, Content!Snapshots
<1>3. c # None /\ c.gen = gen /\ c.seq = f.seq BY <1>2 DEF Content!ConstantsOK
<1>4. moved \in Readers /\ moved.cur = c /\ moved.seen = r.seen /\ moved.broken = r.broken
  BY <1>0, <1>2 DEF Readers
<1>5. ~r.broken BY DEF ReaderOK
<1>6. ASSUME out.cur = c, ReaderShows(h, f.seq, out)
      PROVE  /\ ReaderOK(h, out, gen)
             /\ out.cur # None /\ out.cur.gen = gen /\ out.cur.seq = f.seq
  <2>1. out.cur # None /\ out.cur.gen = gen /\ out.cur.seq = f.seq BY <1>3, <1>6
  <2>2. ~out.broken /\ \A x \in out.seen : x.item \in Texts => Shown(h, f.seq, x)
    BY <1>6 DEF ReaderShows
  <2> QED BY <1>1, <2>1, <2>2 DEF ReaderOK
<1>7. CASE Content!contentReset(f, r.cur) = "none"
  <2>1. /\ r.cur # None /\ r.cur.gen = f.gen
        /\ ~(r.cur.seq < f.dropped) /\ ~(r.cur.seq > f.seq)
    BY <1>7 DEF Content!contentReset
  <2>2. r.cur.seq \in Nat BY <2>1 DEF Readers, Content!Cursors
  <2>3. PICK m \in Nat, rs \in Seq(Content!Records), d \in Nat :
          m = r.cur.seq /\ rs = f.records /\ d = f.dropped
    BY <1>1, <2>2
  <2>4. d <= m /\ m <= d + Len(rs) /\ d + Len(rs) <= Len(h) /\ d + Len(rs) = f.seq
    BY <1>1, <2>1, <2>3
  <2>5. \A k \in 1..Len(rs), n \in Nat : n = d + k => rs[k] = h[n] /\ rs[k].seq = n
    BY <2>3 DEF Copied
  <2>6. ReaderShows(h, m, moved) BY <1>4, <1>5, <2>1, <2>3 DEF ReaderOK, ReaderShows
  <2>7. out = Content!Applied(moved, rs, m) BY <1>0, <1>7, <2>3
  <2>8. ReaderShows(h, d + Len(rs), Content!Applied(moved, rs, m))
    BY <1>4, <2>4, <2>5, <2>6, ServedShows, Zenon
  <2>9. Content!Applied(moved, rs, m).cur = moved.cur BY <1>4, AppliedStays, Zenon
  <2>10. ReaderShows(h, f.seq, out) /\ out.cur = c BY <1>4, <2>4, <2>7, <2>8, <2>9, Zenon
  <2> QED BY <1>6, <2>10
<1>8. CASE Content!contentReset(f, r.cur) # "none"
  <2>1. out.cur = c /\ out.seen = Content!Baseline(f) /\ out.broken = r.broken
    BY <1>0, <1>4, <1>8 DEF Readers
  <2>2. ASSUME NEW x \in Content!Baseline(f), x.item \in Texts PROVE Shown(h, f.seq, x)
    <3>1. PICK s \in Of(f.baseline) : /\ x.item = s.item /\ x.rev = s.rev /\ x.total = s.total
                                      /\ x.real = s.real /\ x.complete = s.complete
      BY <2>2 DEF Content!Baseline, Of
    <3>2. Shown(h, f.seq, s) BY <2>2, <3>1 DEF Copied
    <3> QED BY <3>1, <3>2 DEF Shown
  <2>3. ReaderShows(h, f.seq, out) BY <1>5, <2>1, <2>2 DEF ReaderShows
  <2> QED BY <1>6, <2>1, <2>3
<1> QED BY <1>7, <1>8

\* There is a history that the buffer follows, that the provider's text is the
\* truth of, and of which the file, the write and the reader have parts.
ContentOK(h) ==
  /\ Follows(h, buf) /\ TextTrue(h, buf, native)
  /\ Copied(h, file) /\ file.gen = buf.gen
  /\ writing # None => Copied(h, writing) /\ writing.gen = buf.gen
  /\ live = 0 => writing = None
  /\ ReaderOK(h, reader, buf.gen) /\ (reader.cur # None => reader.cur.gen <= buf.gen)

\* What is said leaves what was written and what was read.
LEMMA SaidOn ==
  ASSUME Content!ConstantsOK, Content!TypeOK, NEW h, ContentOK(h), NEW g, Prefix(h, g),
         Follows(g, buf'), TextTrue(g, buf', native'), buf'.gen = buf.gen,
         UNCHANGED <<writing, file, live, reader>>
  PROVE  ContentOK(g)'
<1>1. h \in Said /\ g \in Said BY DEF ContentOK, Follows, HistoryOK
<1>2. /\ file \in Content!Snapshots /\ reader \in Readers
      /\ writing # None => writing \in Content!Snapshots
  BY DEF Content!TypeOK, Readers
<1>3. Copied(g, file)
  <2>1. PICK f \in Content!Snapshots : f = file BY <1>2
  <2>2. Copied(h, f) BY <2>1 DEF ContentOK
  <2>3. Copied(g, f) BY <1>1, <2>2, CopiedStays
  <2> QED BY <2>1, <2>3
<1>4. writing # None => Copied(g, writing)
  <2> SUFFICES ASSUME writing # None PROVE Copied(g, writing) OBVIOUS
  <2>1. PICK f \in Content!Snapshots : f = writing BY <1>2
  <2>2. Copied(h, f) BY <2>1 DEF ContentOK
  <2>3. Copied(g, f) BY <1>1, <2>2, CopiedStays
  <2> QED BY <2>1, <2>3
<1>5. ReaderOK(g, reader, buf.gen)
  <2>0. PICK q : q = buf.gen OBVIOUS
  <2>1. PICK r \in Readers : r = reader BY <1>2
  <2>2. ReaderOK(h, r, q) BY <2>0, <2>1 DEF ContentOK
  <2>3. ReaderOK(g, r, q) BY <1>1, <2>2, CursorStays
  <2> QED BY <2>0, <2>1, <2>3
<1> QED BY <1>3, <1>4, <1>5 DEF ContentOK

\* What the provider says of a text: the history grows by it.
LEMMA TextStep ==
  ASSUME Content!ConstantsOK, Content!TypeOK, Cardinality(Texts) <= MaxPositions,
         NEW h, ContentOK(h), NEW i \in Texts,
         NEW op \in {"append", "replace"}, NEW n \in Nat, NEW real \in Nat, NEW complete,
         Spoken(buf, buf'), TextPut(buf, buf', i, op, n, real, complete),
         OffsetOf(buf, i, op) = real,
         GoesOn(native, native', i, real + n, complete), complete => native'[i].done,
         UNCHANGED <<writing, file, live, reader>>
  PROVE  \E g : ContentOK(g)'
<1>1. PICK b, t : b = buf /\ t = buf' OBVIOUS
<1>2. PICK nat, new : nat = native /\ new = native' OBVIOUS
<1>3. Content!BufferOK(b) /\ Content!BufferOK(t) /\ t.gen = b.gen BY <1>1 DEF Content!TypeOK, Spoken
<1>4. Follows(h, b) /\ TextTrue(h, b, nat) BY <1>1, <1>2 DEF ContentOK
<1>5. TextPut(b, t, i, op, n, real, complete) BY <1>1
<1>6. PICK g, rs : /\ Follows(g, t) /\ Grows(h, g, rs) /\ rs \in Seq(Content!Records)
                   /\ Says(rs, i, op, RevisionOf(b, i, op), OffsetOf(b, i, op), n, real, complete)
  BY <1>3, <1>4, <1>5, TextFollows
<1>7. \A j \in Texts : nat[j].units \in Nat
  BY <1>2 DEF Content!TypeOK, Content!Items, Content!ConstantsOK
<1>8. GoesOn(nat, new, i, real + n, complete) /\ (complete => new[i].done) BY <1>2
<1>9. OffsetOf(b, i, op) = real BY <1>1
<1>10. TextTrue(g, t, new) BY <1>3, <1>4, <1>5, <1>6, <1>7, <1>8, <1>9, TextSpoken
<1>11. Prefix(h, g) BY <1>6 DEF Grows
<1>12. ContentOK(g)' BY <1>1, <1>2, <1>3, <1>6, <1>10, <1>11, SaidOn
<1> QED BY <1>12

LEMMA RequestStep ==
  ASSUME Content!ConstantsOK, Content!TypeOK, NEW h, ContentOK(h), NEW i \in Requests,
         NEW status \in {"requested", "resolved"},
         Spoken(buf, buf'), RequestPut(buf, buf', i, status),
         \A j \in Texts : native'[j] = native[j],
         UNCHANGED <<writing, file, live, reader>>
  PROVE  \E g : ContentOK(g)'
<1>1. PICK b, t : b = buf /\ t = buf' OBVIOUS
<1>2. PICK nat, new : nat = native /\ new = native' OBVIOUS
<1>3. Content!BufferOK(b) /\ Content!BufferOK(t) /\ t.gen = b.gen BY <1>1 DEF Content!TypeOK, Spoken
<1>4. Follows(h, b) /\ TextTrue(h, b, nat) BY <1>1, <1>2 DEF ContentOK
<1>5. RequestPut(b, t, i, status) BY <1>1
<1>6. PICK g : /\ Follows(g, t) /\ Prefix(h, g) /\ Len(g) = Len(h) + 1
               /\ g[Len(g)] # None /\ g[Len(g)].item = i
  BY <1>3, <1>4, <1>5, RequestFollows
<1>7. \A j \in Texts : new[j].units = nat[j].units /\ new[j].done = nat[j].done BY <1>2
<1>8. TextTrue(g, t, new) BY <1>3, <1>4, <1>5, <1>6, <1>7, RequestSpoken
<1>9. ContentOK(g)' BY <1>1, <1>2, <1>3, <1>6, <1>8, SaidOn
<1> QED BY <1>9

\* Where there is a history, there is one after every step.
LEMMA ContentSteps ==
  ASSUME Content!ConstantsOK, Content!TypeOK, Cardinality(Texts) <= MaxPositions,
         NEW h, ContentOK(h), [Content!Next]_(Content!vars)
  PROVE  \E g : ContentOK(g)'
<1>1. /\ native \in [Content!Items -> [units : 0..MaxUnits, open : BOOLEAN, done : BOOLEAN]]
      /\ Texts \subseteq Content!Items /\ Requests \subseteq Content!Items
      /\ Content!BufferOK(buf) /\ buf \in Content!Buffers /\ buf.gen \in 1..MaxGenerations
      /\ MaxGenerations \in Nat /\ 0..MaxUnits \subseteq Nat
      /\ \A i \in Texts : i \notin Requests
  BY DEF Content!TypeOK, Content!Items, Content!BufferOK, Content!Buffers, Content!ConstantsOK
<1>2. \A i \in Texts : native[i].units \in Nat /\ native[i].done \in BOOLEAN BY <1>1
<1>3. PICK b, nat : b = buf /\ nat = native OBVIOUS
<1>4. Content!BufferOK(b) /\ Follows(h, b) /\ TextTrue(h, b, nat) BY <1>1, <1>3 DEF ContentOK
<1>5. \A i \in Texts :
         /\ OffsetOf(b, i, "append") = nat[i].units
         /\ Content!Prior(b, i) # None /\ Content!Prior(b, i).complete => nat[i].done
         /\ Content!Has(b.positions, i) => Content!Row(b.positions, i).complete = nat[i].done
         /\ nat[i].done => Content!Prior(b, i) # None /\ Content!Has(b.positions, i)
  BY <1>2, <1>3, <1>4, PriorTrue
<1>6. ASSUME NEW i \in Texts, NEW n \in 1..2, Content!Delta(i, n) PROVE \E g : ContentOK(g)'
  <2>1. /\ ~nat[i].done /\ native' = [native EXCEPT ![i].units = @ + n, ![i].open = TRUE]
        /\ UNCHANGED <<writing, file, live, reader>>
    BY <1>3, <1>6 DEF Content!Delta
  <2>2. ~Content!Refused(b, i, "append", n, FALSE) BY <1>5, <2>1 DEF Content!Refused
  <2>3. Spoken(buf, buf') /\ TextPut(buf, buf', i, "append", n, native[i].units, FALSE)
    BY <1>3, <1>6, <2>2, SpeaksIs DEF Delivered
  <2>4. PICK u \in Nat, op \in {"append", "replace"} : u = native[i].units /\ op = "append" BY <1>2
  <2>5. native'[i].units = u + n /\ native'[i].done = FALSE
        /\ \A j \in Texts : j # i => native'[j] = native[j]
    BY <1>1, <1>2, <1>3, <2>1, <2>4
  <2>6. GoesOn(native, native', i, u + n, FALSE)
    <3>1. n \in Nat /\ u <= u + n /\ ~native[i].done BY <1>3, <2>1
    <3> QED BY <2>4, <2>5, <3>1 DEF GoesOn
  <2>7. OffsetOf(buf, i, op) = u BY <1>3, <1>5, <2>4
  <2>8. TextPut(buf, buf', i, op, n, u, FALSE) BY <2>3, <2>4, Zenon
  <2>9. n \in Nat OBVIOUS
  <2> QED BY <2>1, <2>3, <2>6, <2>7, <2>8, <2>9, TextStep
<1>7. ASSUME NEW i \in Texts, Content!Complete(i) PROVE \E g : ContentOK(g)'
  <2>1. /\ native' = [native EXCEPT ![i].open = FALSE, ![i].done = TRUE]
        /\ UNCHANGED <<writing, file, live, reader>>
    BY <1>7 DEF Content!Complete
  <2>2. Spoken(buf, buf') /\ TextPut(buf, buf', i, "replace", native[i].units, 0, TRUE)
    BY <1>7, SpeaksIs
  <2>3. PICK u \in Nat, z \in Nat, op \in {"append", "replace"} :
          u = native[i].units /\ z = 0 /\ op = "replace"
    BY <1>2
  <2>4. native'[i].units = u /\ native'[i].done = TRUE
        /\ \A j \in Texts : j # i => native'[j] = native[j]
    BY <1>1, <2>1, <2>3
  <2>5. GoesOn(native, native', i, z + u, TRUE) BY <2>3, <2>4 DEF GoesOn
  <2>6. OffsetOf(buf, i, op) = z BY <2>3 DEF OffsetOf
  <2>7. TextPut(buf, buf', i, op, u, z, TRUE) BY <2>2, <2>3
  <2> QED BY <2>1, <2>2, <2>4, <2>5, <2>6, <2>7, TextStep
<1>8. ASSUME buf' = buf, native' = native, UNCHANGED <<writing, file, live, reader>>
      PROVE  \E g : ContentOK(g)'
  <2>1. ContentOK(h)' BY <1>8 DEF ContentOK
  <2> QED BY <2>1
<1>9. ASSUME NEW i \in Texts, Content!LateStart(i) PROVE \E g : ContentOK(g)'
  <2>1. nat[i].done BY <1>3, <1>9 DEF Content!LateStart
  <2>2. Content!Refused(b, i, "replace", 0, FALSE) BY <1>5, <2>1 DEF Content!Refused
  <2>3. buf' = buf /\ native' = native /\ UNCHANGED <<writing, file, live, reader>>
    BY <1>3, <1>9, <2>2 DEF Content!LateStart, Content!Published
  <2> QED BY <1>8, <2>3
<1>10. ASSUME NEW i \in Requests, Content!Ask(i) PROVE \E g : ContentOK(g)'
  <2>1. Spoken(buf, buf') /\ RequestPut(buf, buf', i, "requested") BY <1>10, SpeaksIs
  <2>2. (\A j \in Texts : native'[j] = native[j]) /\ UNCHANGED <<writing, file, live, reader>>
    BY <1>1, <1>10 DEF Content!Ask
  <2> QED BY <2>1, <2>2, RequestStep
<1>11. ASSUME NEW i \in Requests, Content!Resolve(i) PROVE \E g : ContentOK(g)'
  <2>1. Spoken(buf, buf') /\ RequestPut(buf, buf', i, "resolved") BY <1>11, SpeaksIs
  <2>2. (\A j \in Texts : native'[j] = native[j]) /\ UNCHANGED <<writing, file, live, reader>>
    BY <1>1, <1>11 DEF Content!Resolve
  <2> QED BY <2>1, <2>2, RequestStep
<1>12. ASSUME Content!resetContext PROVE \E g : ContentOK(g)'
  <2>1. buf' = Content!Reset(buf) /\ native' = Content!Fresh
        /\ UNCHANGED <<writing, file, live, reader>>
    BY <1>12 DEF Content!resetContext, Content!Published
  <2>2. PICK t : t = Content!Reset(b) OBVIOUS
  <2>3. PICK g : Follows(g, t) /\ Prefix(h, g) /\ Len(g) = Len(h) + 1 /\ g[Len(g)] = None
    BY <1>4, <2>2, ResetFollows
  <2>4. /\ t.positions = <<>> /\ t.boundary = b.seq + 1 /\ t.gen = b.gen /\ Len(h) = b.seq
        /\ Len(g) \in Nat /\ b.seq \in Nat
    BY <1>4, <2>2, <2>3, ResetIs DEF Follows, HistoryOK, Said, Content!BufferOK, Content!Buffers
  <2>5. TextTrue(g, t, Content!Fresh) BY <2>3, <2>4, FreshTrue
  <2>6. buf' = t /\ buf'.gen = buf.gen BY <1>3, <2>1, <2>2, <2>4
  <2>7. Follows(g, buf') /\ TextTrue(g, buf', native') BY <2>1, <2>3, <2>5, <2>6
  <2>8. ContentOK(g)' BY <2>1, <2>3, <2>6, <2>7, SaidOn
  <2> QED BY <2>8
<1>13. ASSUME Content!flush PROVE \E g : ContentOK(g)'
  <2>1. writing' = Content!Snapshot(b) /\ UNCHANGED <<native, buf, file, live, reader>>
        /\ live = buf.gen
    BY <1>3, <1>13 DEF Content!flush
  <2>2. Copied(h, Content!Snapshot(b)) BY <1>4, SnapshotCopied
  <2>3. Content!Snapshot(b).gen = b.gen BY <1>1, <1>3, SnapshotIs
  <2>4. live # 0 BY <1>1, <2>1
  <2>5. ContentOK(h)' BY <1>3, <2>1, <2>2, <2>3, <2>4 DEF ContentOK
  <2> QED BY <2>5
<1>14. ASSUME Content!Written PROVE \E g : ContentOK(g)'
  <2>1. ContentOK(h)' BY <1>14 DEF ContentOK, Content!Written
  <2> QED BY <2>1
<1>15. ASSUME Content!OwnerDies PROVE \E g : ContentOK(g)'
  <2>1. ContentOK(h)' BY <1>15 DEF ContentOK, Content!OwnerDies
  <2> QED BY <2>1
<1>16. ASSUME Content!OwnerOpens PROVE \E g : ContentOK(g)'
  <2>1. live = 0 /\ buf.gen < MaxGenerations /\ writing = None
    BY <1>16 DEF Content!OwnerOpens, Content!TypeOK, ContentOK
  <2>2. PICK q \in 1..MaxGenerations : q = buf.gen + 1 BY <1>1, <2>1
  <2>3. PICK t : t = Content!Empty(q) OBVIOUS
  <2>4. /\ buf' = t /\ live' = q /\ file' = Content!Snapshot(t) /\ native' = Content!Fresh
        /\ writing' = None /\ reader' = reader
    BY <1>16, <2>1, <2>2, <2>3 DEF Content!OwnerOpens
  <2>5. Content!BufferOK(t) /\ t.gen = q BY <2>3, EmptyIs
  <2>6. PICK e : e = <<>> OBVIOUS
  <2>7. Follows(e, t) BY <2>3, <2>6, EmptyFollows
  <2>8. TextTrue(e, t, Content!Fresh)
    <3>1. t.positions = <<>> /\ t.boundary = 0 /\ Len(e) = 0 BY <2>3, <2>6 DEF Content!Empty
    <3> QED BY <3>1, FreshTrue
  <2>9. Copied(e, Content!Snapshot(t)) BY <2>5, <2>7, SnapshotCopied
  <2>10. Content!Snapshot(t).gen = q BY <2>5, SnapshotIs DEF Content!BufferOK
  <2>11. reader.cur # None => reader.cur.gen < q /\ reader.cur.gen <= q
    <3>1. reader.cur # None => reader.cur.gen \in Nat /\ reader.cur.gen <= buf.gen
      BY DEF ContentOK, Content!TypeOK, Content!Cursors
    <3> QED BY <1>1, <2>2, <3>1
  <2>12. ReaderOK(e, reader, q)
    <3>1. ~reader.broken BY DEF ContentOK, ReaderOK
    <3>2. reader.cur # None => reader.cur.gen # q
      <4>1. reader.cur # None => reader.cur.gen \in Nat BY DEF Content!TypeOK, Content!Cursors
      <4> QED BY <2>11, <4>1
    <3> QED BY <3>1, <3>2 DEF ReaderOK
  <2>13. q # 0 OBVIOUS
  <2>14. ContentOK(e)' BY <2>4, <2>5, <2>7, <2>8, <2>9, <2>10, <2>11, <2>12, <2>13 DEF ContentOK
  <2> QED BY <2>14
<1>17. ASSUME Content!Read PROVE \E g : ContentOK(g)'
  <2>1. PICK f, r, out, gen : f = file /\ r = reader /\ out = reader' /\ gen = buf.gen OBVIOUS
  <2>3. ReadOf(r, f, out) BY <1>17, <2>1 DEF Content!Read, ReadOf
  <2>4. f \in Content!Snapshots /\ r \in Readers BY <2>1 DEF Content!TypeOK, Readers
  <2>5. h \in Said /\ Linked(h) /\ Copied(h, f) /\ f.gen = gen /\ ReaderOK(h, r, gen)
    BY <2>1 DEF ContentOK, Follows, HistoryOK
  <2>6. ReaderOK(h, out, gen) /\ out.cur # None /\ out.cur.gen = gen
    BY <2>3, <2>4, <2>5, ReadShows
  <2>7. gen <= gen BY <1>1, <2>1
  <2>8. UNCHANGED <<native, buf, writing, file, live>> BY <1>17 DEF Content!Read
  <2>9. ContentOK(h)' BY <2>1, <2>6, <2>7, <2>8 DEF ContentOK
  <2> QED BY <2>9
<1>18. CASE UNCHANGED Content!vars BY <1>8, <1>18 DEF Content!vars
<1> QED BY <1>6, <1>7, <1>9, <1>10, <1>11, <1>12, <1>13, <1>14, <1>15, <1>16, <1>17, <1>18
        DEF Content!Next

LEMMA ContentBegins ==
  ASSUME Content!ConstantsOK, Content!Init
  PROVE  Content!TypeOK /\ RequestsShown /\ \E h : ContentOK(h)
<1>1. PICK q \in 1..MaxGenerations : q = 1 BY DEF Content!ConstantsOK
<1>2. PICK b : b = Content!Empty(q) OBVIOUS
<1>3. /\ native = Content!Fresh /\ buf = b /\ next = FALSE /\ writing = None
      /\ file = Content!Snapshot(b) /\ live = q /\ resets = 0
      /\ reader = [cur |-> None, seen |-> {}, broken |-> FALSE]
  BY <1>1, <1>2 DEF Content!Init
<1>4. Content!BufferOK(b) /\ b.gen = q BY <1>2, EmptyIs
<1>5. Content!Snapshot(b) \in Content!Snapshots /\ Content!Snapshot(b).gen = q
  BY <1>4, SnapshotIs DEF Content!BufferOK
<1>6. native \in [Content!Items -> [units : 0..MaxUnits, open : BOOLEAN, done : BOOLEAN]]
  BY <1>3 DEF Content!Fresh, Content!ConstantsOK
<1>7. Content!TypeOK
  <2>1. live # 0 /\ live \in {0, buf.gen} BY <1>3, <1>4
  <2>2. resets \in 0..MaxResets BY <1>3 DEF Content!ConstantsOK
  <2>3. reader \in [cur : {None} \cup Content!Cursors, seen : SUBSET Content!Held, broken : BOOLEAN]
    BY <1>3
  <2> QED BY <1>3, <1>4, <1>5, <1>6, <2>1, <2>2, <2>3 DEF Content!TypeOK
<1>8. RequestsShown BY <1>3 DEF RequestsShown, Content!Fresh, Content!Items
<1>9. PICK e : e = <<>> OBVIOUS
<1>10. Follows(e, b) BY <1>2, <1>9, EmptyFollows
<1>11. TextTrue(e, b, Content!Fresh)
  <2>1. b.positions = <<>> /\ b.boundary = 0 /\ Len(e) = 0 BY <1>2, <1>9 DEF Content!Empty
  <2> QED BY <2>1, FreshTrue
<1>12. Copied(e, Content!Snapshot(b)) BY <1>4, <1>10, SnapshotCopied
<1>13. ReaderOK(e, reader, q) BY <1>3 DEF ReaderOK
<1>14. q # 0 /\ reader.cur = None BY <1>3
<1>15. ContentOK(e) BY <1>3, <1>4, <1>5, <1>10, <1>11, <1>12, <1>13, <1>14 DEF ContentOK
<1> QED BY <1>7, <1>8, <1>15

\* The content is sound: its variables have their kinds, the open requests are in the
\* baseline, and all that the buffer, the file and the reader hold is of one history.
SoundContent ==
  /\ Content!TypeOK /\ RequestsShown
  /\ Cardinality(Texts) <= MaxPositions => \E h : ContentOK(h)

LEMMA ContentInit ==
  ASSUME Content!ConstantsOK, Content!Init PROVE SoundContent
BY ContentBegins DEF SoundContent

LEMMA ContentKept ==
  ASSUME Content!ConstantsOK, SoundContent, [Content!Next]_(Content!vars) PROVE SoundContent'
<1>1. Content!TypeOK' BY ContentKinds DEF SoundContent
<1>2. RequestsShown' BY RequestsKept DEF SoundContent
<1>3. Cardinality(Texts) <= MaxPositions => (\E h : ContentOK(h))'
  <2> SUFFICES ASSUME Cardinality(Texts) <= MaxPositions PROVE (\E h : ContentOK(h))' OBVIOUS
  <2>1. PICK h : ContentOK(h) BY DEF SoundContent
  <2>2. \E g : ContentOK(g)' BY <2>1, ContentSteps DEF SoundContent
  <2> QED BY <2>2
<1> QED BY <1>1, <1>2, <1>3 DEF SoundContent

\* Every state of a content feed is sound.
THEOREM ContentInductive == ASSUME Content!ConstantsOK PROVE Content!Spec => []SoundContent
<1>1. Content!Init => SoundContent BY ContentInit
<1>2. SoundContent /\ [Content!Next]_(Content!vars) => SoundContent' BY ContentKept
<1> QED BY <1>1, <1>2, PTL DEF Content!Spec

\* An open request is a row that says it is requested.
LEMMA RequestsAreShown == ASSUME SoundContent PROVE Content!RequestsSurvive
<1> SUFFICES ASSUME Cardinality(Requests) <= MaxItems, NEW i \in Requests, native[i].open
             PROVE  \E k \in 1..Len(buf.states) : buf.states[k].item = i
                                                 /\ buf.states[k].status = "requested"
  BY Counted DEF Content!RequestsSurvive
<1>1. PICK x \in Of(buf.states) : x.item = i /\ x.status = "requested"
  BY DEF SoundContent, RequestsShown
<1> QED BY <1>1 DEF Of

\* An open request is in the baseline, whatever is streamed beside it.
THEOREM RequestsAlwaysSurvive == ASSUME Content!ConstantsOK PROVE Content!Spec => []Content!RequestsSurvive
<1>1. SoundContent => Content!RequestsSurvive BY RequestsAreShown
<1> QED BY <1>1, ContentInductive, PTL

\* The last record of a text since the boundary is where the reader is in it.
LEMMA ReadersAreTrue ==
  ASSUME SoundContent, Cardinality(Texts) <= MaxPositions
  PROVE  Content!AppendsContinue /\ Content!ReaderTrue
<1>1. PICK h : ContentOK(h) BY DEF SoundContent
<1>2. Content!AppendsContinue BY <1>1 DEF ContentOK, ReaderOK, Content!AppendsContinue
<1>3. ASSUME reader.cur # None, reader.cur.gen = buf.gen, reader.cur.seq >= buf.boundary,
             NEW x \in reader.seen, x.item \in Texts
      PROVE  /\ x.real = x.total /\ x.total <= native[x.item].units
             /\ x.complete => native[x.item].done /\ x.total = native[x.item].units
  <2>1. /\ reader.cur.seq \in Nat /\ buf.boundary \in Nat /\ h \in Said /\ Len(h) \in Nat
        /\ HistoryOK(h, buf) /\ UnitsTrue(h, buf, native)
    BY <1>1, <1>3 DEF SoundContent, Content!TypeOK, Content!Cursors, Content!BufferOK,
       Content!Buffers, ContentOK, Follows, HistoryOK, Said, TextTrue
  <2>2. PICK m \in Nat : m = reader.cur.seq BY <2>1
  <2>3. m <= Len(h) /\ Shown(h, m, x) BY <1>1, <1>3, <2>2 DEF ContentOK, ReaderOK
  <2>4. PICK k \in 1..m : /\ LastIn(h, k, x.item, m)
                          /\ x.total = h[k].offset + h[k].units /\ x.real = h[k].real + h[k].units
                          /\ (x.complete => h[k].complete)
    BY <2>3 DEF Shown
  <2>5. h[k].item = x.item /\ k > buf.boundary BY <1>3, <2>1, <2>2, <2>3, <2>4, LastSince
  <2>6. k \in 1..Len(h) BY <2>1, <2>3
  <2> QED BY <1>3, <2>1, <2>4, <2>5, <2>6 DEF UnitsTrue
<1> QED BY <1>2, <1>3 DEF Content!ReaderTrue

\* While the positions of all texts are remembered, a reader is never served a record that
\* does not go on where it is, and what it holds of a text is that text.
THEOREM ReaderAlwaysTrue ==
  ASSUME Content!ConstantsOK, Cardinality(Texts) <= MaxPositions
  PROVE  Content!Spec => [](Content!AppendsContinue /\ Content!ReaderTrue)
<1>1. SoundContent => Content!AppendsContinue /\ Content!ReaderTrue BY ReadersAreTrue
<1> QED BY <1>1, ContentInductive, PTL
=============================================================================
