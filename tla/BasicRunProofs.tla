--------------------------- MODULE BasicRunProofs ---------------------------
(***************************************************************************)
(* The BASIC interpreter, for every program with a shape (BasicShape): the *)
(* stacks of GOSUB and FOR stay in their arrays, and key and timer         *)
(* handlers, that of a handler's handler included, leave the main program  *)
(* as it was.                                                              *)
(***************************************************************************)
EXTENDS BasicShape, SequenceTheorems, NaturalsInduction, WellFoundedInduction, TLAPS

(***************************************************************************)
(* The routines that are open, from the main one to the one that runs: the *)
(* line each is at, the call that opened it, and where its loops are.      *)
(***************************************************************************)
\* Who executes the i-th routine.
Kind(o, i) == IF i = 1 THEN "main"
              ELSE IF \E j \in 1 .. i - 1 : o[j] = "event" THEN "event" ELSE "sub"

LoopOf(p, f) == [at |-> f + 1, to |-> p[f].to, by |-> p[f].by]

\* The room that the events to come may take.
CallRoom(s, e) == (MaxEvents - e) * (1 + s.calls)
LoopRoom(s, e) == (MaxEvents - e) * s.loops

\* The i-th routine is at line a; its loops are those above lo, up to hi.
Frame(s, p, i, a, kind, l, e, lo, hi) ==
  LET here == s.lines[a]
  IN  /\ a \in DOMAIN s.lines /\ kind \in here.by
      /\ hi = lo + Len(here.open)
      /\ \A j \in 1 .. Len(here.open) : l[lo + j] = LoopOf(p, here.open[j])
      /\ i - 1 + here.calls + CallRoom(s, e) < MAX_GOSUB_NEST
      /\ lo + here.loops + LoopRoom(s, e) <= MAX_FOR_NEST

At(g, n, i) == IF i <= Len(g) THEN g[i] ELSE n

Stack(s, p, g, n, o, l, e, h) ==
  /\ Len(g) = Len(o)
  /\ h \in [1 .. Len(o) + 2 -> Nat] /\ h[1] = 0 /\ h[Len(o) + 2] = Len(l)
  /\ \A i, j \in 1 .. Len(o) + 2 : i <= j => h[i] <= h[j]
  /\ \A i \in 1 .. Len(o) + 1 : Frame(s, p, i, At(g, n, i), Kind(o, i), l, e, h[i], h[i + 1])

\* The k-th call is the first event; what the main program was is still there.
Saved(m, g, o, l, v, h, k) ==
  /\ o[k] = "event" /\ \A j \in 1 .. k - 1 : o[j] # "event"
  /\ m.at = g[k] /\ m.gosub = SubSeq(g, 1, k - 1)
  /\ m.loops = SubSeq(l, 1, h[k + 1])
  /\ \A x \in MainVars : m.val[x] = v[x]

HasEvent(o) == \E i \in DOMAIN o : o[i] = "event"

\* There are heights h at which the loops of the open routines end.
Stacked(s, p, g, n, o, l, e, v, m) ==
  \E h : /\ Stack(s, p, g, n, o, l, e, h)
         /\ HasEvent(o) => \E k \in 1 .. Len(o) : Saved(m, g, o, l, v, h, k)

Live == pc # "stopped" /\ BasicErr = 0

\* A line or no line of the program that serves as a handler.
HandlerInv(s) ==
  /\ tline \in DOMAIN program => IsHandler(s, tline)
  /\ kline \in DOMAIN program => IsHandler(s, kline)

Good(s) ==
  /\ Fits(s, program) /\ HandlerInv(s)
  /\ Live => Stacked(s, program, gosub, nxtline, open, loops, events, val, main)

Opened == Seq({"sub", "event"})
Loops == Seq([at : Nat, to : Int, by : Int])

Types ==
  /\ program \in Programs /\ nxtline \in 0 .. Len(program) + 1
  /\ gosub \in Seq(1 .. Len(program) + 1) /\ Len(gosub) < MAX_GOSUB_NEST
  /\ loops \in Loops /\ Len(loops) <= MAX_FOR_NEST
  /\ val \in [Vars -> Int] /\ BasicErr \in {0, 1, 3, 5, 6, 7}
  /\ timer \in BOOLEAN /\ irf \in BOOLEAN /\ tline \in Nat /\ kline \in Nat
  /\ pc \in {"events", "execute", "stopped"} /\ (pc = "execute" => BasicErr = 0)
  /\ open \in Opened /\ events \in 0 .. MaxEvents

Inv == Types /\ \E s : Good(s)

-----------------------------------------------------------------------------
(***************************************************************************)
(* Shapes, and the room they ask for.                                      *)
(***************************************************************************)
LEMMA Constants == /\ MAX_GOSUB_NEST \in Nat /\ MAX_FOR_NEST \in Nat /\ MaxEvents \in Nat
                   /\ MAX_GOSUB_NEST > 0 /\ MainVars \cap HandlerVars = {}
BY RunAssumption

LEMMA Shapes ==
  ASSUME NEW s, NEW p, Fits(s, p)
  PROVE  /\ Len(p) \in Nat /\ DOMAIN p = 1 .. Len(p)
         /\ s.calls \in Nat /\ s.loops \in Nat
         /\ DOMAIN s.lines \subseteq 1 .. Len(p) + 1
         /\ \A n \in DOMAIN s.lines :
              /\ n \in Nat /\ s.lines[n].open \in Seq(Nat) /\ Len(s.lines[n].open) \in Nat
              /\ s.lines[n].calls \in Nat /\ s.lines[n].loops \in Nat
              /\ Len(s.lines[n].open) <= s.lines[n].loops
<1>1. p \in Seq(Range(p)) /\ IsShape(s, p)
  BY DEF Fits
<1>2. Len(p) \in Nat /\ DOMAIN p = 1 .. Len(p)
  BY <1>1
<1>3. ASSUME NEW n \in DOMAIN s.lines
      PROVE  /\ n \in Nat /\ s.lines[n].open \in Seq(Nat) /\ Len(s.lines[n].open) \in Nat
             /\ s.lines[n].calls \in Nat /\ s.lines[n].loops \in Nat
             /\ Len(s.lines[n].open) <= s.lines[n].loops
  <2>1. /\ n \in 1 .. Len(p) + 1 /\ s.lines[n].open \in Seq(DOMAIN p)
        /\ s.lines[n].calls \in Nat /\ s.lines[n].loops \in Nat
        /\ Len(s.lines[n].open) <= s.lines[n].loops
    BY <1>1 DEF IsShape
  <2>2. s.lines[n].open \in Seq(1 .. Len(p))
    BY <1>2, <2>1
  <2>3. s.lines[n].open \in Seq(Nat) /\ Len(s.lines[n].open) \in Nat
    BY <1>2, <2>2
  <2>4. QED BY <1>2, <2>1, <2>3
<1>4. QED BY <1>1, <1>2, <1>3 DEF IsShape

LEMMA FrontAndLast ==
  ASSUME NEW S, NEW t \in Seq(S), t # << >>
  PROVE  /\ Len(t) \in Nat /\ Len(t) >= 1 /\ Last(t) = t[Len(t)] /\ Last(t) \in S
         /\ Front(t) \in Seq(S) /\ Len(Front(t)) = Len(t) - 1
         /\ \A j \in 1 .. Len(t) - 1 : Front(t)[j] = t[j]
<1>1. Len(t) \in Nat /\ Len(t) >= 1 /\ Last(t) = t[Len(t)] /\ Last(t) \in S
  BY DEF Last
<1>2. Front(t) = SubSeq(t, 1, Len(t) - 1) /\ Len(t) - 1 \in Nat
  BY <1>1 DEF Front
<1>3. Front(t) \in Seq(S) /\ Len(Front(t)) = Len(t) - 1
  <2> DEFINE c == Len(t) - 1
  <2>1. c \in Nat /\ c <= Len(t)
    BY <1>1
  <2> HIDE DEF c
  <2>2. SubSeq(t, 1, c) \in Seq(S) /\ Len(SubSeq(t, 1, c)) = c
    BY <1>1, <2>1
  <2>3. QED BY <1>2, <2>2 DEF c
<1>4. ASSUME NEW j \in 1 .. Len(t) - 1 PROVE Front(t)[j] = t[j]
  BY <1>1, <1>2
<1>5. QED BY <1>1, <1>3, <1>4

LEMMA Product ==
  ASSUME NEW a \in Nat, NEW b \in Nat
  PROVE  a * b \in Nat /\ (a > 0 => (a - 1) * b = a * b - b)
OBVIOUS

LEMMA Rooms ==
  ASSUME NEW s, NEW p, Fits(s, p), NEW e \in 0 .. MaxEvents
  PROVE  /\ CallRoom(s, e) \in Nat /\ LoopRoom(s, e) \in Nat
         /\ e < MaxEvents => /\ CallRoom(s, e) = CallRoom(s, e + 1) + 1 + s.calls
                             /\ LoopRoom(s, e) = LoopRoom(s, e + 1) + s.loops
                             /\ CallRoom(s, e + 1) <= CallRoom(s, e)
                             /\ LoopRoom(s, e + 1) <= LoopRoom(s, e)
                             /\ CallRoom(s, e + 1) \in Nat /\ LoopRoom(s, e + 1) \in Nat
<1> DEFINE r == MaxEvents - e
           c == 1 + s.calls
<1>1. r \in Nat /\ c \in Nat /\ s.calls \in Nat /\ s.loops \in Nat
  BY Constants, Shapes
<1>2. e < MaxEvents => r > 0 /\ MaxEvents - (e + 1) = r - 1
  BY Constants
<1>3. CallRoom(s, e) = r * c /\ LoopRoom(s, e) = r * s.loops
  BY DEF CallRoom, LoopRoom
<1>4. e < MaxEvents => /\ CallRoom(s, e + 1) = (r - 1) * c
                       /\ LoopRoom(s, e + 1) = (r - 1) * s.loops
  BY <1>2 DEF CallRoom, LoopRoom
<1> HIDE DEF r
<1>5. r * c \in Nat /\ (r > 0 => (r - 1) * c = r * c - c)
  BY <1>1, Product
<1>6. r * s.loops \in Nat /\ (r > 0 => (r - 1) * s.loops = r * s.loops - s.loops)
  BY <1>1, Product
<1>7. ASSUME e < MaxEvents
      PROVE  /\ CallRoom(s, e) = CallRoom(s, e + 1) + 1 + s.calls
             /\ LoopRoom(s, e) = LoopRoom(s, e + 1) + s.loops
             /\ CallRoom(s, e + 1) <= CallRoom(s, e) /\ LoopRoom(s, e + 1) <= LoopRoom(s, e)
  <2> DEFINE x == r * c
             y == r * s.loops
  <2>1. x \in Nat /\ CallRoom(s, e) = x /\ CallRoom(s, e + 1) = x - (1 + s.calls)
    BY <1>2, <1>3, <1>4, <1>5, <1>7
  <2>2. y \in Nat /\ LoopRoom(s, e) = y /\ LoopRoom(s, e + 1) = y - s.loops
    BY <1>2, <1>3, <1>4, <1>6, <1>7
  <2> HIDE DEF x, y
  <2>3. QED BY <1>1, <2>1, <2>2
<1>8. e < MaxEvents => CallRoom(s, e + 1) \in Nat /\ LoopRoom(s, e + 1) \in Nat
  <2>1. e < MaxEvents => r - 1 \in Nat
    BY <1>1, <1>2
  <2>2. QED BY <1>1, <1>4, <2>1, Product
<1>9. QED BY <1>3, <1>5, <1>6, <1>7, <1>8

-----------------------------------------------------------------------------
(***************************************************************************)
(* The routine that runs, and how it moves, calls, returns.                *)
(***************************************************************************)
LEMMA TopFrame ==
  ASSUME NEW s, NEW p, NEW g, NEW n, NEW o \in Opened, NEW l, NEW e, NEW h,
         Fits(s, p), Stack(s, p, g, n, o, l, e, h)
  PROVE  /\ n \in DOMAIN s.lines /\ Kind(o, Len(o) + 1) \in s.lines[n].by
         /\ h[Len(o) + 1] \in Nat /\ h[Len(o) + 2] = Len(l)
         /\ Len(l) = h[Len(o) + 1] + Len(s.lines[n].open)
         /\ \A j \in 1 .. Len(s.lines[n].open) :
              l[h[Len(o) + 1] + j] = LoopOf(p, s.lines[n].open[j])
         /\ Len(g) + s.lines[n].calls + CallRoom(s, e) < MAX_GOSUB_NEST
         /\ h[Len(o) + 1] + s.lines[n].loops + LoopRoom(s, e) <= MAX_FOR_NEST
<1> DEFINE d == Len(o) + 1
<1>1. Len(o) \in Nat /\ Len(g) = Len(o) /\ d \in 1 .. Len(o) + 1 /\ At(g, n, d) = n
  BY DEF Opened, Stack, At
<1>2. Frame(s, p, d, At(g, n, d), Kind(o, d), l, e, h[d], h[d + 1])
  BY <1>1 DEF Stack
<1>3. Frame(s, p, d, n, Kind(o, d), l, e, h[d], h[d + 1])
  BY <1>1, <1>2
<1>4. d + 1 = Len(o) + 2 /\ d - 1 = Len(g)
  BY <1>1
<1>5. h[d] \in Nat /\ h[Len(o) + 2] = Len(l)
  BY <1>1, <1>4 DEF Stack
<1>6. QED BY <1>3, <1>4, <1>5 DEF Frame

\* The loops of the routine that runs, at line n: those above b.
TopLoops(s, p, n, l, b) ==
  /\ b \in Nat /\ Len(l) = b + Len(s.lines[n].open) /\ n \in DOMAIN s.lines
  /\ \A j \in 1 .. Len(s.lines[n].open) : l[b + j] = LoopOf(p, s.lines[n].open[j])

LEMMA LoopsOnTop ==
  ASSUME NEW s, NEW p, NEW g, NEW n, NEW o \in Opened, NEW l, NEW e, NEW h,
         Fits(s, p), Stack(s, p, g, n, o, l, e, h)
  PROVE  TopLoops(s, p, n, l, h[Len(o) + 1])
<1>1. /\ n \in DOMAIN s.lines /\ Kind(o, Len(o) + 1) \in s.lines[n].by
      /\ h[Len(o) + 1] \in Nat /\ h[Len(o) + 2] = Len(l)
      /\ Len(l) = h[Len(o) + 1] + Len(s.lines[n].open)
      /\ \A j \in 1 .. Len(s.lines[n].open) :
           l[h[Len(o) + 1] + j] = LoopOf(p, s.lines[n].open[j])
      /\ Len(g) + s.lines[n].calls + CallRoom(s, e) < MAX_GOSUB_NEST
      /\ h[Len(o) + 1] + s.lines[n].loops + LoopRoom(s, e) <= MAX_FOR_NEST
  BY TopFrame, Zenon
<1>2. QED BY <1>1, Zenon DEF TopLoops

LEMMA FrameKept ==
  ASSUME NEW s, NEW p, NEW i, NEW a, NEW kind, NEW l, NEW l2, NEW e \in 0 .. MaxEvents,
         NEW e2 \in {e, e + 1}, e2 <= MaxEvents,
         NEW lo \in Nat, NEW hi \in Nat, NEW top \in Nat, i \in Nat,
         Fits(s, p), Frame(s, p, i, a, kind, l, e, lo, hi),
         hi <= top, \A j \in 1 .. top : l2[j] = l[j]
  PROVE  Frame(s, p, i, a, kind, l2, e2, lo, hi)
<1> DEFINE here == s.lines[a]
<1>1. /\ a \in DOMAIN s.lines /\ kind \in here.by /\ hi = lo + Len(here.open)
      /\ \A j \in 1 .. Len(here.open) : l[lo + j] = LoopOf(p, here.open[j])
      /\ i - 1 + here.calls + CallRoom(s, e) < MAX_GOSUB_NEST
      /\ lo + here.loops + LoopRoom(s, e) <= MAX_FOR_NEST
  BY DEF Frame
<1>2. Len(here.open) \in Nat /\ here.calls \in Nat /\ here.loops \in Nat
      /\ s.calls \in Nat /\ s.loops \in Nat
  BY <1>1, Shapes
<1> HIDE DEF here
<1>3. ASSUME NEW j \in 1 .. Len(here.open)
      PROVE  l2[lo + j] = LoopOf(p, here.open[j])
  <2>1. lo + j \in 1 .. top
    BY <1>1, <1>2
  <2>2. QED BY <1>1, <2>1
<1>4. /\ CallRoom(s, e2) \in Nat /\ LoopRoom(s, e2) \in Nat
      /\ CallRoom(s, e) \in Nat /\ LoopRoom(s, e) \in Nat
      /\ CallRoom(s, e2) <= CallRoom(s, e) /\ LoopRoom(s, e2) <= LoopRoom(s, e)
  <2>1. CASE e2 = e
    BY <2>1, Rooms
  <2>2. CASE e2 = e + 1
    <3>1. e < MaxEvents
      BY <2>2, Constants
    <3>2. QED BY <2>2, <3>1, Rooms
  <2>3. QED BY <2>1, <2>2
<1>5. /\ i - 1 + here.calls + CallRoom(s, e2) < MAX_GOSUB_NEST
      /\ lo + here.loops + LoopRoom(s, e2) <= MAX_FOR_NEST
  <2> DEFINE c == here.calls
             m == here.loops
             r == CallRoom(s, e)
             r2 == CallRoom(s, e2)
             t == LoopRoom(s, e)
             t2 == LoopRoom(s, e2)
  <2>1. /\ c \in Nat /\ m \in Nat /\ r \in Nat /\ r2 \in Nat /\ t \in Nat /\ t2 \in Nat
        /\ i - 1 + c + r < MAX_GOSUB_NEST /\ lo + m + t <= MAX_FOR_NEST
        /\ r2 <= r /\ t2 <= t
    BY <1>1, <1>2, <1>4
  <2> HIDE DEF c, m, r, r2, t, t2
  <2>2. i - 1 + c + r2 < MAX_GOSUB_NEST /\ lo + m + t2 <= MAX_FOR_NEST
    BY <2>1, Constants
  <2>3. QED BY <2>2 DEF c, m, r2, t2
<1>6. QED BY <1>1, <1>3, <1>5 DEF Frame, here

LEMMA Moves ==
  ASSUME NEW s, NEW p, NEW g, NEW n, NEW o \in Opened, NEW l, NEW l2, NEW e \in 0 .. MaxEvents,
         NEW h, NEW k, NEW q, Fits(s, p), Stack(s, p, g, n, o, l, e, h),
         Leads(s, n, k, q), Len(l2) = h[Len(o) + 1] + Len(q),
         \A j \in 1 .. h[Len(o) + 1] : l2[j] = l[j],
         \A j \in 1 .. Len(q) : l2[h[Len(o) + 1] + j] = LoopOf(p, q[j])
  PROVE  Stack(s, p, g, k, o, l2, e, [h EXCEPT ![Len(o) + 2] = Len(l2)])
<1> DEFINE d == Len(o) + 1
           h2 == [h EXCEPT ![d + 1] = Len(l2)]
<1>1. /\ Len(o) \in Nat /\ Len(g) = Len(o) /\ d \in Nat /\ d + 1 = Len(o) + 2
      /\ h \in [1 .. d + 1 -> Nat] /\ h[1] = 0
      /\ \A i, j \in 1 .. d + 1 : i <= j => h[i] <= h[j]
      /\ \A i \in 1 .. d : Frame(s, p, i, At(g, n, i), Kind(o, i), l, e, h[i], h[i + 1])
  BY DEF Opened, Stack
<1>2. /\ k \in DOMAIN s.lines /\ s.lines[n].by \subseteq s.lines[k].by
      /\ s.lines[k].open = q
      /\ s.lines[k].calls <= s.lines[n].calls /\ s.lines[k].loops <= s.lines[n].loops
  BY DEF Leads
<1>3. /\ n \in DOMAIN s.lines /\ Kind(o, d) \in s.lines[n].by /\ h[d] \in Nat
      /\ Len(g) + s.lines[n].calls + CallRoom(s, e) < MAX_GOSUB_NEST
      /\ h[d] + s.lines[n].loops + LoopRoom(s, e) <= MAX_FOR_NEST
  BY TopFrame
<1>4. /\ Len(q) \in Nat /\ s.lines[k].calls \in Nat /\ s.lines[k].loops \in Nat
      /\ s.lines[n].calls \in Nat /\ s.lines[n].loops \in Nat
  BY <1>2, <1>3, Shapes
<1>5. CallRoom(s, e) \in Nat /\ LoopRoom(s, e) \in Nat
  BY Rooms
<1>6. /\ Len(l2) = h[d] + Len(q) /\ Len(l2) \in Nat
  BY <1>3, <1>4
<1>7. h2 \in [1 .. d + 1 -> Nat] /\ h2[d + 1] = Len(l2) /\ \A i \in 1 .. d : h2[i] = h[i]
  BY <1>1, <1>6
<1>8. \A i, j \in 1 .. d + 1 : i <= j => h2[i] <= h2[j]
  <2> SUFFICES ASSUME NEW i \in 1 .. d + 1, NEW j \in 1 .. d + 1, i <= j
               PROVE  h2[i] <= h2[j]
    OBVIOUS
  <2>1. CASE j \in 1 .. d
    BY <1>1, <1>7, <2>1
  <2>2. CASE i \in 1 .. d /\ j = d + 1
    <3>1. h[i] <= h[d] /\ h[i] \in Nat
      BY <1>1, <2>2
    <3>2. QED BY <1>3, <1>4, <1>6, <1>7, <2>2, <3>1
  <2>3. CASE i = d + 1 /\ j = d + 1
    BY <1>6, <1>7, <2>3
  <2>4. QED BY <1>1, <2>1, <2>2, <2>3
<1>9. ASSUME NEW i \in 1 .. d
      PROVE  Frame(s, p, i, At(g, k, i), Kind(o, i), l2, e, h2[i], h2[i + 1])
  <2>1. CASE i = d
    <3>1. At(g, k, d) = k
      BY <1>1 DEF At
    <3>2. /\ d - 1 + s.lines[k].calls + CallRoom(s, e) < MAX_GOSUB_NEST
          /\ h[d] + s.lines[k].loops + LoopRoom(s, e) <= MAX_FOR_NEST
      <4> DEFINE c == s.lines[n].calls
                 c2 == s.lines[k].calls
                 m == s.lines[n].loops
                 m2 == s.lines[k].loops
                 r == CallRoom(s, e)
                 t == LoopRoom(s, e)
                 a == h[d]
      <4>1. /\ c \in Nat /\ m \in Nat /\ c2 \in Nat /\ m2 \in Nat /\ r \in Nat /\ t \in Nat
            /\ c2 <= c /\ m2 <= m /\ Len(g) + c + r < MAX_GOSUB_NEST
            /\ a \in Nat /\ a + m + t <= MAX_FOR_NEST /\ Len(g) = d - 1
        BY <1>1, <1>2, <1>3, <1>4, <1>5
      <4> HIDE DEF c, c2, m, m2, r, t, a
      <4>2. d - 1 + c2 + r < MAX_GOSUB_NEST /\ a + m2 + t <= MAX_FOR_NEST
        BY <1>1, <4>1, Constants
      <4>3. QED BY <4>2 DEF c2, m2, r, t, a
    <3>4. Kind(o, d) \in s.lines[k].by
      BY <1>2, <1>3
    <3>5. h2[d] = h[d] /\ h2[d + 1] = h[d] + Len(q)
      BY <1>1, <1>6, <1>7
    <3> HIDE DEF h2
    <3>6. Frame(s, p, d, k, Kind(o, d), l2, e, h2[d], h2[d + 1])
      BY <1>2, <3>2, <3>4, <3>5 DEF Frame
    <3>7. QED BY <2>1, <3>1, <3>6
  <2>2. CASE i # d
    <3>1. i \in Nat /\ i <= Len(g) /\ i + 1 \in 1 .. d
      BY <1>1, <2>2
    <3>2. At(g, k, i) = At(g, n, i)
      BY <3>1 DEF At
    <3>3. h[i] \in Nat /\ h[i + 1] \in Nat /\ h[i + 1] <= h[d]
      <4>1. i \in 1 .. d + 1 /\ i + 1 \in 1 .. d + 1 /\ d \in 1 .. d + 1 /\ i + 1 <= d
        BY <1>1, <3>1
      <4>2. QED BY <1>1, <4>1
    <3>4. Frame(s, p, i, At(g, n, i), Kind(o, i), l2, e, h[i], h[i + 1])
      <4>1. Frame(s, p, i, At(g, n, i), Kind(o, i), l, e, h[i], h[i + 1])
        BY <1>1
      <4>2. e \in {e, e + 1} /\ e <= MaxEvents
        BY Constants
      <4>3. \A j \in 1 .. h[d] : l2[j] = l[j]
        OBVIOUS
      <4> HIDE DEF d
      <4>4. QED BY ONLY <1>3, <3>1, <3>3, <4>1, <4>2, <4>3, Fits(s, p),
                        e \in 0 .. MaxEvents, FrameKept
    <3>5. h2[i] = h[i] /\ h2[i + 1] = h[i + 1]
      BY <1>7, <3>1
    <3> HIDE DEF h2
    <3>6. QED BY <3>2, <3>4, <3>5
  <2>3. QED BY <2>1, <2>2
<1> HIDE DEF h2
<1>10. Stack(s, p, g, k, o, l2, e, h2)
  BY <1>1, <1>7, <1>8, <1>9 DEF Stack
<1>11. QED BY <1>1, <1>10 DEF h2

LEMMA Kinds ==
  ASSUME NEW o, NEW i \in Nat
  PROVE  /\ Kind(o, i) \in Executers
         /\ (\E j \in 1 .. i - 1 : o[j] = "event") => Kind(o, i) = "event"
         /\ (\A j \in 1 .. i - 1 : o[j] # "event") => Kind(o, i) \in {"main", "sub"}
         /\ \A o2 : (\A j \in 1 .. i - 1 : o2[j] = o[j]) => Kind(o2, i) = Kind(o, i)
<1>1. i = 1 => 1 .. i - 1 = {}
  OBVIOUS
<1>2. ASSUME NEW o2, \A j \in 1 .. i - 1 : o2[j] = o[j]
      PROVE  Kind(o2, i) = Kind(o, i)
  <2>1. (\E j \in 1 .. i - 1 : o2[j] = "event") <=> (\E j \in 1 .. i - 1 : o[j] = "event")
    BY <1>2, Zenon
  <2>2. QED BY <2>1, Zenon DEF Kind
<1>3. QED BY <1>1, <1>2 DEF Kind, Executers

\* A call puts one frame more on the stack, which opens no loop yet.
LEMMA SameKind ==
  ASSUME NEW o, NEW o2, NEW i \in Nat, \A j \in 1 .. i - 1 : o2[j] = o[j]
  PROVE  Kind(o2, i) = Kind(o, i)
BY Kinds

LEMMA Opens ==
  ASSUME NEW s, NEW p, NEW g \in Seq(Nat), NEW n \in Nat, NEW o \in Opened, NEW l,
         NEW e \in 0 .. MaxEvents, NEW e2 \in {e, e + 1}, e2 <= MaxEvents, NEW h,
         NEW t, NEW c \in {"sub", "event"},
         Fits(s, p), Stack(s, p, g, n, o, l, e, h), Len(l) \in Nat,
         t \in DOMAIN s.lines, s.lines[t].open = << >>,
         Kind(Append(o, c), Len(o) + 2) \in s.lines[t].by,
         Len(g) + 1 + s.lines[t].calls + CallRoom(s, e2) < MAX_GOSUB_NEST,
         Len(l) + s.lines[t].loops + LoopRoom(s, e2) <= MAX_FOR_NEST,
         NEW h2, h2 = [i \in 1 .. Len(o) + 3 |-> IF i = Len(o) + 3 THEN Len(l) ELSE h[i]]
  PROVE  Stack(s, p, Append(g, n), t, Append(o, c), l, e2, h2)
<1> DEFINE d == Len(o) + 1
           g2 == Append(g, n)
           o2 == Append(o, c)
<1>1. /\ Len(o) \in Nat /\ Len(g) = Len(o) /\ d \in Nat /\ d >= 1 /\ d + 1 = Len(o) + 2
      /\ h \in [1 .. d + 1 -> Nat] /\ h[1] = 0 /\ h[d + 1] = Len(l)
      /\ \A i, j \in 1 .. d + 1 : i <= j => h[i] <= h[j]
      /\ \A i \in 1 .. d : Frame(s, p, i, At(g, n, i), Kind(o, i), l, e, h[i], h[i + 1])
  BY DEF Opened, Stack
<1>2. /\ Len(g2) = d /\ Len(o2) = d /\ d + 2 = Len(o) + 3
      /\ \A i \in 1 .. Len(o) : g2[i] = g[i] /\ o2[i] = o[i]
      /\ g2[d] = n /\ o2[d] = c
  BY <1>1 DEF Opened
<1>3. /\ h2 \in [1 .. d + 2 -> Nat] /\ h2[d + 2] = Len(l)
      /\ \A i \in 1 .. d + 1 : h2[i] = h[i]
  BY <1>1, <1>2
<1> HIDE DEF g2, o2
<1>4. \A i, j \in 1 .. d + 2 : i <= j => h2[i] <= h2[j]
  <2> SUFFICES ASSUME NEW i \in 1 .. d + 2, NEW j \in 1 .. d + 2, i <= j
               PROVE  h2[i] <= h2[j]
    OBVIOUS
  <2>1. CASE j \in 1 .. d + 1
    <3>1. i \in 1 .. d + 1
      BY <1>1, <2>1
    <3>2. h[i] <= h[j] /\ h2[i] = h[i] /\ h2[j] = h[j]
      BY <1>1, <1>3, <2>1, <3>1
    <3>3. QED BY <3>2
  <2>2. CASE i \in 1 .. d + 1 /\ j = d + 2
    <3>1. h[i] <= h[d + 1]
      BY <1>1, <2>2
    <3>2. QED BY <1>1, <1>3, <2>2, <3>1
  <2>3. CASE i = d + 2 /\ j = d + 2
    BY <1>3, <2>3
  <2>4. QED BY <1>1, <2>1, <2>2, <2>3
<1>5. ASSUME NEW i \in 1 .. d
      PROVE  Frame(s, p, i, At(g2, t, i), Kind(o2, i), l, e2, h2[i], h2[i + 1])
  <2>1. At(g2, t, i) = At(g, n, i)
    BY <1>1, <1>2 DEF At
  <2>2. Kind(o2, i) = Kind(o, i)
    <3>1. i \in Nat /\ \A j \in 1 .. i - 1 : o2[j] = o[j]
      BY <1>1, <1>2
    <3>2. QED BY ONLY <3>1, SameKind
  <2>3. h2[i] = h[i] /\ h2[i + 1] = h[i + 1]
    BY <1>1, <1>3
  <2>4. /\ h[i] \in Nat /\ h[i + 1] \in Nat /\ h[i + 1] <= h[i + 1] /\ i \in Nat
        /\ \A j \in 1 .. h[i + 1] : l[j] = l[j]
    <3>1. i \in Nat /\ i \in 1 .. d + 1 /\ i + 1 \in 1 .. d + 1
      BY <1>1
    <3>2. h[i] \in Nat /\ h[i + 1] \in Nat
      BY <1>1, <3>1
    <3>3. QED BY <3>1, <3>2
  <2>5. Frame(s, p, i, At(g, n, i), Kind(o, i), l, e, h[i], h[i + 1])
    BY <1>1
  <2>6. Frame(s, p, i, At(g, n, i), Kind(o, i), l, e2, h[i], h[i + 1])
    BY ONLY <2>4, <2>5, e \in 0 .. MaxEvents, e2 \in {e, e + 1}, e2 <= MaxEvents, Fits(s, p),
            FrameKept
  <2>7. QED BY <2>1, <2>2, <2>3, <2>6
<1>6. Frame(s, p, d + 1, At(g2, t, d + 1), Kind(o2, d + 1), l, e2, h2[d + 1], h2[d + 2])
  <2>1. At(g2, t, d + 1) = t
    BY <1>1, <1>2 DEF At
  <2>2. h2[d + 1] = Len(l) /\ h2[d + 2] = Len(l) /\ Len(l) = Len(l) + 0
    BY <1>1, <1>3
  <2>3. Len(s.lines[t].open) = 0 /\ 1 .. Len(s.lines[t].open) = {}
    OBVIOUS
  <2>4. Kind(o2, d + 1) \in s.lines[t].by
    BY <1>1 DEF o2
  <2>5. (d + 1) - 1 + s.lines[t].calls + CallRoom(s, e2) < MAX_GOSUB_NEST
    <3>1. (d + 1) - 1 = Len(g) + 1
      BY <1>1
    <3>2. QED BY <3>1
  <2> HIDE DEF d
  <2>6. Frame(s, p, d + 1, t, Kind(o2, d + 1), l, e2, Len(l), Len(l))
    <3>1. \A j \in 1 .. Len(s.lines[t].open) : l[Len(l) + j] = LoopOf(p, s.lines[t].open[j])
      BY <2>3
    <3>2. Len(l) = Len(l) + Len(s.lines[t].open)
      BY <2>2, <2>3
    <3>3. QED BY <2>4, <2>5, <3>1, <3>2 DEF Frame
  <2>7. QED BY <2>1, <2>2, <2>6
<1>7. \A i \in 1 .. Len(o2) + 1 :
        Frame(s, p, i, At(g2, t, i), Kind(o2, i), l, e2, h2[i], h2[i + 1])
  <2>1. Len(o2) + 1 = d + 1 /\ d + 1 + 1 = d + 2 /\ 1 .. Len(o2) + 1 = 1 .. d \cup {d + 1}
    BY <1>1, <1>2
  <2> HIDE DEF d
  <2>2. QED BY <1>5, <1>6, <2>1
<1>8. Len(o2) + 2 = d + 2 /\ h2[1] = 0
  BY <1>1, <1>2, <1>3
<1> HIDE DEF d
<1>9. Stack(s, p, g2, t, o2, l, e2, h2)
  BY <1>2, <1>3, <1>4, <1>7, <1>8 DEF Stack
<1>10. QED BY <1>9 DEF g2, o2

LEMMA Returns ==
  ASSUME NEW s, NEW p, NEW g \in Seq(Nat), NEW n, NEW o \in Opened, NEW l,
         NEW e \in 0 .. MaxEvents, NEW h,
         Fits(s, p), Stack(s, p, g, n, o, l, e, h), Len(o) > 0, s.lines[n].open = << >>,
         NEW h2 \in [1 .. Len(o) + 1 -> Nat], \A i \in 1 .. Len(o) + 1 : h2[i] = h[i]
  PROVE  Stack(s, p, Front(g), Last(g), Front(o), l, e, h2)
<1> DEFINE d == Len(o)
           g2 == Front(g)
           o2 == Front(o)
<1>1. /\ d \in Nat /\ d > 0 /\ Len(g) = d /\ d + 1 + 1 = d + 2
      /\ h \in [1 .. d + 2 -> Nat] /\ h[1] = 0 /\ h[d + 2] = Len(l)
      /\ \A i, j \in 1 .. d + 2 : i <= j => h[i] <= h[j]
      /\ \A i \in 1 .. d + 1 : Frame(s, p, i, At(g, n, i), Kind(o, i), l, e, h[i], h[i + 1])
  BY DEF Opened, Stack
<1>2. /\ Len(g2) = d - 1 /\ Len(o2) = d - 1 /\ Last(g) = g[d]
      /\ \A i \in 1 .. d - 1 : g2[i] = g[i] /\ o2[i] = o[i]
  BY <1>1 DEF Opened, Front, Last
<1>3. h[d + 1] = Len(l)
  <2>1. /\ n \in DOMAIN s.lines /\ Kind(o, Len(o) + 1) \in s.lines[n].by
        /\ h[Len(o) + 1] \in Nat /\ h[Len(o) + 2] = Len(l)
        /\ Len(l) = h[Len(o) + 1] + Len(s.lines[n].open)
        /\ \A j \in 1 .. Len(s.lines[n].open) :
             l[h[Len(o) + 1] + j] = LoopOf(p, s.lines[n].open[j])
        /\ Len(g) + s.lines[n].calls + CallRoom(s, e) < MAX_GOSUB_NEST
        /\ h[Len(o) + 1] + s.lines[n].loops + LoopRoom(s, e) <= MAX_FOR_NEST
    BY ONLY o \in Opened, Fits(s, p), Stack(s, p, g, n, o, l, e, h), TopFrame, Zenon
  <2>2. Len(s.lines[n].open) = 0
    OBVIOUS
  <2>3. QED BY <2>1, <2>2
<1>4. /\ h2 \in [1 .. d + 1 -> Nat] /\ h2[1] = 0 /\ h2[d + 1] = Len(l)
      /\ \A i \in 1 .. d + 1 : h2[i] = h[i]
  <2>1. h2 \in [1 .. d + 1 -> Nat] /\ \A i \in 1 .. d + 1 : h2[i] = h[i]
    OBVIOUS
  <2>2. 1 \in 1 .. d + 1 /\ d + 1 \in 1 .. d + 1
    BY <1>1
  <2>3. QED BY <1>1, <1>3, <2>1, <2>2
<1> HIDE DEF g2, o2
<1>5. \A i, j \in 1 .. d + 1 : i <= j => h2[i] <= h2[j]
  BY <1>1, <1>4
<1>6. ASSUME NEW i \in 1 .. d
      PROVE  Frame(s, p, i, At(g2, Last(g), i), Kind(o2, i), l, e, h2[i], h2[i + 1])
  <2>1. At(g2, Last(g), i) = At(g, n, i)
    <3>1. i \in Nat /\ i <= Len(g) /\ (i <= Len(g2) <=> i # d) /\ (i # d => i \in 1 .. d - 1)
      BY <1>1, <1>2
    <3>2. CASE i = d
      BY ONLY <1>2, <3>1, <3>2, Zenon DEF At
    <3>3. CASE i # d
      BY ONLY <1>2, <3>1, <3>3, Zenon DEF At
    <3>4. QED BY <3>2, <3>3
  <2>2. Kind(o2, i) = Kind(o, i)
    <3>1. i \in Nat /\ \A j \in 1 .. i - 1 : o2[j] = o[j]
      BY <1>1, <1>2
    <3>2. QED BY ONLY <3>1, SameKind
  <2>3. h2[i] = h[i] /\ h2[i + 1] = h[i + 1]
    BY <1>1, <1>4
  <2>4. Frame(s, p, i, At(g, n, i), Kind(o, i), l, e, h[i], h[i + 1])
    <3>1. i \in 1 .. d + 1
      BY <1>1
    <3>2. QED BY <1>1, <3>1
  <2>5. QED BY <2>1, <2>2, <2>3, <2>4
<1>7. Len(o2) + 2 = d + 1 /\ Len(o2) + 1 = d /\ Len(g2) = Len(o2)
  BY <1>1, <1>2
<1> HIDE DEF d
<1>8. Stack(s, p, g2, Last(g), o2, l, e, h2)
  BY <1>4, <1>5, <1>6, <1>7 DEF Stack
<1>9. QED BY <1>8 DEF g2, o2, d

-----------------------------------------------------------------------------
(***************************************************************************)
(* What the main program was when the first event came.                    *)
(***************************************************************************)
LEMMA SavedKept ==
  ASSUME NEW m, NEW g, NEW g2, NEW o, NEW o2, NEW l, NEW l2, NEW v, NEW v2, NEW h, NEW h2,
         NEW k \in Nat, k > 0, h[k + 1] \in Nat, Saved(m, g, o, l, v, h, k),
         \A j \in 1 .. k : g2[j] = g[j] /\ o2[j] = o[j],
         h2[k + 1] = h[k + 1], \A j \in 1 .. h[k + 1] : l2[j] = l[j],
         \A x \in MainVars : v2[x] = v[x]
  PROVE  Saved(m, g2, o2, l2, v2, h2, k)
<1>1. /\ o[k] = "event" /\ \A j \in 1 .. k - 1 : o[j] # "event"
      /\ m.at = g[k] /\ m.gosub = SubSeq(g, 1, k - 1)
      /\ m.loops = SubSeq(l, 1, h[k + 1]) /\ \A x \in MainVars : m.val[x] = v[x]
  BY DEF Saved
<1>2. o2[k] = "event" /\ g2[k] = g[k] /\ \A j \in 1 .. k - 1 : o2[j] # "event"
  BY <1>1
<1>3. SubSeq(g2, 1, k - 1) = SubSeq(g, 1, k - 1)
  OBVIOUS
<1>4. SubSeq(l2, 1, h[k + 1]) = SubSeq(l, 1, h[k + 1])
  <2> DEFINE t == h[k + 1]
  <2>1. t \in Nat /\ \A j \in 1 .. t : l2[j] = l[j]
    OBVIOUS
  <2> HIDE DEF t
  <2>2. SubSeq(l2, 1, t) = SubSeq(l, 1, t)
    BY <2>1
  <2>3. QED BY <2>2 DEF t
<1>5. QED BY <1>1, <1>2, <1>3, <1>4 DEF Saved

LEMMA SavedFirst ==
  ASSUME NEW g \in Seq(Nat), NEW n \in Nat, NEW o \in Opened, NEW l \in Loops, NEW v, NEW h,
         Len(g) = Len(o), \A j \in 1 .. Len(o) : o[j] # "event", h[Len(o) + 2] = Len(l)
  PROVE  Saved([at |-> n, gosub |-> g, loops |-> l, val |-> v], Append(g, n),
               Append(o, "event"), l, v, h, Len(o) + 1)
<1> DEFINE m == [at |-> n, gosub |-> g, loops |-> l, val |-> v]
           g2 == Append(g, n)
           o2 == Append(o, "event")
           k == Len(o) + 1
<1>1. /\ Len(o) \in Nat /\ k \in Nat /\ k - 1 = Len(g) /\ k + 1 = Len(o) + 2
      /\ o2[k] = "event" /\ g2[k] = n
      /\ \A j \in 1 .. k - 1 : o2[j] = o[j] /\ g2[j] = g[j]
  BY DEF Opened
<1>2. SubSeq(g2, 1, k - 1) = g
  <2>1. SubSeq(g2, 1, Len(g)) = g
    <3>1. \A j \in 1 .. Len(g) : g2[j] = g[j]
      BY <1>1
    <3> HIDE DEF g2
    <3>2. SubSeq(g2, 1, Len(g)) = [j \in 1 .. Len(g) |-> g[j]]
      BY <3>1
    <3>3. QED BY <3>2
  <2>2. QED BY <1>1, <2>1
<1>3. SubSeq(l, 1, Len(l)) = l
  BY DEF Loops
<1>4. m.at = n /\ m.gosub = g /\ m.loops = l /\ m.val = v
  OBVIOUS
<1> HIDE DEF m, g2, o2, k
<1>5. Saved(m, g2, o2, l, v, h, k)
  <2>1. o2[k] = "event" /\ \A j \in 1 .. k - 1 : o2[j] # "event"
    BY <1>1 DEF k
  <2>2. m.at = g2[k] /\ m.gosub = SubSeq(g2, 1, k - 1)
    BY <1>1, <1>2, <1>4
  <2>3. m.loops = SubSeq(l, 1, h[k + 1]) /\ \A x \in MainVars : m.val[x] = v[x]
    BY <1>1, <1>3, <1>4
  <2>4. QED BY <2>1, <2>2, <2>3 DEF Saved
<1>6. QED BY <1>5 DEF m, g2, o2, k

LEMMA MainKind ==
  ASSUME NEW o \in Opened, NEW s, NEW n, Kind(o, Len(o) + 1) \in s.lines[n].by
  PROVE  /\ HasEvent(o) => "event" \in s.lines[n].by
         /\ ~HasEvent(o) => s.lines[n].by \cap {"main", "sub"} # {}
         /\ s.lines[n].by \subseteq {"main"} => Len(o) = 0
<1>1. Len(o) \in Nat /\ Len(o) + 1 \in Nat /\ DOMAIN o = 1 .. (Len(o) + 1) - 1
  BY DEF Opened
<1>2. HasEvent(o) => Kind(o, Len(o) + 1) = "event"
  BY <1>1, Kinds DEF HasEvent
<1>3. ~HasEvent(o) => Kind(o, Len(o) + 1) \in {"main", "sub"}
  BY <1>1, Kinds DEF HasEvent
<1>4. Kind(o, Len(o) + 1) = "main" => Len(o) = 0
  BY <1>1 DEF Kind
<1>5. QED BY <1>2, <1>3, <1>4

-----------------------------------------------------------------------------
(***************************************************************************)
(* The routine that runs goes on.                                          *)
(***************************************************************************)
LEMMA StackedMoves ==
  ASSUME NEW s, NEW p, NEW g, NEW n, NEW o \in Opened, NEW l, NEW l2, NEW e \in 0 .. MaxEvents,
         NEW v, NEW v2, NEW m, NEW k, NEW q, NEW h, Fits(s, p), Stack(s, p, g, n, o, l, e, h),
         HasEvent(o) => \E a \in 1 .. Len(o) : Saved(m, g, o, l, v, h, a),
         Leads(s, n, k, q), Len(l2) = h[Len(o) + 1] + Len(q),
         \A j \in 1 .. h[Len(o) + 1] : l2[j] = l[j],
         \A j \in 1 .. Len(q) : l2[h[Len(o) + 1] + j] = LoopOf(p, q[j]),
         HasEvent(o) => \A x \in MainVars : v2[x] = v[x]
  PROVE  Stacked(s, p, g, k, o, l2, e, v2, m)
<1> DEFINE h2 == [h EXCEPT ![Len(o) + 2] = Len(l2)]
<1>1. Stack(s, p, g, k, o, l2, e, h2)
  BY Moves
<1>2. ASSUME HasEvent(o) PROVE \E a \in 1 .. Len(o) : Saved(m, g, o, l2, v2, h2, a)
  <2>1. PICK a \in 1 .. Len(o) : Saved(m, g, o, l, v, h, a)
    BY <1>2
  <2>2. /\ Len(o) \in Nat /\ h \in [1 .. Len(o) + 2 -> Nat]
        /\ \A i, j \in 1 .. Len(o) + 2 : i <= j => h[i] <= h[j]
    BY DEF Opened, Stack
  <2>3. /\ a \in Nat /\ a > 0 /\ a + 1 \in 1 .. Len(o) + 2 /\ a + 1 # Len(o) + 2
        /\ Len(o) + 1 \in 1 .. Len(o) + 2 /\ a + 1 <= Len(o) + 1
    BY <2>2
  <2>4. h[a + 1] \in Nat /\ h[Len(o) + 1] \in Nat /\ h[a + 1] <= h[Len(o) + 1]
    BY <2>2, <2>3
  <2>5. h2[a + 1] = h[a + 1]
    BY <2>2, <2>3
  <2>6. \A j \in 1 .. h[a + 1] : l2[j] = l[j]
    BY <2>4
  <2>7. \A x \in MainVars : v2[x] = v[x]
    BY <1>2
  <2> HIDE DEF h2
  <2>8. Saved(m, g, o, l2, v2, h2, a)
    BY ONLY <2>1, <2>3, <2>4, <2>5, <2>6, <2>7, SavedKept
  <2>9. QED BY <2>8
<1> HIDE DEF h2
<1>3. QED BY <1>1, <1>2 DEF Stacked

LEMMA GoesOn ==
  ASSUME NEW s, NEW p, NEW g, NEW n, NEW o \in Opened, NEW l \in Loops, NEW e \in 0 .. MaxEvents,
         NEW v, NEW v2, NEW m, NEW k, Fits(s, p), Stacked(s, p, g, n, o, l, e, v, m),
         Leads(s, n, k, s.lines[n].open), HasEvent(o) => \A x \in MainVars : v2[x] = v[x]
  PROVE  Stacked(s, p, g, k, o, l, e, v2, m)
<1>1. PICK h : /\ Stack(s, p, g, n, o, l, e, h)
               /\ HasEvent(o) => \E a \in 1 .. Len(o) : Saved(m, g, o, l, v, h, a)
  BY DEF Stacked
<1> DEFINE q == s.lines[n].open
           b == h[Len(o) + 1]
<1>2. /\ b \in Nat /\ Len(l) = b + Len(q)
      /\ \A j \in 1 .. Len(q) : l[b + j] = LoopOf(p, q[j])
  <2>1. Stack(s, p, g, n, o, l, e, h)
    BY <1>1
  <2>2. TopLoops(s, p, n, l, h[Len(o) + 1])
    BY ONLY o \in Opened, Fits(s, p), <2>1, LoopsOnTop, Zenon
  <2>3. QED BY ONLY <2>2, Zenon DEF TopLoops
<1>3. \A j \in 1 .. b : l[j] = l[j]
  OBVIOUS
<1>4. QED BY <1>1, <1>2, <1>3, StackedMoves

\* A loop is opened.
LEMMA OpensLoop ==
  ASSUME NEW s, NEW p, NEW g, NEW n, NEW o \in Opened, NEW l \in Loops, NEW e \in 0 .. MaxEvents,
         NEW v, NEW v2, NEW m, NEW k, Fits(s, p), Stacked(s, p, g, n, o, l, e, v, m),
         Leads(s, n, k, Append(s.lines[n].open, n)),
         HasEvent(o) => \A x \in MainVars : v2[x] = v[x]
  PROVE  Stacked(s, p, g, k, o, Append(l, LoopOf(p, n)), e, v2, m)
<1>1. PICK h : /\ Stack(s, p, g, n, o, l, e, h)
               /\ HasEvent(o) => \E a \in 1 .. Len(o) : Saved(m, g, o, l, v, h, a)
  BY DEF Stacked
<1> DEFINE q == s.lines[n].open
           q2 == Append(q, n)
           b == h[Len(o) + 1]
           l2 == Append(l, LoopOf(p, n))
<1>2. /\ b \in Nat /\ Len(l) = b + Len(q) /\ n \in DOMAIN s.lines
      /\ \A j \in 1 .. Len(q) : l[b + j] = LoopOf(p, q[j])
  <2>1. Stack(s, p, g, n, o, l, e, h)
    BY <1>1
  <2>2. TopLoops(s, p, n, l, h[Len(o) + 1])
    BY ONLY o \in Opened, Fits(s, p), <2>1, LoopsOnTop, Zenon
  <2>3. QED BY ONLY <2>2, Zenon DEF TopLoops
<1>3. q \in Seq(Nat) /\ Len(q) \in Nat /\ n \in Nat
  BY <1>2, Shapes
<1> HIDE DEF q, b
<1>4. /\ Len(l) \in Nat /\ Len(l2) = Len(l) + 1 /\ l2[Len(l) + 1] = LoopOf(p, n)
      /\ \A j \in 1 .. Len(l) : l2[j] = l[j]
  BY DEF Loops
<1>5. /\ Len(q2) = Len(q) + 1 /\ q2[Len(q) + 1] = n /\ \A j \in 1 .. Len(q) : q2[j] = q[j]
  BY <1>3
<1> HIDE DEF q2, l2
<1>6. Len(l2) = b + Len(q2) /\ \A j \in 1 .. b : l2[j] = l[j]
  BY <1>2, <1>3, <1>4, <1>5
<1>7. ASSUME NEW j \in 1 .. Len(q2) PROVE l2[b + j] = LoopOf(p, q2[j])
  <2>1. CASE j = Len(q) + 1
    <3>1. b + j = Len(l) + 1
      BY <1>2, <1>3, <2>1
    <3>2. QED BY <1>4, <1>5, <2>1, <3>1
  <2>2. CASE j \in 1 .. Len(q)
    <3>1. b + j \in 1 .. Len(l)
      BY <1>2, <1>3, <2>2
    <3>2. QED BY <1>2, <1>4, <1>5, <2>2, <3>1
  <2>3. QED BY <1>3, <1>5, <2>1, <2>2
<1>8. Leads(s, n, k, q2)
  BY DEF q2, q
<1>9. Stacked(s, p, g, k, o, l2, e, v2, m)
  <2>1. /\ Len(l2) = h[Len(o) + 1] + Len(q2) /\ \A j \in 1 .. h[Len(o) + 1] : l2[j] = l[j]
        /\ \A j \in 1 .. Len(q2) : l2[h[Len(o) + 1] + j] = LoopOf(p, q2[j])
    BY <1>6, <1>7 DEF b
  <2>2. HasEvent(o) => \A x \in MainVars : v2[x] = v[x]
    OBVIOUS
  <2>3. QED BY ONLY o \in Opened, e \in 0 .. MaxEvents, Fits(s, p), <1>1, <1>8, <2>1, <2>2,
                    StackedMoves
<1>10. QED BY <1>9 DEF l2

\* The innermost loop is the one opened last; it is closed.
LEMMA ClosesLoop ==
  ASSUME NEW s, NEW p, NEW g, NEW n, NEW o \in Opened, NEW l \in Loops, NEW e \in 0 .. MaxEvents,
         NEW v, NEW v2, NEW m, Fits(s, p), Stacked(s, p, g, n, o, l, e, v, m),
         s.lines[n].open # << >>, HasEvent(o) => \A x \in MainVars : v2[x] = v[x]
  PROVE  /\ l # << >> /\ Last(l) = LoopOf(p, Last(s.lines[n].open))
         /\ \A k : Leads(s, n, k, Front(s.lines[n].open)) =>
                     Stacked(s, p, g, k, o, Front(l), e, v2, m)
<1>1. PICK h : /\ Stack(s, p, g, n, o, l, e, h)
               /\ HasEvent(o) => \E a \in 1 .. Len(o) : Saved(m, g, o, l, v, h, a)
  BY DEF Stacked
<1> DEFINE q == s.lines[n].open
           q2 == Front(q)
           b == h[Len(o) + 1]
           l2 == Front(l)
<1>2. /\ b \in Nat /\ Len(l) = b + Len(q) /\ n \in DOMAIN s.lines
      /\ \A j \in 1 .. Len(q) : l[b + j] = LoopOf(p, q[j])
  <2>1. Stack(s, p, g, n, o, l, e, h)
    BY <1>1
  <2>2. TopLoops(s, p, n, l, h[Len(o) + 1])
    BY ONLY o \in Opened, Fits(s, p), <2>1, LoopsOnTop, Zenon
  <2>3. QED BY ONLY <2>2, Zenon DEF TopLoops
<1>3. q \in Seq(Nat) /\ Len(q) \in Nat /\ n \in Nat /\ q # << >>
  BY <1>2, Shapes
<1> HIDE DEF q, b
<1>4. Len(q) >= 1 /\ Len(l) \in Nat /\ Len(l) >= 1
  <2>1. Len(q) >= 1
    BY ONLY <1>3, EmptySeq
  <2>2. Len(l) \in Nat
    BY DEF Loops
  <2>3. QED BY ONLY <1>2, <1>3, <2>1, <2>2
<1>5. /\ Len(l2) = Len(l) - 1 /\ Last(l) = l[Len(l)] /\ l # << >>
      /\ \A j \in 1 .. Len(l) - 1 : l2[j] = l[j]
  <2>1. l \in Seq([at : Nat, to : Int, by : Int]) /\ l # << >>
    BY <1>4 DEF Loops
  <2>2. QED BY <2>1, FrontAndLast DEF l2
<1>6. /\ Len(q2) = Len(q) - 1 /\ Last(q) = q[Len(q)]
      /\ \A j \in 1 .. Len(q) - 1 : q2[j] = q[j]
  BY <1>3, FrontAndLast
<1> HIDE DEF q2, l2
<1>7. Last(l) = LoopOf(p, Last(q))
  BY <1>2, <1>3, <1>4, <1>5, <1>6
<1>8. Len(l2) = b + Len(q2) /\ \A j \in 1 .. b : l2[j] = l[j]
  BY <1>2, <1>3, <1>4, <1>5, <1>6
<1>9. ASSUME NEW j \in 1 .. Len(q2) PROVE l2[b + j] = LoopOf(p, q2[j])
  <2>1. j \in 1 .. Len(q) /\ j \in 1 .. Len(q) - 1 /\ b + j \in 1 .. Len(l) - 1
    BY <1>2, <1>3, <1>4, <1>6
  <2>2. QED BY <1>2, <1>5, <1>6, <2>1
<1>10. ASSUME NEW k, Leads(s, n, k, q2)
       PROVE  Stacked(s, p, g, k, o, l2, e, v2, m)
  <2>1. /\ Len(l2) = h[Len(o) + 1] + Len(q2) /\ \A j \in 1 .. h[Len(o) + 1] : l2[j] = l[j]
        /\ \A j \in 1 .. Len(q2) : l2[h[Len(o) + 1] + j] = LoopOf(p, q2[j])
    BY <1>8, <1>9 DEF b
  <2>2. HasEvent(o) => \A x \in MainVars : v2[x] = v[x]
    OBVIOUS
  <2>3. QED BY ONLY o \in Opened, e \in 0 .. MaxEvents, Fits(s, p), <1>1, <1>10, <2>1, <2>2,
                    StackedMoves
<1>11. QED BY <1>5, <1>7, <1>10 DEF q, q2, l2

-----------------------------------------------------------------------------
(***************************************************************************)
(* Calls, interrupts and returns.                                          *)
(***************************************************************************)
LEMMA EventsOpen ==
  ASSUME NEW o \in Opened
  PROVE  /\ HasEvent(Append(o, "event")) /\ (HasEvent(Append(o, "sub")) <=> HasEvent(o))
         /\ \A c \in {"sub", "event"} : Append(o, c) \in Opened
<1>1. Len(o) \in Nat /\ o \in Seq({"sub", "event"})
  BY DEF Opened
<1>2. ASSUME NEW c \in {"sub", "event"}
      PROVE  /\ DOMAIN Append(o, c) = 1 .. Len(o) + 1 /\ Append(o, c)[Len(o) + 1] = c
             /\ \A j \in 1 .. Len(o) : Append(o, c)[j] = o[j]
             /\ Append(o, c) \in Opened
  BY <1>1 DEF Opened
<1>3. HasEvent(Append(o, "event"))
  <2>1. Append(o, "event")[Len(o) + 1] = "event" /\ Len(o) + 1 \in DOMAIN Append(o, "event")
    BY <1>1, <1>2
  <2>2. QED BY <2>1 DEF HasEvent
<1>4. HasEvent(Append(o, "sub")) <=> HasEvent(o)
  <2> DEFINE o2 == Append(o, "sub")
  <2>1. /\ DOMAIN o2 = 1 .. Len(o) + 1 /\ o2[Len(o) + 1] = "sub" /\ DOMAIN o = 1 .. Len(o)
        /\ \A j \in 1 .. Len(o) : o2[j] = o[j]
    BY <1>1, <1>2
  <2>2. 1 .. Len(o) + 1 = 1 .. Len(o) \cup {Len(o) + 1}
    BY <1>1
  <2> HIDE DEF o2
  <2>3. HasEvent(o2) <=> HasEvent(o)
    BY <2>1, <2>2 DEF HasEvent
  <2>4. QED BY <2>3 DEF o2
<1>5. QED BY <1>2, <1>3, <1>4

LEMMA StackedCalls ==
  ASSUME NEW s, NEW p, NEW g \in Seq(Nat), NEW n \in Nat, NEW o \in Opened, NEW l \in Loops,
         NEW e \in 0 .. MaxEvents, NEW e2 \in {e, e + 1}, e2 <= MaxEvents, NEW h, NEW v,
         NEW m, NEW m2, NEW t, NEW c \in {"sub", "event"},
         Fits(s, p), Stack(s, p, g, n, o, l, e, h),
         HasEvent(o) => \E k \in 1 .. Len(o) : Saved(m, g, o, l, v, h, k),
         HasEvent(o) => m2 = m,
         c = "event" /\ ~HasEvent(o) => m2 = [at |-> n, gosub |-> g, loops |-> l, val |-> v],
         t \in DOMAIN s.lines, s.lines[t].open = << >>,
         Kind(Append(o, c), Len(o) + 2) \in s.lines[t].by,
         Len(g) + 1 + s.lines[t].calls + CallRoom(s, e2) < MAX_GOSUB_NEST,
         Len(l) + s.lines[t].loops + LoopRoom(s, e2) <= MAX_FOR_NEST
  PROVE  Stacked(s, p, Append(g, n), t, Append(o, c), l, e2, v, m2)
<1>0. PICK h2, g2, o2 :
        /\ h2 = [i \in 1 .. Len(o) + 3 |-> IF i = Len(o) + 3 THEN Len(l) ELSE h[i]]
        /\ g2 = Append(g, n) /\ o2 = Append(o, c)
  OBVIOUS
<1>1. /\ Len(o) \in Nat /\ Len(g) = Len(o) /\ Len(l) \in Nat
      /\ h \in [1 .. Len(o) + 2 -> Nat] /\ h[Len(o) + 2] = Len(l)
  BY DEF Opened, Stack, Loops
<1>2. Stack(s, p, g2, t, o2, l, e2, h2)
  <2>1. Len(l) \in Nat /\ h2 = [i \in 1 .. Len(o) + 3 |-> IF i = Len(o) + 3 THEN Len(l) ELSE h[i]]
    BY <1>0, <1>1
  <2>2. Stack(s, p, Append(g, n), t, Append(o, c), l, e2, h2)
    <3>1. /\ s.lines[t].open = << >> /\ Kind(Append(o, c), Len(o) + 2) \in s.lines[t].by
          /\ Len(g) + 1 + s.lines[t].calls + CallRoom(s, e2) < MAX_GOSUB_NEST
          /\ Len(l) + s.lines[t].loops + LoopRoom(s, e2) <= MAX_FOR_NEST
      OBVIOUS
    <3>2. QED BY ONLY g \in Seq(Nat), n \in Nat, o \in Opened, e \in 0 .. MaxEvents,
                      e2 \in {e, e + 1}, e2 <= MaxEvents, c \in {"sub", "event"}, Fits(s, p),
                      Stack(s, p, g, n, o, l, e, h), t \in DOMAIN s.lines, <2>1, <3>1, Opens,
                      ZenonT(60)
  <2>3. QED BY <1>0, <2>2
<1>3. /\ Len(o2) = Len(o) + 1 /\ \A i \in 1 .. Len(o) + 2 : h2[i] = h[i]
      /\ \A j \in 1 .. Len(o) : g2[j] = g[j] /\ o2[j] = o[j]
  BY <1>0, <1>1 DEF Opened
<1>4. ASSUME HasEvent(o2) PROVE \E k \in 1 .. Len(o2) : Saved(m2, g2, o2, l, v, h2, k)
  <2>1. CASE HasEvent(o)
    <3>1. PICK k \in 1 .. Len(o) : Saved(m, g, o, l, v, h, k)
      BY <2>1
    <3>2. k \in Nat /\ k > 0 /\ k \in 1 .. Len(o2) /\ k + 1 \in 1 .. Len(o) + 2
      BY <1>1, <1>3
    <3>3. \A j \in 1 .. k : g2[j] = g[j] /\ o2[j] = o[j]
      BY <1>1, <1>3
    <3>4. h[k + 1] \in Nat /\ h2[k + 1] = h[k + 1]
      BY <1>1, <1>3, <3>2
    <3>5. (\A j \in 1 .. h[k + 1] : l[j] = l[j]) /\ \A x \in MainVars : v[x] = v[x]
      OBVIOUS
    <3>6. Saved(m, g2, o2, l, v, h2, k)
      <4>1. k \in Nat /\ k > 0
        BY <3>2
      <4>2. QED BY ONLY <3>1, <3>3, <3>4, <4>1, SavedKept
    <3>7. QED BY <2>1, <3>2, <3>6
  <2>2. CASE ~HasEvent(o)
    <3>1. c = "event"
      BY <1>4, <2>2, <1>0, EventsOpen
    <3>2. \A j \in 1 .. Len(o) : o[j] # "event"
      <4>1. DOMAIN o = 1 .. Len(o)
        BY DEF Opened
      <4>2. QED BY ONLY <2>2, <4>1, Zenon DEF HasEvent
    <3>3. h2[Len(o) + 2] = Len(l)
      BY <1>1, <1>3
    <3> DEFINE m3 == [at |-> n, gosub |-> g, loops |-> l, val |-> v]
    <3>4. Saved(m3, Append(g, n), Append(o, "event"), l, v, h2, Len(o) + 1)
      BY <1>1, <3>2, <3>3, SavedFirst
    <3>5. Saved(m2, g2, o2, l, v, h2, Len(o) + 1)
      BY <1>0, <2>2, <3>1, <3>4
    <3>6. Len(o) + 1 \in 1 .. Len(o2)
      BY <1>1, <1>3
    <3>7. QED BY <3>5, <3>6
  <2>3. QED BY <2>1, <2>2
<1>5. Stacked(s, p, g2, t, o2, l, e2, v, m2)
  BY <1>2, <1>4 DEF Stacked
<1>6. QED BY <1>0, <1>5

LEMMA CallsSub ==
  ASSUME NEW s, NEW p, NEW g \in Seq(Nat), NEW n \in Nat, NEW o \in Opened, NEW l \in Loops,
         NEW e \in 0 .. MaxEvents, NEW v, NEW m, NEW r \in Nat, NEW t,
         Fits(s, p), Stacked(s, p, g, n, o, l, e, v, m),
         Leads(s, n, r, s.lines[n].open), MayCall(s, n, t)
  PROVE  /\ Len(g) + 1 < MAX_GOSUB_NEST
         /\ Stacked(s, p, Append(g, r), t, Append(o, "sub"), l, e, v, m)
<1>1. PICK h0 : Stack(s, p, g, n, o, l, e, h0)
  BY DEF Stacked
<1> DEFINE b == h0[Len(o) + 1]
           w == Len(s.lines[n].open)
           c == s.lines[n].calls
           f == s.lines[n].loops
           c2 == s.lines[t].calls
           f2 == s.lines[t].loops
           y == CallRoom(s, e)
           z == LoopRoom(s, e)
<1>2. /\ n \in DOMAIN s.lines /\ Kind(o, Len(o) + 1) \in s.lines[n].by
      /\ b \in Nat /\ h0[Len(o) + 2] = Len(l)
      /\ Len(l) = b + w
      /\ \A j \in 1 .. w : l[b + j] = LoopOf(p, s.lines[n].open[j])
      /\ Len(g) + c + y < MAX_GOSUB_NEST
      /\ b + f + z <= MAX_FOR_NEST
  BY <1>1, TopFrame, Zenon
<1>3. /\ t \in DOMAIN s.lines /\ s.lines[t].open = << >>
      /\ s.lines[n].by \cap {"main", "sub"} # {} => "sub" \in s.lines[t].by
      /\ "event" \in s.lines[n].by => "event" \in s.lines[t].by
      /\ c2 + 1 <= c /\ w + f2 <= f
  BY DEF MayCall
<1>4. /\ w \in Nat /\ c \in Nat /\ f \in Nat /\ c2 \in Nat /\ f2 \in Nat /\ y \in Nat /\ z \in Nat
      /\ Len(g) \in Nat /\ Len(o) \in Nat /\ Len(l) \in Nat
  <2>1. w \in Nat /\ c \in Nat /\ f \in Nat /\ c2 \in Nat /\ f2 \in Nat
    BY <1>2, <1>3, Shapes
  <2>2. y \in Nat /\ z \in Nat
    BY Rooms
  <2>3. Len(g) \in Nat /\ Len(o) \in Nat /\ Len(l) \in Nat
    BY DEF Opened, Loops
  <2>4. QED BY <2>1, <2>2, <2>3
<1>5. /\ Len(g) + 1 + c2 + y < MAX_GOSUB_NEST /\ Len(l) + f2 + z <= MAX_FOR_NEST
      /\ Len(g) + 1 < MAX_GOSUB_NEST
  <2> HIDE DEF b, w, c, f, c2, f2, y, z
  <2>1. QED BY <1>2, <1>3, <1>4, Constants
<1>6. Stacked(s, p, g, r, o, l, e, v, m)
  BY GoesOn
<1>7. PICK h : /\ Stack(s, p, g, r, o, l, e, h)
               /\ HasEvent(o) => \E k \in 1 .. Len(o) : Saved(m, g, o, l, v, h, k)
  BY <1>6 DEF Stacked
<1>8. Kind(Append(o, "sub"), Len(o) + 2) \in s.lines[t].by
  <2> DEFINE o2 == Append(o, "sub")
  <2>1. /\ o2 \in Opened /\ Len(o2) = Len(o) + 1 /\ Len(o2) + 1 = Len(o) + 2
        /\ (HasEvent(o2) <=> HasEvent(o))
    BY <1>4, EventsOpen DEF Opened
  <2> HIDE DEF o2
  <2>2. /\ HasEvent(o) => "event" \in s.lines[n].by
        /\ ~HasEvent(o) => s.lines[n].by \cap {"main", "sub"} # {}
    BY <1>2, MainKind
  <2>3. DOMAIN o2 = 1 .. (Len(o) + 2) - 1 /\ Len(o) + 2 \in Nat /\ Len(o) + 2 # 1
    BY <1>4, <2>1 DEF Opened
  <2>4. CASE HasEvent(o)
    <3>1. Kind(o2, Len(o) + 2) = "event"
      BY <2>1, <2>3, <2>4, Kinds DEF HasEvent
    <3>2. QED BY <1>3, <2>2, <2>4, <3>1 DEF o2
  <2>5. CASE ~HasEvent(o)
    <3>1. Kind(o2, Len(o) + 2) = "sub"
      BY <2>1, <2>3, <2>5 DEF HasEvent, Kind
    <3>2. QED BY <1>3, <2>2, <2>5, <3>1 DEF o2
  <2>6. QED BY <2>4, <2>5
<1>9. Stacked(s, p, Append(g, r), t, Append(o, "sub"), l, e, v, m)
  <2>1. e \in {e, e + 1} /\ e <= MaxEvents /\ "sub" \in {"sub", "event"} /\ "sub" # "event"
    BY Constants
  <2>2. QED BY <1>3, <1>5, <1>7, <1>8, <2>1, StackedCalls
<1>10. QED BY <1>5, <1>9

LEMMA Interrupts ==
  ASSUME NEW s, NEW p, NEW g \in Seq(Nat), NEW n \in Nat, NEW o \in Opened, NEW l \in Loops,
         NEW e \in 0 .. MaxEvents, e < MaxEvents, NEW v, NEW m, NEW m2, NEW t,
         Fits(s, p), Stacked(s, p, g, n, o, l, e, v, m), IsHandler(s, t),
         m2 = IF HasEvent(o) THEN m ELSE [at |-> n, gosub |-> g, loops |-> l, val |-> v]
  PROVE  /\ Len(g) + 1 < MAX_GOSUB_NEST
         /\ Stacked(s, p, Append(g, n), t, Append(o, "event"), l, e + 1, v, m2)
<1>1. PICK h : /\ Stack(s, p, g, n, o, l, e, h)
               /\ HasEvent(o) => \E k \in 1 .. Len(o) : Saved(m, g, o, l, v, h, k)
  BY DEF Stacked
<1> DEFINE b == h[Len(o) + 1]
           w == Len(s.lines[n].open)
           c == s.lines[n].calls
           f == s.lines[n].loops
           c2 == s.lines[t].calls
           f2 == s.lines[t].loops
           y == CallRoom(s, e)
           z == LoopRoom(s, e)
           y2 == CallRoom(s, e + 1)
           z2 == LoopRoom(s, e + 1)
           cs == s.calls
           fs == s.loops
<1>2. /\ n \in DOMAIN s.lines /\ Kind(o, Len(o) + 1) \in s.lines[n].by
      /\ b \in Nat /\ h[Len(o) + 2] = Len(l)
      /\ Len(l) = b + w
      /\ \A j \in 1 .. w : l[b + j] = LoopOf(p, s.lines[n].open[j])
      /\ Len(g) + c + y < MAX_GOSUB_NEST
      /\ b + f + z <= MAX_FOR_NEST
  BY <1>1, TopFrame, Zenon
<1>3. /\ t \in DOMAIN s.lines /\ s.lines[t].open = << >> /\ "event" \in s.lines[t].by
      /\ c2 <= cs /\ f2 <= fs
  BY DEF IsHandler
<1>4. /\ w \in Nat /\ c \in Nat /\ f \in Nat /\ c2 \in Nat /\ f2 \in Nat /\ w <= f
      /\ cs \in Nat /\ fs \in Nat
  BY <1>2, <1>3, Shapes
<1>5. /\ y2 \in Nat /\ z2 \in Nat /\ y = y2 + 1 + cs /\ z = z2 + fs
      /\ Len(g) \in Nat /\ Len(o) \in Nat /\ Len(l) \in Nat
  BY Rooms DEF Opened, Loops
<1>6. /\ Len(g) + 1 + c2 + y2 < MAX_GOSUB_NEST /\ Len(l) + f2 + z2 <= MAX_FOR_NEST
      /\ Len(g) + 1 < MAX_GOSUB_NEST
  <2> HIDE DEF b, w, c, f, c2, f2, y, z, y2, z2, cs, fs
  <2>1. QED BY <1>2, <1>3, <1>4, <1>5, Constants
<1>7. Kind(Append(o, "event"), Len(o) + 2) \in s.lines[t].by
  <2> DEFINE o2 == Append(o, "event")
  <2>1. o2 \in Opened /\ Len(o2) = Len(o) + 1 /\ HasEvent(o2)
    BY <1>5, EventsOpen DEF Opened
  <2> HIDE DEF o2
  <2>2. DOMAIN o2 = 1 .. (Len(o) + 2) - 1 /\ Len(o) + 2 \in Nat
    BY <1>5, <2>1 DEF Opened
  <2>3. Kind(o2, Len(o) + 2) = "event"
    BY <2>1, <2>2, Kinds DEF HasEvent
  <2>4. QED BY <1>3, <2>3 DEF o2
<1>8. Stacked(s, p, Append(g, n), t, Append(o, "event"), l, e + 1, v, m2)
  <2>1. e + 1 \in {e, e + 1} /\ e + 1 <= MaxEvents /\ "event" \in {"sub", "event"}
    BY Constants
  <2>2. /\ HasEvent(o) => m2 = m
        /\ ~HasEvent(o) => m2 = [at |-> n, gosub |-> g, loops |-> l, val |-> v]
    OBVIOUS
  <2>3. QED BY <1>1, <1>3, <1>6, <1>7, <2>1, <2>2, StackedCalls
<1>9. QED BY <1>6, <1>8

LEMMA ComesBack ==
  ASSUME NEW s, NEW p, NEW g \in Seq(Nat), NEW n, NEW o \in Opened, NEW l \in Loops,
         NEW e \in 0 .. MaxEvents, NEW v, NEW m,
         Fits(s, p), Stacked(s, p, g, n, o, l, e, v, m), g # << >>, s.lines[n].open = << >>
  PROVE  /\ Stacked(s, p, Front(g), Last(g), Front(o), l, e, v, m)
         /\ Front(o) \in Opened
         /\ HasEvent(o) /\ ~HasEvent(Front(o)) =>
              /\ m.at = Last(g) /\ m.gosub = Front(g) /\ m.loops = l
              /\ \A x \in MainVars : m.val[x] = v[x]
         /\ HasEvent(Front(o)) => HasEvent(o)
<1>1. PICK h : /\ Stack(s, p, g, n, o, l, e, h)
               /\ HasEvent(o) => \E k \in 1 .. Len(o) : Saved(m, g, o, l, v, h, k)
  BY DEF Stacked
<1>0. PICK h2, g2, o2 :
        h2 = [i \in 1 .. Len(o) + 1 |-> h[i]] /\ g2 = Front(g) /\ o2 = Front(o)
  OBVIOUS
<1>2. /\ Len(o) \in Nat /\ Len(g) = Len(o) /\ Len(l) \in Nat /\ o \in Seq({"sub", "event"})
      /\ h \in [1 .. Len(o) + 2 -> Nat]
  BY <1>1 DEF Opened, Stack, Loops
<1>3. Len(o) > 0 /\ o # << >>
  BY <1>2
<1>4. /\ Len(o2) = Len(o) - 1 /\ o2 \in Opened /\ o2 \in Seq({"sub", "event"})
      /\ \A j \in 1 .. Len(o) - 1 : o2[j] = o[j]
  BY <1>0, <1>2, <1>3, FrontAndLast DEF Opened
<1>5. Len(g2) = Len(o) - 1 /\ Last(g) = g[Len(o)] /\ \A j \in 1 .. Len(o) - 1 : g2[j] = g[j]
  BY <1>0, <1>2, FrontAndLast
<1>6. h[Len(o) + 1] = Len(l) /\ Stack(s, p, g2, Last(g), o2, l, e, h2)
  <2>1. h2 \in [1 .. Len(o) + 1 -> Nat] /\ \A i \in 1 .. Len(o) + 1 : h2[i] = h[i]
    BY <1>0, <1>2
  <2>2. Stack(s, p, Front(g), Last(g), Front(o), l, e, h2)
    BY <1>1, <1>3, <2>1, Returns
  <2>3. TopLoops(s, p, n, l, h[Len(o) + 1])
    <3>1. Stack(s, p, g, n, o, l, e, h)
      BY <1>1
    <3>2. QED BY ONLY o \in Opened, Fits(s, p), <3>1, LoopsOnTop, Zenon
  <2>4. Len(s.lines[n].open) = 0
    OBVIOUS
  <2>5. h[Len(o) + 1] = Len(l)
    BY <2>3, <2>4 DEF TopLoops
  <2>6. QED BY <1>0, <2>2, <2>5
<1>7. g2 = SubSeq(g, 1, Len(o) - 1)
  BY <1>0, <1>2 DEF Front
<1>8. \A i \in 1 .. Len(o) + 1 : h2[i] = h[i]
  BY <1>0
<1>9. /\ DOMAIN o2 = 1 .. Len(o) - 1 /\ DOMAIN o = 1 .. Len(o)
      /\ 1 .. Len(o) - 1 \subseteq 1 .. Len(o)
      /\ HasEvent(o2) => HasEvent(o)
  <2>1. DOMAIN o2 = 1 .. Len(o) - 1 /\ DOMAIN o = 1 .. Len(o)
    BY <1>2, <1>4
  <2>2. 1 .. Len(o) - 1 \subseteq 1 .. Len(o)
    BY <1>2
  <2>3. QED BY <1>4, <2>1, <2>2, Zenon DEF HasEvent
<1>10. ASSUME HasEvent(o2) PROVE \E k \in 1 .. Len(o2) : Saved(m, g2, o2, l, v, h2, k)
  <2>1. PICK k \in 1 .. Len(o) : Saved(m, g, o, l, v, h, k)
    BY <1>1, <1>9, <1>10
  <2>2. k # Len(o)
    <3>1. \A j \in 1 .. k - 1 : o[j] # "event"
      BY <2>1 DEF Saved
    <3>2. PICK j \in 1 .. Len(o) - 1 : o[j] = "event"
      BY <1>4, <1>9, <1>10, Zenon DEF HasEvent
    <3>3. QED BY <1>2, <3>1, <3>2
  <2>3. /\ k \in Nat /\ k > 0 /\ k \in 1 .. Len(o2) /\ k + 1 \in 1 .. Len(o) + 1
        /\ \A j \in 1 .. k : g2[j] = g[j] /\ o2[j] = o[j]
    <3>1. Len(o) \in Nat /\ k \in 1 .. Len(o) /\ Len(o2) = Len(o) - 1
      BY <1>2, <1>4
    <3>2. /\ k \in Nat /\ k > 0 /\ k \in 1 .. Len(o2) /\ k + 1 \in 1 .. Len(o) + 1
          /\ \A j \in 1 .. k : j \in 1 .. Len(o) - 1
      BY ONLY <2>2, <3>1
    <3>3. \A j \in 1 .. Len(o) - 1 : g2[j] = g[j] /\ o2[j] = o[j]
      BY ONLY <1>4, <1>5, Zenon
    <3>4. QED BY ONLY <3>2, <3>3, Zenon
  <2>4. /\ h[k + 1] \in Nat /\ h2[k + 1] = h[k + 1] /\ \A j \in 1 .. h[k + 1] : l[j] = l[j]
        /\ \A x \in MainVars : v[x] = v[x]
    <3>1. h2[k + 1] = h[k + 1]
      BY ONLY <1>8, <2>3, Zenon
    <3>2. k + 1 \in 1 .. Len(o) + 2
      BY ONLY <1>2, <2>3
    <3>3. h[k + 1] \in Nat
      BY ONLY <1>2, <3>2
    <3>4. QED BY <3>1, <3>3, Zenon
  <2>5. Saved(m, g2, o2, l, v, h2, k)
    BY ONLY <2>1, <2>3, <2>4, SavedKept
  <2>6. QED BY <2>3, <2>5
<1>11. ASSUME HasEvent(o), ~HasEvent(o2)
       PROVE  /\ m.at = Last(g) /\ m.gosub = g2 /\ m.loops = l
              /\ \A x \in MainVars : m.val[x] = v[x]
  <2>1. PICK k \in 1 .. Len(o) : Saved(m, g, o, l, v, h, k)
    BY <1>1, <1>11
  <2>2. k = Len(o)
    <3>1. o[k] = "event"
      BY <2>1 DEF Saved
    <3>2. \A j \in 1 .. Len(o) - 1 : o[j] # "event"
      BY <1>4, <1>9, <1>11, Zenon DEF HasEvent
    <3>3. QED BY <1>2, <3>1, <3>2
  <2>3. /\ m.at = g[k] /\ m.gosub = SubSeq(g, 1, k - 1)
        /\ m.loops = SubSeq(l, 1, h[k + 1]) /\ \A x \in MainVars : m.val[x] = v[x]
    BY <2>1 DEF Saved
  <2>4. h[k + 1] = Len(l) /\ SubSeq(l, 1, Len(l)) = l
    BY <1>6, <2>2 DEF Loops
  <2>5. QED BY <1>5, <1>7, <2>2, <2>3, <2>4
<1>12. Stacked(s, p, g2, Last(g), o2, l, e, v, m)
  BY <1>6, <1>10 DEF Stacked
<1>13. QED BY <1>0, <1>4, <1>9, <1>11, <1>12

-----------------------------------------------------------------------------
(***************************************************************************)
(* The invariant: it implies the type invariant, and a run begins with it. *)
(***************************************************************************)
LEMMA Smallest ==
  ASSUME NEW S \in SUBSET Nat, S # {}
  PROVE  \E m \in S : \A k \in S : m <= k
<1> DEFINE R == OpToRel(<, Nat)
<1>1. IsWellFoundedOn(R, Nat)
  BY NatLessThanWellFounded
<1>2. ASSUME NEW k \in Nat, NEW m \in Nat, k < m PROVE <<k, m>> \in R
  BY <1>2 DEF OpToRel
<1> HIDE DEF R
<1>3. PICK m \in S : \A k \in S : <<k, m>> \notin R
  BY <1>1, WFMin
<1>4. \A k \in S : ~ (k < m)
  BY <1>2, <1>3
<1>5. m \in Nat /\ S \subseteq Nat
  OBVIOUS
<1>6. \A k \in S : m <= k
  BY <1>4, <1>5
<1>7. QED BY <1>6

LEMMA NextFound ==
  ASSUME NEW p, NEW n \in Nat, Len(p) \in Nat, NextOf(p, n) # 0
  PROVE  /\ NextOf(p, n) \in n + 1 .. Len(p)
         /\ p[NextOf(p, n)].token = "NEXT" /\ p[NextOf(p, n)].var = p[n].var
<1> DEFINE S == {k \in n + 1 .. Len(p) : p[k].token = "NEXT" /\ p[k].var = p[n].var}
<1>1. S # {} /\ NextOf(p, n) = CHOOSE k \in S : \A j \in S : k <= j
  BY DEF NextOf
<1>2. S \in SUBSET Nat
  OBVIOUS
<1>3. \E k \in S : \A j \in S : k <= j
  BY <1>1, <1>2, Smallest
<1>4. NextOf(p, n) \in S
  BY <1>1, <1>3
<1>5. QED BY <1>4

LEMMA Executing ==
  ASSUME Inv, NEW s, Good(s), pc = "execute", nxtline \in DOMAIN program
  PROVE  /\ Live /\ Fits(s, program) /\ HandlerInv(s)
         /\ nxtline \in DOMAIN s.lines /\ nxtline \in 1 .. Len(program) /\ Len(program) \in Nat
         /\ DOMAIN s.lines \subseteq 1 .. Len(program) + 1
         /\ gosub \in Seq(Nat) /\ Len(gosub) \in Nat
         /\ Stacked(s, program, gosub, nxtline, open, loops, events, val, main)
         /\ FitsLine(s, program, nxtline)
         /\ HasEvent(open) => "event" \in s.lines[nxtline].by
         /\ ~HasEvent(open) => s.lines[nxtline].by \cap {"main", "sub"} # {}
         /\ s.lines[nxtline].by \subseteq {"main"} => Len(open) = 0
<1>1. Live /\ open \in Opened /\ events \in 0 .. MaxEvents
  BY DEF Inv, Types, Live
<1>2. /\ Fits(s, program) /\ HandlerInv(s)
      /\ Stacked(s, program, gosub, nxtline, open, loops, events, val, main)
  BY <1>1 DEF Good
<1>3. PICK h : Stack(s, program, gosub, nxtline, open, loops, events, h)
  BY <1>2 DEF Stacked
<1>4. nxtline \in DOMAIN s.lines /\ Kind(open, Len(open) + 1) \in s.lines[nxtline].by
  BY <1>1, <1>2, <1>3, TopFrame
<1>5. /\ HasEvent(open) => "event" \in s.lines[nxtline].by
      /\ ~HasEvent(open) => s.lines[nxtline].by \cap {"main", "sub"} # {}
      /\ s.lines[nxtline].by \subseteq {"main"} => Len(open) = 0
  BY <1>1, <1>4, MainKind
<1>6. /\ Len(program) \in Nat /\ nxtline \in 1 .. Len(program)
      /\ DOMAIN s.lines \subseteq 1 .. Len(program) + 1
  BY <1>2, Shapes
<1>7. FitsLine(s, program, nxtline)
  BY <1>2, <1>4 DEF Fits
<1>8. gosub \in Seq(Nat) /\ Len(gosub) \in Nat
  BY <1>6 DEF Inv, Types
<1>9. QED BY <1>1, <1>2, <1>4, <1>5, <1>6, <1>7, <1>8

LEMMA ForFits ==
  ASSUME Inv, AtLine("FOR")
  PROVE  Len(loops) < MAX_FOR_NEST
<1>1. PICK s : Good(s)
  BY DEF Inv
<1>2. pc = "execute" /\ nxtline \in DOMAIN program /\ program[nxtline].token = "FOR"
  BY DEF AtLine, line
<1>3. /\ Fits(s, program) /\ FitsLine(s, program, nxtline)
      /\ Stacked(s, program, gosub, nxtline, open, loops, events, val, main)
  BY <1>1, <1>2, Executing
<1>4. FitsFor(s, program, nxtline)
  BY <1>2, <1>3 DEF FitsLine
<1>5. PICK h : Stack(s, program, gosub, nxtline, open, loops, events, h)
  BY <1>3 DEF Stacked
<1>6. open \in Opened /\ events \in 0 .. MaxEvents /\ Len(loops) \in Nat
  BY DEF Inv, Types, Loops
<1> DEFINE b == h[Len(open) + 1]
           w == Len(s.lines[nxtline].open)
           f == s.lines[nxtline].loops
           z == LoopRoom(s, events)
<1>7. /\ nxtline \in DOMAIN s.lines /\ Kind(open, Len(open) + 1) \in s.lines[nxtline].by
      /\ b \in Nat /\ h[Len(open) + 2] = Len(loops)
      /\ Len(loops) = b + w
      /\ \A j \in 1 .. w : loops[b + j] = LoopOf(program, s.lines[nxtline].open[j])
      /\ Len(gosub) + s.lines[nxtline].calls + CallRoom(s, events) < MAX_GOSUB_NEST
      /\ b + f + z <= MAX_FOR_NEST
  BY <1>3, <1>5, <1>6, TopFrame, Zenon
<1>8. w \in Nat /\ f \in Nat /\ w + 1 <= f
  BY <1>3, <1>4, <1>7, Shapes DEF FitsFor
<1>9. z \in Nat
  BY <1>3, <1>6, Rooms
<1> HIDE DEF b, w, f, z
<1>10. QED BY <1>6, <1>7, <1>8, <1>9, Constants

LEMMA InvTypes == Inv => TypeOK
<1> SUFFICES ASSUME Inv PROVE TypeOK
  OBVIOUS
<1>1. Types
  BY DEF Inv
<1>2. AtLine("FOR") => Len(loops) < MAX_FOR_NEST
  BY ForFits
<1>3. QED BY <1>1, <1>2 DEF Types, TypeOK, Opened

LEMMA InitInv ==
  ASSUME Structured, Init
  PROVE  Inv
<1>1. PICK s : Fits(s, program)
  BY DEF Init, Structured
<1>2. /\ Len(program) \in Nat /\ DOMAIN program = 1 .. Len(program)
      /\ 1 \in DOMAIN s.lines /\ s.lines[1].open = << >> /\ "main" \in s.lines[1].by
      /\ HasRoom(s)
  BY <1>1, Shapes DEF Fits
<1>3. Types
  <2>1. /\ program \in Programs /\ nxtline = 1 /\ gosub = << >> /\ loops = << >>
        /\ BasicErr = 0 /\ timer = FALSE /\ tline = 0 /\ kline = 0 /\ irf = FALSE
        /\ pc = "events" /\ events = 0 /\ open = << >> /\ val = [v \in Vars |-> 0]
    BY DEF Init
  <2>2. gosub \in Seq(1 .. Len(program) + 1) /\ loops \in Loops /\ open \in Opened
    BY <2>1 DEF Loops, Opened
  <2>3. nxtline \in 0 .. Len(program) + 1 /\ events \in 0 .. MaxEvents
    BY <1>2, <2>1, Constants
  <2>4. Len(gosub) < MAX_GOSUB_NEST /\ Len(loops) <= MAX_FOR_NEST
    BY <2>1, Constants
  <2>5. val \in [Vars -> Int]
    BY <2>1
  <2>6. QED BY <2>1, <2>2, <2>3, <2>4, <2>5 DEF Types
<1>4. HandlerInv(s)
  BY <1>2 DEF Init, HandlerInv
<1> DEFINE h == [i \in 1 .. 2 |-> 0]
<1>5. /\ Len(open) = 0 /\ Len(gosub) = 0 /\ Len(loops) = 0 /\ open = << >> /\ gosub = << >>
      /\ loops = << >> /\ nxtline = 1 /\ events = 0
  BY DEF Init
<1>6. Frame(s, program, 1, At(gosub, nxtline, 1), Kind(open, 1), loops, events, 0, 0)
  <2>1. At(gosub, nxtline, 1) = 1 /\ Kind(open, 1) = "main"
    BY <1>5 DEF At, Kind
  <2>2. CallRoom(s, 0) = MaxEvents * (1 + s.calls) /\ LoopRoom(s, 0) = MaxEvents * s.loops
    BY Constants DEF CallRoom, LoopRoom
  <2>3. s.lines[1].calls \in Nat /\ s.lines[1].loops \in Nat /\ 0 \in 0 .. MaxEvents
    BY <1>1, <1>2, Shapes, Constants
  <2>4. CallRoom(s, 0) \in Nat /\ LoopRoom(s, 0) \in Nat
    BY <1>1, <2>3, Rooms
  <2> DEFINE c == s.lines[1].calls
             f == s.lines[1].loops
             y == CallRoom(s, 0)
             z == LoopRoom(s, 0)
  <2>5. c + y <= MAX_GOSUB_NEST - 1 /\ f + z <= MAX_FOR_NEST
    BY <1>2, <2>2 DEF HasRoom
  <2>6. c \in Nat /\ f \in Nat /\ y \in Nat /\ z \in Nat
    BY <2>3, <2>4
  <2> HIDE DEF c, f, y, z
  <2>7. 1 - 1 + c + y < MAX_GOSUB_NEST /\ 0 + f + z <= MAX_FOR_NEST
    BY <2>5, <2>6, Constants
  <2>8. 1 - 1 + s.lines[1].calls + CallRoom(s, 0) < MAX_GOSUB_NEST
        /\ 0 + s.lines[1].loops + LoopRoom(s, 0) <= MAX_FOR_NEST
    BY <2>7 DEF c, f, y, z
  <2>9. Len(s.lines[1].open) = 0 /\ 0 = 0 + 0 /\ 1 .. 0 = {}
    BY <1>2
  <2>10. QED BY <1>2, <1>5, <2>1, <2>8, <2>9 DEF Frame
<1>7. Stack(s, program, gosub, nxtline, open, loops, events, h)
  <2>1. /\ 1 .. Len(open) + 1 = {1} /\ Len(open) + 2 = 2 /\ 1 \in 1 .. 2 /\ 2 \in 1 .. 2
        /\ 1 + 1 = 2
    BY <1>5
  <2>2. h \in [1 .. 2 -> Nat] /\ \A i \in 1 .. 2 : h[i] = 0
    OBVIOUS
  <2> HIDE DEF h
  <2>3. /\ h \in [1 .. Len(open) + 2 -> Nat] /\ h[1] = 0 /\ h[Len(open) + 2] = Len(loops)
        /\ \A i, j \in 1 .. Len(open) + 2 : i <= j => h[i] <= h[j]
    BY <1>5, <2>1, <2>2
  <2>4. \A i \in 1 .. Len(open) + 1 :
          Frame(s, program, i, At(gosub, nxtline, i), Kind(open, i), loops, events, h[i], h[i + 1])
    BY <1>6, <2>1, <2>2
  <2>5. QED BY <1>5, <2>3, <2>4 DEF Stack
<1>8. ~HasEvent(open)
  BY <1>5 DEF HasEvent
<1> HIDE DEF h
<1>9. Stacked(s, program, gosub, nxtline, open, loops, events, val, main)
  BY <1>7, <1>8 DEF Stacked
<1>10. QED BY <1>1, <1>3, <1>4, <1>9 DEF Inv, Good

-----------------------------------------------------------------------------
(***************************************************************************)
(* Every step keeps the invariant.                                         *)
(***************************************************************************)
LEMMA SetsVar ==
  ASSUME NEW f \in [Vars -> Int], NEW o, NEW s, NEW n, NEW x, NEW w \in Int, MaySet(s, n, x),
         HasEvent(o) => "event" \in s.lines[n].by,
         ~HasEvent(o) => s.lines[n].by \cap {"main", "sub"} # {}
  PROVE  /\ x \in Vars /\ [f EXCEPT ![x] = w] \in [Vars -> Int]
         /\ HasEvent(o) => \A y \in MainVars : [f EXCEPT ![x] = w][y] = f[y]
         /\ ~HasEvent(o) => x \in MainVars
<1>1. x \in Vars /\ (~HasEvent(o) => x \in MainVars) /\ (HasEvent(o) => x \notin MainVars)
  BY Constants DEF MaySet
<1>2. MainVars \subseteq Vars
  BY DEF Vars
<1>3. QED BY <1>1, <1>2

LEMMA GoodNext ==
  ASSUME NEW s, Good(s), UNCHANGED <<program, on>>,
         Live' => Stacked(s, program, gosub', nxtline', open', loops', events', val', main')
  PROVE  Good(s)'
<1>1. Fits(s, program) /\ HandlerInv(s) /\ program' = program /\ tline' = tline /\ kline' = kline
  BY DEF Good, on
<1>2. Fits(s, program)' /\ HandlerInv(s)'
  BY <1>1 DEF HandlerInv
<1>3. Live' => Stacked(s, program, gosub, nxtline, open, loops, events, val, main)'
  BY <1>1
<1>4. QED BY <1>2, <1>3 DEF Good

LEMMA Pushes ==
  ASSUME NEW S, NEW n \in S, gosub \in Seq(S), Len(gosub) < MAX_GOSUB_NEST
  PROVE  /\ PushLine(n) \in Seq(S) /\ Len(PushLine(n)) < MAX_GOSUB_NEST
         /\ Len(gosub) + 1 < MAX_GOSUB_NEST => PushLine(n) = Append(gosub, n)
<1>1. Len(gosub) \in Nat
  OBVIOUS
<1>2. CASE Len(gosub) < MAX_GOSUB_NEST - 1
  <2>1. PushLine(n) = Append(gosub, n)
    BY <1>2 DEF PushLine
  <2>2. Append(gosub, n) \in Seq(S) /\ Len(Append(gosub, n)) = Len(gosub) + 1
    OBVIOUS
  <2>3. QED BY <1>1, <1>2, <2>1, <2>2, Constants
<1>3. CASE ~ (Len(gosub) < MAX_GOSUB_NEST - 1)
  <2>1. PushLine(n) = gosub
    BY <1>3 DEF PushLine
  <2>2. QED BY <1>1, <1>3, <2>1, Constants
<1>4. QED BY <1>2, <1>3

LEMMA StopsInv ==
  ASSUME Inv, Stopped, BasicErr' \in {0, 1, 3, 5, 6, 7}
  PROVE  Inv'
<1>1. PICK s : Good(s)
  BY DEF Inv
<1>2. Good(s)'
  <2>1. ~Live'
    BY DEF Stopped, Live
  <2>2. UNCHANGED <<program, on>>
    BY DEF Stopped
  <2>3. QED BY <1>1, <2>1, <2>2, GoodNext
<1>3. Types'
  BY DEF Inv, Types, Stopped, stacks, on, hist
<1>4. QED BY <1>2, <1>3 DEF Inv

LEMMA NoEventInv ==
  ASSUME Inv, NoEvent
  PROVE  Inv'
<1>1. PICK s : Good(s)
  BY DEF Inv
<1>2. Live /\ UNCHANGED <<program, on, gosub, nxtline, open, loops, events, val, main>>
  BY DEF NoEvent, Live, stacks, hist
<1>3. Good(s)'
  <2>1. Stacked(s, program, gosub', nxtline', open', loops', events', val', main')
    BY <1>1, <1>2 DEF Good
  <2>2. QED BY <1>1, <1>2, <2>1, GoodNext
<1>4. Types'
  BY DEF Inv, Types, NoEvent, stacks, on, hist
<1>5. QED BY <1>3, <1>4 DEF Inv

LEMMA TriggerInv ==
  ASSUME Inv, NEW n, Trigger(n),
         \A s : HandlerInv(s) => (n \in DOMAIN program => IsHandler(s, n))
  PROVE  Inv'
<1>1. PICK s : Good(s)
  BY DEF Inv
<1>2. /\ Live /\ events < MaxEvents /\ events' = events + 1
      /\ UNCHANGED <<program, loops, val, on>>
      /\ main' = IF HasEvent(open) THEN main
                 ELSE [at |-> nxtline, gosub |-> gosub, loops |-> loops, val |-> val]
  BY DEF Trigger, Live, InHandler, HasEvent
<1>3. /\ Fits(s, program) /\ HandlerInv(s)
      /\ Stacked(s, program, gosub, nxtline, open, loops, events, val, main)
  BY <1>1, <1>2 DEF Good
<1>4. /\ Types /\ open \in Opened /\ events \in 0 .. MaxEvents /\ loops \in Loops
  BY DEF Inv, Types
<1>5. PICK h : Stack(s, program, gosub, nxtline, open, loops, events, h)
  BY <1>3 DEF Stacked
<1>6. /\ nxtline \in 1 .. Len(program) + 1 /\ Len(program) \in Nat
      /\ DOMAIN s.lines \subseteq 1 .. Len(program) + 1 /\ DOMAIN program = 1 .. Len(program)
  <2>1. nxtline \in DOMAIN s.lines
    BY <1>3, <1>4, <1>5, TopFrame
  <2>2. QED BY <1>3, <2>1, Shapes
<1>7. gosub \in Seq(Nat) /\ nxtline \in Nat
  BY <1>4, <1>6 DEF Types
<1>8. /\ PushLine(nxtline) \in Seq(1 .. Len(program) + 1) /\ Len(PushLine(nxtline)) < MAX_GOSUB_NEST
      /\ Append(open, "event") \in Opened /\ events + 1 \in 0 .. MaxEvents
  <2>1. gosub \in Seq(1 .. Len(program) + 1) /\ Len(gosub) < MAX_GOSUB_NEST
    BY <1>4 DEF Types
  <2>2. PushLine(nxtline) \in Seq(1 .. Len(program) + 1) /\ Len(PushLine(nxtline)) < MAX_GOSUB_NEST
    BY <1>6, <2>1, Pushes
  <2>3. QED BY <1>2, <1>4, <2>2, EventsOpen, Constants
<1>9. CASE gotoln(n) = -1
  <2>1. /\ BasicErr' = 6 /\ pc' = "stopped" /\ gosub' = PushLine(nxtline)
        /\ open' = Append(open, "event") /\ UNCHANGED <<nxtline, irf>>
    BY <1>9 DEF Trigger
  <2>2. Good(s)'
    <3>1. ~Live'
      BY <2>1 DEF Live
    <3>2. QED BY <1>1, <1>2, <3>1, GoodNext
  <2>3. Types'
    BY <1>2, <1>4, <1>8, <2>1 DEF Types, on
  <2>4. QED BY <2>2, <2>3 DEF Inv
<1>10. CASE gotoln(n) # -1
  <2>1. /\ gosub' = PushLine(nxtline) /\ nxtline' = gotoln(n) /\ open' = Append(open, "event")
        /\ irf' = TRUE /\ pc' = "execute" /\ UNCHANGED BasicErr /\ BasicErr = 0
    BY <1>10 DEF Trigger, Call
  <2>2. n \in DOMAIN program /\ nxtline' = n
    BY <1>10, <2>1 DEF gotoln
  <2>3. IsHandler(s, n)
    BY <1>3, <2>2
  <2>4. /\ Len(gosub) + 1 < MAX_GOSUB_NEST
        /\ Stacked(s, program, Append(gosub, nxtline), n, Append(open, "event"), loops,
                   events + 1, val, main')
    <3>1. PICK m2 : /\ m2 = main'
                    /\ m2 = IF HasEvent(open) THEN main
                            ELSE [at |-> nxtline, gosub |-> gosub, loops |-> loops, val |-> val]
      BY <1>2
    <3>2. /\ Len(gosub) + 1 < MAX_GOSUB_NEST
          /\ Stacked(s, program, Append(gosub, nxtline), n, Append(open, "event"), loops,
                     events + 1, val, m2)
      BY <1>2, <1>3, <1>4, <1>7, <2>3, <3>1, Interrupts
    <3>3. QED BY <3>1, <3>2
  <2>5. gosub' = Append(gosub, nxtline)
    <3>1. gosub \in Seq(Nat) /\ Len(gosub) < MAX_GOSUB_NEST
      BY <1>4, <1>7 DEF Types
    <3>2. QED BY <1>7, <2>1, <2>4, <3>1, Pushes
  <2>6. Good(s)'
    <3>1. Stacked(s, program, gosub', nxtline', open', loops', events', val', main')
      BY <1>2, <2>1, <2>2, <2>4, <2>5
    <3>2. QED BY <1>1, <1>2, <3>1, GoodNext
  <2>7. Types'
    <3>1. nxtline' \in 0 .. Len(program) + 1
      BY <1>6, <2>2
    <3>2. QED BY <1>2, <1>4, <1>8, <2>1, <3>1 DEF Types, on
  <2>8. QED BY <2>6, <2>7 DEF Inv
<1>11. QED BY <1>9, <1>10

\* A line that lets the routine go on, at line k, with the same loops.
LEMMA GoesOnInv ==
  ASSUME Inv, NEW s, Good(s), pc = "execute", nxtline \in DOMAIN program,
         Executed, UNCHANGED <<stacks, on, hist>>, BasicErr' \in {0, 1, 3, 5, 6, 7},
         nxtline' \in 0 .. Len(program) + 1, val' \in [Vars -> Int],
         BasicErr' = 0 => Leads(s, nxtline, nxtline', s.lines[nxtline].open),
         HasEvent(open) => \A x \in MainVars : val'[x] = val[x]
  PROVE  Inv'
<1>1. /\ UNCHANGED <<program, gosub, loops, open, events, main, timer, tline, kline, on>>
      /\ irf' = FALSE /\ pc' = "events"
  BY DEF Executed, irfAfterLine, stacks, on, hist
<1>2. Types'
  BY <1>1 DEF Inv, Types
<1>3. /\ Fits(s, program) /\ open \in Opened /\ loops \in Loops /\ events \in 0 .. MaxEvents
      /\ Stacked(s, program, gosub, nxtline, open, loops, events, val, main)
  BY Executing DEF Inv, Types
<1>4. ASSUME Live'
      PROVE  Stacked(s, program, gosub', nxtline', open', loops', events', val', main')
  <2>1. Leads(s, nxtline, nxtline', s.lines[nxtline].open)
    BY <1>4 DEF Live
  <2>2. PICK k, v2 : k = nxtline' /\ v2 = val'
    OBVIOUS
  <2>3. Stacked(s, program, gosub, k, open, loops, events, v2, main)
    BY <1>3, <2>1, <2>2, GoesOn
  <2>4. QED BY <1>1, <2>2, <2>3
<1>5. Good(s)'
  BY <1>1, <1>4, GoodNext
<1>6. QED BY <1>2, <1>5 DEF Inv

LEMMA PlainInv ==
  ASSUME Inv, cmd_print \/ EvaluationFails
  PROVE  Inv'
<1>1. PICK s : Good(s)
  BY DEF Inv
<1>2. /\ pc = "execute" /\ nxtline \in DOMAIN program /\ Executed
      /\ UNCHANGED <<stacks, on, hist, val>> /\ nxtline' = nxtline + 1
      /\ \/ program[nxtline].token = "PRINT" /\ BasicErr' = BasicErr
         \/ BasicErr' = 1
  BY DEF cmd_print, EvaluationFails, AtLine, line, GoOn
<1>3. /\ FitsLine(s, program, nxtline) /\ nxtline \in 1 .. Len(program) /\ Len(program) \in Nat
  BY <1>1, <1>2, Executing
<1>4. BasicErr' \in {0, 1, 3, 5, 6, 7} /\ val' \in [Vars -> Int]
  BY <1>2 DEF Inv, Types
<1>5. nxtline' \in 0 .. Len(program) + 1
  BY <1>2, <1>3
<1>6. BasicErr' = 0 => Leads(s, nxtline, nxtline', s.lines[nxtline].open)
  <2>1. Leads(s, nxtline, nxtline + 1, s.lines[nxtline].open) \/ BasicErr' = 1
    BY <1>2, <1>3 DEF FitsLine
  <2>2. QED BY <1>2, <2>1
<1>7. HasEvent(open) => \A x \in MainVars : val'[x] = val[x]
  BY <1>2
<1>8. QED BY <1>1, <1>2, <1>4, <1>5, <1>6, <1>7, GoesOnInv

LEMMA LetInv ==
  ASSUME Inv, cmd_let
  PROVE  Inv'
<1>1. PICK s : Good(s)
  BY DEF Inv
<1> DEFINE here == program[nxtline]
<1>2. /\ pc = "execute" /\ nxtline \in DOMAIN program /\ Executed
      /\ UNCHANGED <<stacks, on, hist, BasicErr>> /\ nxtline' = nxtline + 1
      /\ here.token = "LET" /\ val' = [val EXCEPT ![here.var] = here.n]
  BY DEF cmd_let, AtLine, line, GoOn
<1>3. /\ FitsLine(s, program, nxtline) /\ nxtline \in 1 .. Len(program) /\ Len(program) \in Nat
      /\ HasEvent(open) => "event" \in s.lines[nxtline].by
      /\ ~HasEvent(open) => s.lines[nxtline].by \cap {"main", "sub"} # {}
  BY <1>1, <1>2, Executing
<1>4. MaySet(s, nxtline, here.var) /\ here.n \in Int
  BY <1>2, <1>3 DEF FitsLine
<1>5. BasicErr' \in {0, 1, 3, 5, 6, 7} /\ val \in [Vars -> Int]
  BY <1>2 DEF Inv, Types
<1>6. nxtline' \in 0 .. Len(program) + 1
  BY <1>2, <1>3
<1>7. BasicErr' = 0 => Leads(s, nxtline, nxtline', s.lines[nxtline].open)
  BY <1>2, <1>3 DEF FitsLine
<1> HIDE DEF here
<1>8. /\ val' \in [Vars -> Int]
      /\ HasEvent(open) => \A x \in MainVars : val'[x] = val[x]
  BY <1>2, <1>3, <1>4, <1>5, SetsVar
<1>9. QED BY <1>1, <1>2, <1>5, <1>6, <1>7, <1>8, GoesOnInv

LEMMA GotoInv ==
  ASSUME Inv, cmd_goto
  PROVE  Inv'
<1>1. PICK s : Good(s)
  BY DEF Inv
<1>2. /\ pc = "execute" /\ nxtline \in DOMAIN program /\ program[nxtline].token = "GOTO"
  BY DEF cmd_goto, AtLine, line
<1>3. CASE gotoln(line.n) = -1
  BY <1>3, StopsInv DEF cmd_goto
<1>4. CASE gotoln(line.n) # -1
  <2>1. /\ Executed /\ UNCHANGED <<stacks, val, BasicErr, on, hist>>
        /\ nxtline' = program[nxtline].n /\ program[nxtline].n \in DOMAIN program
    BY <1>4 DEF cmd_goto, gotoln, line
  <2>2. /\ FitsLine(s, program, nxtline) /\ DOMAIN s.lines \subseteq 1 .. Len(program) + 1
        /\ Len(program) \in Nat
    BY <1>1, <1>2, Executing
  <2>3. Leads(s, nxtline, nxtline', s.lines[nxtline].open)
    BY <1>2, <2>1, <2>2 DEF FitsLine
  <2>4. nxtline' \in 0 .. Len(program) + 1
    BY <2>2, <2>3 DEF Leads
  <2>5. BasicErr' \in {0, 1, 3, 5, 6, 7} /\ val' \in [Vars -> Int] /\ val' = val
    BY <2>1 DEF Inv, Types
  <2>6. UNCHANGED <<stacks, on, hist>>
    BY <2>1
  <2>7. HasEvent(open) => \A x \in MainVars : val'[x] = val[x]
    BY <2>5
  <2>8. QED BY <1>1, <1>2, <2>1, <2>3, <2>4, <2>5, <2>6, <2>7, GoesOnInv
<1>5. QED BY <1>3, <1>4

LEMMA IfInv ==
  ASSUME Inv, cmd_if
  PROVE  Inv'
<1>1. PICK s : Good(s)
  BY DEF Inv
<1> DEFINE here == program[nxtline]
<1>2. /\ pc = "execute" /\ nxtline \in DOMAIN program /\ here.token = "IF"
      /\ Executed /\ UNCHANGED <<stacks, val, on, hist>>
      /\ \/ nxtline' = nxtline + 1 /\ BasicErr' \in {BasicErr, 5}
         \/ nxtline' = here.to /\ here.to \in DOMAIN program /\ BasicErr' = BasicErr
  BY DEF cmd_if, AtLine, line, gotoln, GoOn
<1>3. /\ FitsLine(s, program, nxtline) /\ DOMAIN s.lines \subseteq 1 .. Len(program) + 1
      /\ Len(program) \in Nat
  BY <1>1, <1>2, Executing
<1>4. Leads(s, nxtline, nxtline', s.lines[nxtline].open)
  BY <1>2, <1>3 DEF FitsLine
<1>5. nxtline' \in 0 .. Len(program) + 1
  BY <1>3, <1>4 DEF Leads
<1>6. BasicErr' \in {0, 1, 3, 5, 6, 7} /\ val' \in [Vars -> Int] /\ val' = val
  BY <1>2 DEF Inv, Types
<1>7. UNCHANGED <<stacks, on, hist>>
  BY <1>2
<1>8. HasEvent(open) => \A x \in MainVars : val'[x] = val[x]
  BY <1>6
<1>9. QED BY <1>1, <1>2, <1>4, <1>5, <1>6, <1>7, <1>8, GoesOnInv

LEMMA OnInv ==
  ASSUME Inv, cmd_on
  PROVE  Inv'
<1>1. PICK s : Good(s)
  BY DEF Inv
<1> DEFINE here == program[nxtline]
<1>2. /\ pc = "execute" /\ nxtline \in DOMAIN program /\ here.token \in {"ON TIME", "ON KEY"}
      /\ Executed /\ UNCHANGED <<stacks, val, BasicErr, hist>> /\ nxtline' = nxtline + 1
      /\ \/ timer' = TRUE /\ tline' = here.n /\ UNCHANGED kline
         \/ kline' = here.n /\ UNCHANGED <<timer, tline>>
  BY DEF cmd_on, AtLine, line, GoOn
<1>3. /\ FitsLine(s, program, nxtline) /\ nxtline \in 1 .. Len(program) /\ Len(program) \in Nat
      /\ Fits(s, program) /\ HandlerInv(s)
      /\ Stacked(s, program, gosub, nxtline, open, loops, events, val, main)
  BY <1>1, <1>2, Executing
<1>4. /\ here.n \in Nat /\ Leads(s, nxtline, nxtline + 1, s.lines[nxtline].open)
      /\ here.n \in DOMAIN program => IsHandler(s, here.n)
  BY <1>2, <1>3 DEF FitsLine
<1>5. /\ UNCHANGED <<program, gosub, loops, open, events, main, val, BasicErr>>
      /\ irf' = FALSE /\ pc' = "events"
  BY <1>2 DEF Executed, irfAfterLine, stacks, hist
<1>6. nxtline' \in 0 .. Len(program) + 1
  <2>1. nxtline' = nxtline + 1 /\ nxtline \in 1 .. Len(program) /\ Len(program) \in Nat
    BY <1>2, <1>3
  <2>2. QED BY <2>1
<1>7. Types'
  <2> HIDE DEF here
  <2>1. timer' \in BOOLEAN /\ tline' \in Nat /\ kline' \in Nat
    BY <1>2, <1>4 DEF Inv, Types
  <2>2. QED BY <1>5, <1>6, <2>1 DEF Inv, Types
<1>8. HandlerInv(s)'
  BY <1>2, <1>3, <1>4, <1>5 DEF HandlerInv
<1>9. Stacked(s, program, gosub, nxtline, open, loops, events, val, main)'
  <2>1. open \in Opened /\ loops \in Loops /\ events \in 0 .. MaxEvents
    BY DEF Inv, Types
  <2>2. HasEvent(open) => \A x \in MainVars : val[x] = val[x]
    OBVIOUS
  <2>3. Stacked(s, program, gosub, nxtline + 1, open, loops, events, val, main)
    BY <1>3, <1>4, <2>1, <2>2, GoesOn
  <2>4. QED BY <1>2, <1>5, <2>3
<1>10. Fits(s, program)'
  BY <1>3, <1>5
<1>11. QED BY <1>7, <1>8, <1>9, <1>10 DEF Inv, Good

LEMMA ForInv ==
  ASSUME Inv, cmd_for
  PROVE  Inv'
<1>1. PICK s : Good(s)
  BY DEF Inv
<1> DEFINE here == program[nxtline]
           nest == s.lines[nxtline].open
<1>2. /\ pc = "execute" /\ nxtline \in DOMAIN program /\ here.token = "FOR" /\ AtLine("FOR")
      /\ Executed /\ UNCHANGED <<gosub, BasicErr, on, hist>>
      /\ val' = [val EXCEPT ![here.var] = here.n]
  BY DEF cmd_for, AtLine, line
<1>3. /\ Fits(s, program) /\ FitsLine(s, program, nxtline)
      /\ DOMAIN s.lines \subseteq 1 .. Len(program) + 1
      /\ nxtline \in 1 .. Len(program) /\ Len(program) \in Nat
      /\ Stacked(s, program, gosub, nxtline, open, loops, events, val, main)
      /\ HasEvent(open) => "event" \in s.lines[nxtline].by
      /\ ~HasEvent(open) => s.lines[nxtline].by \cap {"main", "sub"} # {}
  BY <1>1, <1>2, Executing
<1>4. FitsFor(s, program, nxtline)
  BY <1>2, <1>3 DEF FitsLine
<1>5. /\ MaySet(s, nxtline, here.var) /\ here.n \in Int /\ here.to \in Int /\ here.by \in Int
      /\ IF Continues(here.n, here.to, here.by)
         THEN Leads(s, nxtline, nxtline + 1, Append(nest, nxtline))
         ELSE Leads(s, nxtline, NextOf(program, nxtline), nest)
  BY <1>4 DEF FitsFor, IsFor
<1>6. /\ BasicErr' \in {0, 1, 3, 5, 6, 7} /\ val \in [Vars -> Int] /\ open \in Opened
      /\ loops \in Loops /\ events \in 0 .. MaxEvents /\ Len(loops) \in Nat
  BY <1>2 DEF Inv, Types, Loops
<1>7. /\ val' \in [Vars -> Int]
      /\ HasEvent(open) => \A x \in MainVars : val'[x] = val[x]
  <2> HIDE DEF here
  <2>1. QED BY <1>2, <1>3, <1>5, <1>6, SetsVar
<1>8. CASE Continues(here.n, here.to, here.by)
  <2>1. /\ loops' = Append(loops, LoopOf(program, nxtline)) /\ nxtline' = nxtline + 1
    BY <1>8 DEF cmd_for, line, GoOn, LoopOf
  <2>2. Leads(s, nxtline, nxtline + 1, Append(nest, nxtline))
    BY <1>5, <1>8
  <2> HIDE DEF here
  <2>3. /\ UNCHANGED <<program, gosub, open, events, main, timer, tline, kline, on, BasicErr>>
        /\ irf' = FALSE /\ pc' = "events"
    BY <1>2 DEF Executed, irfAfterLine, on, hist
  <2>4. Len(loops) < MAX_FOR_NEST
    BY <1>2, ForFits
  <2>5. LoopOf(program, nxtline) \in [at : Nat, to : Int, by : Int]
    BY <1>3, <1>5 DEF LoopOf, here
  <2>6. loops' \in Loops /\ Len(loops') <= MAX_FOR_NEST
    <3>1. loops \in Seq([at : Nat, to : Int, by : Int])
      BY <1>6 DEF Loops
    <3>2. loops' \in Seq([at : Nat, to : Int, by : Int]) /\ Len(loops') = Len(loops) + 1
      BY <2>1, <2>5, <3>1
    <3>3. QED BY <1>6, <2>4, <3>2, Constants DEF Loops
  <2>7. nxtline' \in 0 .. Len(program) + 1
    BY <1>3, <2>1
  <2>8. Types'
    BY <1>6, <1>7, <2>3, <2>6, <2>7 DEF Inv, Types
  <2>9. Stacked(s, program, gosub', nxtline', open', loops', events', val', main')
    <3>1. PICK v2 : v2 = val'
      OBVIOUS
    <3>2. HasEvent(open) => \A x \in MainVars : v2[x] = val[x]
      BY <1>7, <3>1
    <3>3. Stacked(s, program, gosub, nxtline + 1, open, Append(loops, LoopOf(program, nxtline)),
                  events, v2, main)
      BY <1>3, <1>6, <2>2, <3>2, OpensLoop
    <3>4. QED BY <2>1, <2>3, <3>1, <3>3
  <2>10. Good(s)'
    BY <1>1, <2>3, <2>9, GoodNext
  <2>11. QED BY <2>8, <2>10 DEF Inv
<1>9. CASE ~Continues(here.n, here.to, here.by)
  <2>1. nxtline' = NextOf(program, nxtline) /\ UNCHANGED loops
    BY <1>9 DEF cmd_for, line, findnext, NextOf
  <2>2. Leads(s, nxtline, nxtline', s.lines[nxtline].open)
    BY <1>5, <1>9, <2>1
  <2>3. nxtline' \in 0 .. Len(program) + 1
    BY <1>3, <2>2 DEF Leads
  <2>4. UNCHANGED <<stacks, on, hist>>
    BY <1>2, <2>1 DEF stacks
  <2> HIDE DEF here, nest
  <2>5. QED BY <1>1, <1>2, <1>6, <1>7, <2>2, <2>3, <2>4, GoesOnInv
<1>10. QED BY <1>8, <1>9

LEMMA NextFacts ==
  ASSUME Inv, NEW s, Good(s), pc = "execute", nxtline \in DOMAIN program,
         program[nxtline].token = "NEXT"
  PROVE  /\ MaySet(s, nxtline, program[nxtline].var)
         /\ loops = << >> =>
              /\ s.lines[nxtline].open = << >>
              /\ Leads(s, nxtline, nxtline + 1, s.lines[nxtline].open)
         /\ loops # << >> =>
              /\ s.lines[nxtline].open # << >>
              /\ Last(loops) = LoopOf(program, Last(s.lines[nxtline].open))
              /\ IsFor(program, Last(s.lines[nxtline].open))
              /\ program[Last(s.lines[nxtline].open)].var = program[nxtline].var
              /\ Last(s.lines[nxtline].open) \in DOMAIN program
              /\ Leads(s, nxtline, Last(s.lines[nxtline].open) + 1, s.lines[nxtline].open)
              /\ Leads(s, nxtline, nxtline + 1, Front(s.lines[nxtline].open))
<1> DEFINE nest == s.lines[nxtline].open
<1>1. /\ Fits(s, program) /\ FitsLine(s, program, nxtline) /\ nxtline \in DOMAIN s.lines
      /\ Stacked(s, program, gosub, nxtline, open, loops, events, val, main)
      /\ s.lines[nxtline].by \subseteq {"main"} => Len(open) = 0
  BY Executing
<1>2. FitsNext(s, program, nxtline)
  BY <1>1 DEF FitsLine
<1>3. open \in Opened /\ loops \in Loops /\ events \in 0 .. MaxEvents /\ Len(loops) \in Nat
  BY DEF Inv, Types, Loops
<1>4. MaySet(s, nxtline, program[nxtline].var)
  BY <1>2 DEF FitsNext
<1>5. CASE nest = << >>
  <2>1. s.lines[nxtline].by \subseteq {"main"} /\ Leads(s, nxtline, nxtline + 1, nest)
    BY <1>2, <1>5 DEF FitsNext
  <2>2. loops = << >>
    <3>1. PICK h : Stack(s, program, gosub, nxtline, open, loops, events, h)
      BY <1>1 DEF Stacked
    <3>2. TopLoops(s, program, nxtline, loops, h[Len(open) + 1])
      BY <1>1, <1>3, <3>1, LoopsOnTop
    <3>3. Len(open) + 1 = 1 /\ h[1] = 0
      BY <1>1, <2>1, <3>1 DEF Stack
    <3>4. Len(nest) = 0
      BY <1>5
    <3>5. Len(loops) = 0
      BY <3>2, <3>3, <3>4 DEF TopLoops
    <3>6. QED BY <1>3, <3>5 DEF Loops
  <2>3. QED BY <1>4, <1>5, <2>1, <2>2
<1>6. CASE nest # << >>
  <2>1. loops # << >> /\ Last(loops) = LoopOf(program, Last(nest))
    <3>1. HasEvent(open) => \A x \in MainVars : val[x] = val[x]
      OBVIOUS
    <3>2. /\ loops # << >> /\ Last(loops) = LoopOf(program, Last(s.lines[nxtline].open))
          /\ \A k : Leads(s, nxtline, k, Front(s.lines[nxtline].open)) =>
                     Stacked(s, program, gosub, k, open, Front(loops), events, val, main)
      BY <1>1, <1>3, <1>6, <3>1, ClosesLoop, Zenon
    <3>3. QED BY <3>2
  <2>2. /\ IsFor(program, Last(nest)) /\ program[Last(nest)].var = program[nxtline].var
        /\ Leads(s, nxtline, Last(nest) + 1, nest) /\ Leads(s, nxtline, nxtline + 1, Front(nest))
    BY <1>2, <1>6 DEF FitsNext
  <2>3. Last(nest) \in DOMAIN program
    <3>1. nest \in Seq(DOMAIN program)
      BY <1>1 DEF Fits, IsShape
    <3>2. QED BY <1>6, <3>1, FrontAndLast
  <2>4. QED BY <1>4, <1>6, <2>1, <2>2, <2>3
<1>7. QED BY <1>5, <1>6

LEMMA NextInv ==
  ASSUME Inv, cmd_next
  PROVE  Inv'
<1>1. PICK s : Good(s)
  BY DEF Inv
<1> DEFINE here == program[nxtline]
           nest == s.lines[nxtline].open
           loop == Last(loops)
           v == val[here.var] + loop.by
<1>2. /\ pc = "execute" /\ nxtline \in DOMAIN program /\ here.token = "NEXT"
      /\ Executed /\ UNCHANGED <<gosub, BasicErr, on, hist>>
  BY DEF cmd_next, AtLine, line
<1>3. /\ Fits(s, program) /\ DOMAIN s.lines \subseteq 1 .. Len(program) + 1
      /\ nxtline \in 1 .. Len(program) /\ Len(program) \in Nat
      /\ Stacked(s, program, gosub, nxtline, open, loops, events, val, main)
      /\ HasEvent(open) => "event" \in s.lines[nxtline].by
      /\ ~HasEvent(open) => s.lines[nxtline].by \cap {"main", "sub"} # {}
  BY <1>1, <1>2, Executing
<1>4. /\ MaySet(s, nxtline, here.var)
      /\ loops = << >> => Leads(s, nxtline, nxtline + 1, nest)
      /\ loops # << >> =>
           /\ nest # << >> /\ loop = LoopOf(program, Last(nest)) /\ IsFor(program, Last(nest))
           /\ Leads(s, nxtline, Last(nest) + 1, nest) /\ Leads(s, nxtline, nxtline + 1, Front(nest))
  BY <1>1, <1>2, NextFacts
<1>5. /\ BasicErr' \in {0, 1, 3, 5, 6, 7} /\ val \in [Vars -> Int] /\ open \in Opened
      /\ loops \in Loops /\ events \in 0 .. MaxEvents /\ Len(loops) \in Nat
  BY <1>2 DEF Inv, Types, Loops
<1>6. CASE loops = << >>
  <2>1. nxtline' = nxtline + 1 /\ UNCHANGED <<loops, val>>
    BY <1>6 DEF cmd_next, GoOn
  <2>2. nxtline' \in 0 .. Len(program) + 1 /\ Leads(s, nxtline, nxtline', nest)
    BY <1>3, <1>4, <1>6, <2>1
  <2>3. UNCHANGED <<stacks, on, hist>> /\ val' \in [Vars -> Int]
    BY <1>2, <1>5, <2>1 DEF stacks
  <2>4. HasEvent(open) => \A x \in MainVars : val'[x] = val[x]
    BY <2>1
  <2> HIDE DEF here
  <2>5. QED BY <1>1, <1>2, <1>5, <2>2, <2>3, <2>4, GoesOnInv
<1>7. CASE loops # << >>
  <2>1. /\ val' = [val EXCEPT ![here.var] = v]
        /\ IF Continues(v, loop.to, loop.by)
           THEN nxtline' = loop.at /\ UNCHANGED loops
           ELSE nxtline' = nxtline + 1 /\ loops' = Front(loops)
    BY <1>7 DEF cmd_next, line, GoOn, Increment, LoopDone
  <2>2. v \in Int
    <3>1. loop.by \in Int
      BY <1>4, <1>7 DEF LoopOf, IsFor
    <3>2. val[here.var] \in Int
      BY <1>4, <1>5 DEF MaySet
    <3> HIDE DEF here, loop
    <3>3. QED BY <3>1, <3>2
  <2>3. /\ val' \in [Vars -> Int]
        /\ HasEvent(open) => \A x \in MainVars : val'[x] = val[x]
    <3> HIDE DEF here, v
    <3>1. QED BY <1>3, <1>4, <1>5, <2>1, <2>2, SetsVar
  <2>4. CASE Continues(v, loop.to, loop.by)
    <3>1. nxtline' = Last(nest) + 1 /\ UNCHANGED loops
      BY <1>4, <1>7, <2>1, <2>4 DEF LoopOf
    <3>2. Leads(s, nxtline, nxtline', nest)
      BY <1>4, <1>7, <3>1
    <3>3. nxtline' \in 0 .. Len(program) + 1
      BY <1>3, <3>2 DEF Leads
    <3>4. UNCHANGED <<stacks, on, hist>>
      BY <1>2, <3>1 DEF stacks
    <3> HIDE DEF here, v, loop
    <3>5. QED BY <1>1, <1>2, <1>5, <2>3, <3>2, <3>3, <3>4, GoesOnInv
  <2>5. CASE ~Continues(v, loop.to, loop.by)
    <3>1. nxtline' = nxtline + 1 /\ loops' = Front(loops)
      BY <2>1, <2>5
    <3> HIDE DEF here, v, loop
    <3>2. /\ UNCHANGED <<program, gosub, open, events, main, timer, tline, kline, on, BasicErr>>
          /\ irf' = FALSE /\ pc' = "events"
      BY <1>2 DEF Executed, irfAfterLine, on, hist
    <3>3. loops' \in Loops /\ Len(loops') <= MAX_FOR_NEST
      <4>1. loops \in Seq([at : Nat, to : Int, by : Int]) /\ Len(loops) <= MAX_FOR_NEST
        BY <1>5 DEF Loops, Inv, Types
      <4>2. loops' \in Seq([at : Nat, to : Int, by : Int]) /\ Len(loops') = Len(loops) - 1
        BY <1>7, <3>1, <4>1, FrontAndLast
      <4>3. QED BY <1>5, <4>1, <4>2, Constants DEF Loops
    <3>4. nxtline' \in 0 .. Len(program) + 1
      BY <1>3, <3>1
    <3>5. Types'
      BY <1>5, <2>3, <3>2, <3>3, <3>4 DEF Inv, Types
    <3>6. Stacked(s, program, gosub', nxtline', open', loops', events', val', main')
      <4>1. PICK v2 : v2 = val'
        OBVIOUS
      <4>2. HasEvent(open) => \A x \in MainVars : v2[x] = val[x]
        BY <2>3, <4>1
      <4>3. nest # << >> /\ Leads(s, nxtline, nxtline + 1, Front(nest))
        BY <1>4, <1>7
      <4>4. Stacked(s, program, gosub, nxtline + 1, open, Front(loops), events, v2, main)
        BY <1>3, <1>5, <4>2, <4>3, ClosesLoop
      <4>5. QED BY <3>1, <3>2, <4>1, <4>4
    <3>7. Good(s)'
      BY <1>1, <3>2, <3>6, GoodNext
    <3>8. QED BY <3>5, <3>7 DEF Inv
  <2>6. QED BY <2>4, <2>5
<1>8. QED BY <1>6, <1>7

LEMMA GosubFacts ==
  ASSUME Inv, NEW s, Good(s), cmd_gosub, gotoln(line.n) # -1
  PROVE  /\ program[nxtline].n \in DOMAIN program /\ nxtline' = program[nxtline].n
         /\ gosub' = Append(gosub, nxtline + 1) /\ open' = Append(open, "sub")
         /\ Len(gosub') < MAX_GOSUB_NEST /\ gosub' \in Seq(1 .. Len(program) + 1)
         /\ Stacked(s, program, gosub', nxtline', open', loops, events, val, main)
<1>1. /\ pc = "execute" /\ nxtline \in DOMAIN program /\ program[nxtline].token = "GOSUB"
      /\ gosub' = PushLine(nxtline + 1) /\ nxtline' = gotoln(program[nxtline].n)
      /\ open' = Append(open, "sub")
  BY DEF cmd_gosub, AtLine, line, Call
<1>2. program[nxtline].n \in DOMAIN program /\ nxtline' = program[nxtline].n
  BY <1>1 DEF gotoln, line
<1>3. /\ Fits(s, program) /\ FitsLine(s, program, nxtline)
      /\ nxtline \in 1 .. Len(program) /\ Len(program) \in Nat /\ gosub \in Seq(Nat)
      /\ Stacked(s, program, gosub, nxtline, open, loops, events, val, main)
  BY <1>1, Executing
<1>4. /\ Leads(s, nxtline, nxtline + 1, s.lines[nxtline].open)
      /\ MayCall(s, nxtline, program[nxtline].n)
  BY <1>1, <1>2, <1>3 DEF FitsLine
<1>5. /\ open \in Opened /\ loops \in Loops /\ events \in 0 .. MaxEvents
      /\ gosub \in Seq(1 .. Len(program) + 1) /\ Len(gosub) < MAX_GOSUB_NEST
  BY DEF Inv, Types
<1>6. /\ nxtline \in Nat /\ nxtline + 1 \in Nat /\ nxtline + 1 \in 1 .. Len(program) + 1
  BY <1>3
<1>7. /\ Len(gosub) + 1 < MAX_GOSUB_NEST
      /\ Stacked(s, program, Append(gosub, nxtline + 1), program[nxtline].n, Append(open, "sub"),
                 loops, events, val, main)
  <2>1. PICK t, r : t = program[nxtline].n /\ r = nxtline + 1
    OBVIOUS
  <2>2. r \in Nat /\ Leads(s, nxtline, r, s.lines[nxtline].open) /\ MayCall(s, nxtline, t)
    BY <1>4, <1>6, <2>1
  <2>3. /\ Len(gosub) + 1 < MAX_GOSUB_NEST
        /\ Stacked(s, program, Append(gosub, r), t, Append(open, "sub"), loops, events, val, main)
    BY <1>3, <1>5, <1>6, <2>2, CallsSub
  <2>4. QED BY <2>1, <2>3
<1>8. gosub' = Append(gosub, nxtline + 1) /\ Len(gosub') < MAX_GOSUB_NEST
  BY <1>1, <1>5, <1>6, <1>7, Pushes
<1>9. gosub' \in Seq(1 .. Len(program) + 1)
  BY <1>1, <1>5, <1>6, Pushes
<1>10. QED BY <1>1, <1>2, <1>7, <1>8, <1>9

LEMMA GosubInv ==
  ASSUME Inv, cmd_gosub
  PROVE  Inv'
<1>1. PICK s : Good(s)
  BY DEF Inv
<1>2. CASE gotoln(line.n) = -1
  <2>1. /\ pc' = "stopped" /\ gosub' = PushLine(nxtline + 1)
        /\ UNCHANGED <<program, nxtline, loops, val, BasicErr, on, irf, hist>>
        /\ pc = "execute" /\ nxtline \in DOMAIN program
    BY <1>2 DEF cmd_gosub, AtLine
  <2>2. nxtline \in 1 .. Len(program) /\ Len(program) \in Nat
    BY <1>1, <2>1, Executing
  <2>3. nxtline + 1 \in 1 .. Len(program) + 1
    BY <2>2
  <2>4. gosub' \in Seq(1 .. Len(program) + 1) /\ Len(gosub') < MAX_GOSUB_NEST
    <3>1. gosub \in Seq(1 .. Len(program) + 1) /\ Len(gosub) < MAX_GOSUB_NEST
      BY DEF Inv, Types
    <3>2. QED BY <2>1, <2>3, <3>1, Pushes
  <2>5. Types'
    BY <2>1, <2>4 DEF Inv, Types, on, hist
  <2>6. Good(s)'
    <3>1. ~Live'
      BY <2>1 DEF Live
    <3>2. QED BY <1>1, <2>1, <3>1, GoodNext
  <2>7. QED BY <2>5, <2>6 DEF Inv
<1>3. CASE gotoln(line.n) # -1
  <2>1. /\ UNCHANGED <<program, loops, val, BasicErr, on, events, main>>
        /\ irf' = FALSE /\ pc' = "events" /\ pc = "execute" /\ nxtline \in DOMAIN program
    BY <1>3 DEF cmd_gosub, Executed, irfAfterLine, AtLine
  <2>2. /\ program[nxtline].n \in DOMAIN program /\ nxtline' = program[nxtline].n
        /\ open' = Append(open, "sub")
        /\ Len(gosub') < MAX_GOSUB_NEST /\ gosub' \in Seq(1 .. Len(program) + 1)
        /\ Stacked(s, program, gosub', nxtline', open', loops, events, val, main)
    BY <1>1, <1>3, GosubFacts
  <2>3. Len(program) \in Nat /\ DOMAIN program = 1 .. Len(program)
    BY <1>1, <2>1, Executing, Shapes
  <2>4. nxtline' \in 0 .. Len(program) + 1 /\ open' \in Opened
    <3>1. nxtline' \in 0 .. Len(program) + 1
      BY <2>2, <2>3
    <3>2. QED BY <2>2, <3>1, EventsOpen DEF Inv, Types
  <2>5. Types'
    BY <2>1, <2>2, <2>4 DEF Inv, Types, on
  <2>6. Good(s)'
    BY <1>1, <2>1, <2>2, GoodNext
  <2>7. QED BY <2>5, <2>6 DEF Inv
<1>4. QED BY <1>2, <1>3

LEMMA ReturnFacts ==
  ASSUME Inv, NEW s, Good(s), cmd_return, gosub # << >>
  PROVE  /\ nxtline' = Last(gosub) /\ gosub' = Front(gosub) /\ open' = Front(open)
         /\ UNCHANGED <<program, loops, val, BasicErr, on, events, main>>
         /\ irf' = FALSE /\ pc' = "events" /\ Live
         /\ open' \in Opened
         /\ Stacked(s, program, gosub', nxtline', open', loops, events, val, main)
         /\ HasEvent(open) /\ ~HasEvent(open') =>
              /\ main.at = nxtline' /\ main.gosub = gosub' /\ main.loops = loops
              /\ \A x \in MainVars : main.val[x] = val[x]
         /\ HasEvent(open') => HasEvent(open)
<1>1. /\ nxtline' = Last(gosub) /\ gosub' = Front(gosub) /\ open' = Front(open)
      /\ UNCHANGED <<program, loops, val, BasicErr, on, events, main>>
      /\ irf' = FALSE /\ pc' = "events" /\ pc = "execute"
      /\ nxtline \in DOMAIN program /\ program[nxtline].token = "RETURN"
  BY DEF cmd_return, Executed, irfAfterLine, AtLine, line
<1>2. /\ Live /\ Fits(s, program) /\ FitsLine(s, program, nxtline) /\ gosub \in Seq(Nat)
      /\ Stacked(s, program, gosub, nxtline, open, loops, events, val, main)
  BY <1>1, Executing
<1>3. s.lines[nxtline].open = << >>
  BY <1>1, <1>2 DEF FitsLine
<1>4. open \in Opened /\ loops \in Loops /\ events \in 0 .. MaxEvents
  BY DEF Inv, Types
<1>5. /\ Stacked(s, program, Front(gosub), Last(gosub), Front(open), loops, events, val, main)
      /\ Front(open) \in Opened
      /\ HasEvent(open) /\ ~HasEvent(Front(open)) =>
           /\ main.at = Last(gosub) /\ main.gosub = Front(gosub) /\ main.loops = loops
           /\ \A x \in MainVars : main.val[x] = val[x]
      /\ HasEvent(Front(open)) => HasEvent(open)
  BY <1>2, <1>3, <1>4, ComesBack, Zenon
<1>6. QED BY <1>1, <1>2, <1>5

LEMMA ReturnInv ==
  ASSUME Inv, cmd_return
  PROVE  Inv'
<1>1. PICK s : Good(s)
  BY DEF Inv
<1>2. pc = "execute" /\ nxtline \in DOMAIN program
  BY DEF cmd_return, AtLine
<1>3. nxtline \in 1 .. Len(program) /\ Len(program) \in Nat
  BY <1>1, <1>2, Executing
<1>4. CASE gosub = << >>
  <2>1. /\ Executed /\ nxtline' = nxtline + 1 /\ BasicErr' = 7
        /\ UNCHANGED <<gosub, open, loops, val, on, events, main>>
    BY <1>4 DEF cmd_return, GoOn
  <2>2. UNCHANGED <<stacks, on, hist>> /\ val' \in [Vars -> Int] /\ val' = val
    BY <2>1 DEF stacks, hist, Inv, Types
  <2>3. nxtline' \in 0 .. Len(program) + 1
    BY <1>3, <2>1
  <2>4. HasEvent(open) => \A x \in MainVars : val'[x] = val[x]
    BY <2>2
  <2>5. QED BY <1>1, <1>2, <2>1, <2>2, <2>3, <2>4, GoesOnInv
<1>5. CASE gosub # << >>
  <2>1. /\ nxtline' = Last(gosub) /\ gosub' = Front(gosub) /\ open' = Front(open)
        /\ UNCHANGED <<program, loops, val, BasicErr, on, events, main>>
        /\ irf' = FALSE /\ pc' = "events" /\ open' \in Opened
        /\ Stacked(s, program, gosub', nxtline', open', loops, events, val, main)
    BY <1>1, <1>5, ReturnFacts
  <2>2. gosub \in Seq(1 .. Len(program) + 1) /\ Len(gosub) < MAX_GOSUB_NEST
    BY DEF Inv, Types
  <2>3. /\ Last(gosub) \in 1 .. Len(program) + 1 /\ Front(gosub) \in Seq(1 .. Len(program) + 1)
        /\ Len(Front(gosub)) = Len(gosub) - 1 /\ Len(gosub) \in Nat
    BY <1>5, <2>2, FrontAndLast
  <2>4. nxtline' \in 0 .. Len(program) + 1 /\ Len(gosub') < MAX_GOSUB_NEST
    BY <1>3, <2>1, <2>2, <2>3, Constants
  <2>5. Types'
    BY <2>1, <2>3, <2>4 DEF Inv, Types, on
  <2>6. Good(s)'
    BY <1>1, <2>1, GoodNext
  <2>7. QED BY <2>5, <2>6 DEF Inv
<1>6. QED BY <1>4, <1>5

LEMMA StepInv ==
  ASSUME Inv, [Next]_vars
  PROVE  Inv'
<1>1. CASE RuntimeError \/ UserBreak \/ EndOfProgram \/ cmd_end
  <2>1. Stopped /\ UNCHANGED BasicErr
    BY <1>1 DEF RuntimeError, UserBreak, EndOfProgram, cmd_end
  <2>2. BasicErr' \in {0, 1, 3, 5, 6, 7}
    BY <2>1 DEF Inv, Types
  <2>3. QED BY <2>1, <2>2, StopsInv
<1>2. CASE KeyEvent
  BY <1>2, TriggerInv DEF KeyEvent, HandlerInv
<1>3. CASE TimerEvent
  BY <1>3, TriggerInv DEF TimerEvent, HandlerInv
<1>4. CASE NoEvent
  BY <1>4, NoEventInv
<1>5. CASE Execute
  <2>1. CASE EvaluationFails \/ cmd_print
    BY <2>1, PlainInv
  <2>2. CASE EndOfProgram \/ cmd_end
    BY <1>1, <2>2
  <2>3. QED BY <1>5, <2>1, <2>2, LetInv, OnInv, ForInv, NextInv, GotoInv, IfInv, GosubInv,
               ReturnInv DEF Execute
<1>6. CASE UNCHANGED vars
  BY <1>6 DEF vars, stacks, on, hist, Inv, Types, Good, Live, HandlerInv
<1>7. QED BY <1>1, <1>2, <1>3, <1>4, <1>5, <1>6 DEF Next, Turn

\* Every program with a shape keeps the return addresses and the loops of all that is
\* open, that of handlers in handlers included, in the two arrays, and reads no line,
\* variable or loop that is not there (commands.c 166-233, 640-683).
THEOREM TypeCorrect ==
  ASSUME Structured
  PROVE  Spec => []TypeOK
<1>1. Init => Inv
  BY InitInv
<1>2. Inv /\ [Next]_vars => Inv'
  BY StepInv
<1>3. Inv => TypeOK
  BY InvTypes
<1>4. QED BY <1>1, <1>2, <1>3, PTL DEF Spec

-----------------------------------------------------------------------------
(***************************************************************************)
(* Transparent handlers: seen from the main program, a step is one of the  *)
(* program alone, or it changes nothing.                                   *)
(***************************************************************************)
NamedLoop(p, x) == [var |-> p[x.at - 1].var, at |-> x.at, to |-> x.to, by |-> x.by]
NamedLoops(p, l) == [i \in DOMAIN l |-> NamedLoop(p, l[i])]

LEMMA NamesOf ==
  ASSUME NEW p, NEW l \in Loops
  PROVE  /\ DOMAIN NamedLoops(p, l) = 1 .. Len(l) /\ Len(NamedLoops(p, l)) = Len(l)
         /\ \A i \in 1 .. Len(l) : NamedLoops(p, l)[i] = NamedLoop(p, l[i])
         /\ NamedLoops(p, l) \in Seq({NamedLoop(p, l[i]) : i \in 1 .. Len(l)})
<1> DEFINE S == {NamedLoop(p, l[i]) : i \in 1 .. Len(l)}
           q == NamedLoops(p, l)
<1>1. Len(l) \in Nat /\ DOMAIN l = 1 .. Len(l)
  BY DEF Loops
<1>2. DOMAIN q = 1 .. Len(l) /\ \A i \in 1 .. Len(l) : q[i] = NamedLoop(p, l[i])
  BY <1>1 DEF NamedLoops
<1>3. q \in [1 .. Len(l) -> S]
  BY <1>1 DEF NamedLoops
<1> HIDE DEF q, S
<1>4. q \in Seq(S) /\ Len(q) = Len(l)
  BY <1>1, <1>3
<1>5. QED BY <1>2, <1>4 DEF q, S

LEMMA SameSeq ==
  ASSUME NEW S, NEW T, NEW q \in Seq(S), NEW r \in Seq(T), Len(q) = Len(r),
         \A i \in 1 .. Len(q) : q[i] = r[i]
  PROVE  q = r
<1> DEFINE n == Len(q)
<1>1. q = [i \in 1 .. n |-> q[i]] /\ r = [i \in 1 .. n |-> r[i]]
  OBVIOUS
<1> HIDE DEF n
<1>2. [i \in 1 .. n |-> q[i]] = [i \in 1 .. n |-> r[i]]
  BY DEF n
<1>3. QED BY <1>1, <1>2

LEMMA NamedChanges ==
  ASSUME NEW p, NEW l \in Loops
  PROVE  /\ \A x \in [at : Nat, to : Int, by : Int] :
              NamedLoops(p, Append(l, x)) = Append(NamedLoops(p, l), NamedLoop(p, x))
         /\ l # << >> => /\ NamedLoops(p, l) # << >>
                         /\ Last(NamedLoops(p, l)) = NamedLoop(p, Last(l))
                         /\ NamedLoops(p, Front(l)) = Front(NamedLoops(p, l))
         /\ l = << >> => NamedLoops(p, l) = << >>
<1> DEFINE q == NamedLoops(p, l)
           S == {NamedLoop(p, l[i]) : i \in 1 .. Len(l)}
<1>1. /\ Len(l) \in Nat /\ q \in Seq(S) /\ Len(q) = Len(l)
      /\ \A i \in 1 .. Len(l) : q[i] = NamedLoop(p, l[i])
      /\ l \in Seq([at : Nat, to : Int, by : Int])
  <2>1. Len(l) \in Nat /\ l \in Seq([at : Nat, to : Int, by : Int])
    BY DEF Loops
  <2>2. /\ q \in Seq(S) /\ Len(q) = Len(l) /\ \A i \in 1 .. Len(l) : q[i] = NamedLoop(p, l[i])
    BY NamesOf, Zenon
  <2>3. QED BY <2>1, <2>2
<1>2. ASSUME NEW x \in [at : Nat, to : Int, by : Int]
      PROVE  NamedLoops(p, Append(l, x)) = Append(q, NamedLoop(p, x))
  <2> DEFINE l2 == Append(l, x)
             y == NamedLoop(p, x)
             q2 == NamedLoops(p, l2)
             q3 == Append(q, y)
             S2 == {NamedLoop(p, l2[i]) : i \in 1 .. Len(l2)}
  <2>1. /\ l2 \in Loops /\ Len(l2) = Len(l) + 1 /\ l2[Len(l) + 1] = x
        /\ \A i \in 1 .. Len(l) : l2[i] = l[i]
    BY <1>1 DEF Loops
  <2>2. /\ q2 \in Seq(S2) /\ Len(q2) = Len(l2)
        /\ \A i \in 1 .. Len(l2) : q2[i] = NamedLoop(p, l2[i])
    <3>1. l2 \in Loops
      BY <2>1
    <3>2. QED BY ONLY <3>1, NamesOf, ZenonT(60)
  <2> HIDE DEF l2, y, q2, S2, S, q
  <2>3. /\ q3 \in Seq(S \cup {y}) /\ Len(q3) = Len(l) + 1 /\ q3[Len(l) + 1] = y
        /\ \A i \in 1 .. Len(l) : q3[i] = q[i]
    BY <1>1
  <2> HIDE DEF q3
  <2>4. \A i \in 1 .. Len(l) + 1 : q2[i] = q3[i]
    <3> SUFFICES ASSUME NEW i \in 1 .. Len(l) + 1 PROVE q2[i] = q3[i]
      OBVIOUS
    <3>1. CASE i = Len(l) + 1
      BY <1>1, <2>1, <2>2, <2>3, <3>1 DEF y
    <3>2. CASE i \in 1 .. Len(l)
      BY <1>1, <2>1, <2>2, <2>3, <3>2
    <3>3. QED BY <1>1, <3>1, <3>2
  <2>5. q2 = q3
    <3>1. Len(q2) = Len(q3) /\ \A i \in 1 .. Len(q2) : q2[i] = q3[i]
      BY <2>1, <2>2, <2>3, <2>4
    <3>2. QED BY <2>2, <2>3, <3>1, SameSeq
  <2>6. QED BY <2>5 DEF q2, q3, l2, y
<1>3. ASSUME l # << >>
      PROVE  /\ q # << >> /\ Last(q) = NamedLoop(p, Last(l))
             /\ NamedLoops(p, Front(l)) = Front(q)
  <2> DEFINE l2 == Front(l)
             q2 == NamedLoops(p, l2)
             q3 == Front(q)
             S2 == {NamedLoop(p, l2[i]) : i \in 1 .. Len(l2)}
  <2> HIDE DEF S, q
  <2>1. /\ l2 \in Loops /\ Len(l2) = Len(l) - 1 /\ Last(l) = l[Len(l)] /\ Len(l) >= 1
        /\ \A i \in 1 .. Len(l) - 1 : l2[i] = l[i]
    BY <1>1, <1>3, FrontAndLast DEF Loops
  <2>2. q # << >>
    BY <1>1, <2>1
  <2>3. /\ q3 \in Seq(S) /\ Len(q3) = Len(l) - 1 /\ Last(q) = q[Len(l)]
        /\ \A i \in 1 .. Len(l) - 1 : q3[i] = q[i]
    BY <1>1, <2>2, FrontAndLast
  <2>4. /\ q2 \in Seq(S2) /\ Len(q2) = Len(l2)
        /\ \A i \in 1 .. Len(l2) : q2[i] = NamedLoop(p, l2[i])
    <3>1. l2 \in Loops
      BY <2>1
    <3>2. QED BY ONLY <3>1, NamesOf, ZenonT(60)
  <2> HIDE DEF l2, q2, S2, q3
  <2>5. ASSUME NEW i \in 1 .. Len(l) - 1 PROVE q2[i] = q3[i]
    <3>1. i \in 1 .. Len(l) /\ i \in 1 .. Len(l2)
      BY <1>1, <2>1
    <3>2. q2[i] = NamedLoop(p, l2[i]) /\ l2[i] = l[i]
      BY ONLY <2>1, <2>4, <3>1
    <3>3. q3[i] = q[i] /\ q[i] = NamedLoop(p, l[i])
      BY ONLY <1>1, <2>3, <3>1
    <3>4. QED BY ONLY <3>2, <3>3
  <2>6. q2 = q3
    <3>1. Len(q2) = Len(q3) /\ \A i \in 1 .. Len(q2) : q2[i] = q3[i]
      BY <2>1, <2>3, <2>4, <2>5
    <3>2. QED BY <2>3, <2>4, <3>1, SameSeq
  <2>7. Last(q) = NamedLoop(p, Last(l))
    BY <1>1, <2>1, <2>3
  <2>8. QED BY <2>2, <2>6, <2>7 DEF q2, q3, l2
<1>4. l = << >> => q = << >>
  <2>1. l = << >> => Len(q) = 0
    BY <1>1
  <2> HIDE DEF q, S
  <2>2. QED BY <1>1, <2>1
<1>5. QED BY <1>2, <1>3, <1>4

LEMMA Names ==
  /\ \A l : Named(l) = NamedLoops(program, l)
  /\ program' = program => \A l : Named(l)' = NamedLoops(program, l)'
BY DEF Named, NamedLoops, NamedLoop

LEMMA SameRange ==
  ASSUME NEW v, NEW to, NEW by \in Int
  PROVE  Sequential!InRange(v, to, by) <=> Continues(v, to, by)
BY DEF Sequential!InRange, Continues

\* A line that only goes on, at the place where the main program goes on too.
LEMMA MainPlain ==
  ASSUME Inv, Live, Live', ~InHandler, ~InHandler', cmd_print \/ cmd_on
  PROVE  Sequential!Plain
<1>1. /\ nxtline \in DOMAIN program /\ program' = program /\ nxtline' = nxtline + 1
      /\ program[nxtline].token \in {"PRINT", "ON TIME", "ON KEY"}
      /\ UNCHANGED <<gosub, loops, val>>
  BY DEF cmd_print, cmd_on, AtLine, line, Executed, GoOn, stacks
<1>2. Named(loops)' = Named(loops) /\ MainVals(val)' = MainVals(val)
  BY <1>1 DEF Named
<1>3. QED BY <1>1, <1>2
          DEF Sequential!Plain, Sequential!Is, Sequential!line, Sequential!rest, Live

LEMMA MainLet ==
  ASSUME Inv, Live, Live', ~InHandler, ~InHandler', cmd_let
  PROVE  Sequential!Let
<1>1. PICK s : Good(s)
  BY DEF Inv
<1> DEFINE here == program[nxtline]
<1>2. /\ pc = "execute" /\ nxtline \in DOMAIN program /\ here.token = "LET"
      /\ program' = program /\ nxtline' = nxtline + 1
      /\ val' = [val EXCEPT ![here.var] = here.n] /\ UNCHANGED <<gosub, loops>>
  BY DEF cmd_let, AtLine, line, Executed, GoOn, stacks
<1>3. here.var \in MainVars /\ val \in [Vars -> Int]
  <2>1. /\ FitsLine(s, program, nxtline)
        /\ ~HasEvent(open) => s.lines[nxtline].by \cap {"main", "sub"} # {}
    BY <1>1, <1>2, Executing
  <2>2. QED BY <1>2, <2>1 DEF FitsLine, MaySet, HasEvent, InHandler, Inv, Types
<1>4. QED BY <1>2, <1>3 DEF Sequential!Let, Sequential!Is, Sequential!line, Sequential!rest,
                            Live, Named, MainVals, Vars

LEMMA MainFor ==
  ASSUME Inv, Live, Live', ~InHandler, ~InHandler', cmd_for
  PROVE  Sequential!For
<1>1. PICK s : Good(s)
  BY DEF Inv
<1> DEFINE here == program[nxtline]
<1>2. /\ pc = "execute" /\ nxtline \in DOMAIN program /\ here.token = "FOR"
      /\ program' = program /\ UNCHANGED gosub
      /\ val' = [val EXCEPT ![here.var] = here.n]
  BY DEF cmd_for, AtLine, line, Executed
<1>3. /\ FitsLine(s, program, nxtline) /\ nxtline \in 1 .. Len(program) /\ Len(program) \in Nat
      /\ DOMAIN s.lines \subseteq 1 .. Len(program) + 1 /\ Fits(s, program)
      /\ ~HasEvent(open) => s.lines[nxtline].by \cap {"main", "sub"} # {}
  BY <1>1, <1>2, Executing
<1>4. FitsFor(s, program, nxtline)
  BY <1>2, <1>3 DEF FitsLine
<1>5. /\ here.var \in MainVars /\ here.n \in Int /\ here.to \in Int /\ here.by \in Int
      /\ val \in [Vars -> Int] /\ loops \in Loops
  BY <1>3, <1>4 DEF FitsFor, IsFor, MaySet, HasEvent, InHandler, Inv, Types
<1>6. /\ DOMAIN program = 1 .. Len(program) /\ nxtline \in Nat
  BY <1>3, Shapes
<1>7. MainVals(val)' = [MainVals(val) EXCEPT ![here.var] = here.n]
  BY <1>2, <1>5 DEF MainVals, Vars
<1>8. Sequential!InRange(here.n, here.to, here.by) <=> Continues(here.n, here.to, here.by)
  BY <1>5, SameRange
<1>9. CASE Continues(here.n, here.to, here.by)
  <2>1. nxtline' = nxtline + 1 /\ loops' = Append(loops, LoopOf(program, nxtline))
    BY <1>9 DEF cmd_for, line, GoOn, LoopOf
  <2>2. LoopOf(program, nxtline) \in [at : Nat, to : Int, by : Int]
    BY <1>5, <1>6 DEF LoopOf
  <2>3. Named(loops)' = Append(Named(loops), NamedLoop(program, LoopOf(program, nxtline)))
    <3>1. Named(loops)' = NamedLoops(program, loops')
      BY <1>2 DEF Named, NamedLoops, NamedLoop
    <3>2. Named(loops) = NamedLoops(program, loops)
      BY Names
    <3>3. NamedLoops(program, Append(loops, LoopOf(program, nxtline)))
            = Append(NamedLoops(program, loops), NamedLoop(program, LoopOf(program, nxtline)))
      BY <1>5, <2>2, NamedChanges
    <3>4. QED BY <2>1, <3>1, <3>2, <3>3
  <2>4. NamedLoop(program, LoopOf(program, nxtline))
          = [var |-> here.var, at |-> nxtline + 1, to |-> here.to, by |-> here.by]
    <3>1. nxtline + 1 - 1 = nxtline /\ (nxtline + 1) - 1 = nxtline
      BY <1>6
    <3>2. QED BY <3>1 DEF NamedLoop, LoopOf
  <2>5. Named(loops)' = Append(Named(loops), [var |-> here.var, at |-> nxtline + 1,
                                              to |-> here.to, by |-> here.by])
    BY <2>3, <2>4
  <2>6. QED BY <1>2, <1>7, <1>8, <1>9, <2>1, <2>5
            DEF Sequential!For, Sequential!Is, Sequential!line, Sequential!rest, Live
<1>10. CASE ~Continues(here.n, here.to, here.by)
  <2>1. nxtline' = NextOf(program, nxtline) /\ UNCHANGED loops
    BY <1>10 DEF cmd_for, line, findnext, NextOf
  <2>2. NextOf(program, nxtline) \in DOMAIN s.lines
    BY <1>4, <1>10 DEF FitsFor, Leads
  <2>3. NextOf(program, nxtline) # 0
    BY <1>3, <2>2
  <2>4. /\ nxtline' \in nxtline + 1 .. Len(program)
        /\ program[nxtline'].token = "NEXT" /\ program[nxtline'].var = here.var
    BY <1>3, <1>6, <2>1, <2>3, NextFound
  <2>5. nxtline' > nxtline /\ nxtline' \in DOMAIN program
    BY <1>3, <1>6, <2>4
  <2>6. Named(loops)' = Named(loops)
    BY <1>2, <2>1 DEF Named
  <2>7. QED BY <1>2, <1>7, <1>8, <1>10, <2>1, <2>4, <2>5, <2>6
            DEF Sequential!For, Sequential!Is, Sequential!line, Sequential!rest,
                Sequential!Exists, Live
<1>11. QED BY <1>9, <1>10

LEMMA SeenMain ==
  ASSUME ~InHandler
  PROVE  /\ Sequential!Last(IF InHandler THEN main.gosub ELSE gosub) = Last(gosub)
         /\ Sequential!Front(IF InHandler THEN main.gosub ELSE gosub) = Front(gosub)
         /\ Sequential!Last(IF InHandler THEN Named(main.loops) ELSE Named(loops))
              = Last(Named(loops))
         /\ Sequential!Front(IF InHandler THEN Named(main.loops) ELSE Named(loops))
              = Front(Named(loops))
<1>1. /\ (IF InHandler THEN main.gosub ELSE gosub) = gosub
      /\ (IF InHandler THEN Named(main.loops) ELSE Named(loops)) = Named(loops)
  OBVIOUS
<1>2. \A q : Sequential!Last(q) = Last(q) /\ Sequential!Front(q) = Front(q)
  BY DEF Sequential!Last, Sequential!Front, Last, Front
<1>3. QED BY <1>1, <1>2, Zenon

LEMMA MainNext ==
  ASSUME Inv, Live, Live', ~InHandler, ~InHandler', cmd_next
  PROVE  Sequential!NextPass \/ Sequential!NextClosed
<1>1. PICK s : Good(s)
  BY DEF Inv
<1> DEFINE here == program[nxtline]
           f == Last(s.lines[nxtline].open)
           loop == Last(loops)
           v == val[here.var] + loop.by
<1>2. /\ pc = "execute" /\ nxtline \in DOMAIN program /\ here.token = "NEXT"
      /\ program' = program /\ UNCHANGED gosub
  BY DEF cmd_next, AtLine, line, Executed
<1>3. ~HasEvent(open) => s.lines[nxtline].by \cap {"main", "sub"} # {}
  BY <1>1, <1>2, Executing
<1>4. /\ MaySet(s, nxtline, here.var)
      /\ loops # << >> => /\ loop = LoopOf(program, f) /\ IsFor(program, f)
                          /\ program[f].var = here.var /\ f \in DOMAIN program
  BY <1>1, <1>2, NextFacts
<1>5. here.var \in MainVars /\ val \in [Vars -> Int] /\ loops \in Loops
  BY <1>3, <1>4 DEF MaySet, HasEvent, InHandler, Inv, Types
<1>6. Named(loops) = NamedLoops(program, loops)
  BY Names
<1>7. CASE loops = << >>
  <2>1. nxtline' = nxtline + 1 /\ UNCHANGED <<loops, val>>
    BY <1>7 DEF cmd_next, GoOn
  <2>2. Named(loops) = << >>
    BY <1>5, <1>6, <1>7, NamedChanges
  <2>3. Named(loops)' = Named(loops) /\ MainVals(val)' = MainVals(val)
    BY <1>2, <2>1 DEF Named
  <2>4. Sequential!NextClosed
    BY <1>2, <2>1, <2>2, <2>3 DEF Sequential!NextClosed, Sequential!Is, Sequential!line,
                                  Sequential!rest, Sequential!Open, Live
  <2>5. QED BY <2>4
<1>8. CASE loops # << >>
  <2>1. /\ val' = [val EXCEPT ![here.var] = v]
        /\ IF Continues(v, loop.to, loop.by)
           THEN nxtline' = loop.at /\ UNCHANGED loops
           ELSE nxtline' = nxtline + 1 /\ loops' = Front(loops)
    BY <1>8 DEF cmd_next, line, GoOn, Increment, LoopDone
  <2>2. /\ Named(loops) # << >> /\ Last(Named(loops)) = NamedLoop(program, loop)
        /\ NamedLoops(program, Front(loops)) = Front(Named(loops))
    BY <1>5, <1>6, <1>8, NamedChanges
  <2>3. NamedLoop(program, loop) = [var |-> here.var, at |-> loop.at, to |-> loop.to,
                                    by |-> loop.by]
    <3>1. f \in Nat
      <4>1. DOMAIN program = 1 .. Len(program) /\ Len(program) \in Nat
        BY <1>1, <1>2, Executing, Shapes
      <4>2. QED BY <1>4, <1>8, <4>1
    <3>2. loop.at = f + 1 /\ (f + 1) - 1 = f
      BY <1>4, <1>8, <3>1 DEF LoopOf
    <3> HIDE DEF loop, f, here
    <3>3. program[loop.at - 1].var = here.var
      BY <1>4, <1>8, <3>2
    <3>4. QED BY <3>3 DEF NamedLoop
  <2>4. loop.by \in Int
    BY <1>4, <1>8 DEF LoopOf, IsFor
  <2>5. Sequential!InRange(v, loop.to, loop.by) <=> Continues(v, loop.to, loop.by)
    BY <2>4, SameRange
  <2>6. MainVals(val)' = [MainVals(val) EXCEPT ![here.var] = v]
    BY <1>5, <2>1 DEF MainVals, Vars
  <2>7. MainVals(val)[here.var] = val[here.var]
    BY <1>5 DEF MainVals
  <2>8. IF Continues(v, loop.to, loop.by)
        THEN nxtline' = loop.at /\ Named(loops)' = Named(loops)
        ELSE nxtline' = nxtline + 1 /\ Named(loops)' = Front(Named(loops))
    <3>1. Named(loops)' = NamedLoops(program, loops')
      BY <1>2 DEF Named, NamedLoops, NamedLoop
    <3> HIDE DEF loop, v
    <3>2. QED BY <1>6, <2>1, <2>2, <3>1
  <2>9. PICK x : /\ x = Last(Named(loops)) /\ x.var = here.var /\ x.at = loop.at /\ x.to = loop.to
                 /\ x.by = loop.by
    BY <2>2, <2>3
  <2>10. Sequential!Open(here.var)
    BY <2>2, <2>9, SeenMain DEF Sequential!Open
  <2> HIDE DEF loop
  <2>11. Sequential!NextPass
    BY <1>2, <2>5, <2>6, <2>7, <2>8, <2>9, <2>10, SeenMain
       DEF Sequential!NextPass, Sequential!Is, Sequential!line, Sequential!rest, Live
  <2>12. QED BY <2>11
<1>9. QED BY <1>7, <1>8

LEMMA MainJump ==
  ASSUME Inv, Live, Live', ~InHandler, ~InHandler', cmd_goto \/ cmd_if
  PROVE  Sequential!Goto \/ Sequential!If
<1>1. PICK s : Good(s)
  BY DEF Inv
<1>2. pc = "execute" /\ nxtline \in DOMAIN program
  BY DEF cmd_goto, cmd_if, AtLine
<1>3. /\ FitsLine(s, program, nxtline)
      /\ ~HasEvent(open) => s.lines[nxtline].by \cap {"main", "sub"} # {}
  BY <1>1, <1>2, Executing
<1> DEFINE here == program[nxtline]
<1>4. program' = program /\ UNCHANGED <<gosub, loops, val>>
  BY DEF cmd_goto, cmd_if, Executed, Stopped, stacks, Live
<1>5. Named(loops)' = Named(loops) /\ MainVals(val)' = MainVals(val)
  BY <1>4 DEF Named
<1>6. CASE cmd_goto
  <2>1. here.token = "GOTO" /\ nxtline' = here.n
    BY <1>6 DEF cmd_goto, AtLine, line, gotoln, Stopped, Live
  <2>2. Sequential!Goto
    BY <1>2, <1>4, <1>5, <2>1
       DEF Sequential!Goto, Sequential!Is, Sequential!line, Sequential!rest, Live
  <2>3. QED BY <2>2
<1>7. CASE cmd_if
  <2>1. /\ here.token = "IF"
        /\ nxtline' = IF val[here.var] = here.n THEN here.to ELSE nxtline + 1
    BY <1>7 DEF cmd_if, AtLine, line, gotoln, GoOn, Live
  <2>2. here.var \in MainVars
    BY <1>3, <2>1 DEF FitsLine, HasEvent, InHandler
  <2>3. MainVals(val)[here.var] = val[here.var]
    BY <2>2 DEF MainVals
  <2>4. Sequential!If
    BY <1>2, <1>4, <1>5, <2>1, <2>3
       DEF Sequential!If, Sequential!Is, Sequential!line, Sequential!rest, Live
  <2>5. QED BY <2>4
<1>8. QED BY <1>6, <1>7

LEMMA MainCall ==
  ASSUME Inv, Live, Live', ~InHandler, ~InHandler', cmd_gosub
  PROVE  Sequential!Gosub
<1>1. PICK s : Good(s)
  BY DEF Inv
<1>2. gotoln(line.n) # -1
  BY DEF cmd_gosub, Live
<1>3. /\ nxtline \in DOMAIN program /\ program[nxtline].token = "GOSUB" /\ program' = program
      /\ UNCHANGED <<loops, val>>
  BY <1>2 DEF cmd_gosub, AtLine, line, Executed
<1>4. nxtline' = program[nxtline].n /\ gosub' = Append(gosub, nxtline + 1)
  BY <1>1, <1>2, GosubFacts
<1>5. Named(loops)' = Named(loops) /\ MainVals(val)' = MainVals(val)
  BY <1>3 DEF Named
<1>6. QED BY <1>3, <1>4, <1>5
          DEF Sequential!Gosub, Sequential!Is, Sequential!line, Sequential!rest, Live

LEMMA MainReturn ==
  ASSUME Inv, Live, Live', ~InHandler, ~InHandler', cmd_return
  PROVE  Sequential!Return
<1>1. gosub # << >>
  BY DEF cmd_return, Live
<1>2. /\ nxtline \in DOMAIN program /\ program[nxtline].token = "RETURN" /\ program' = program
      /\ nxtline' = Last(gosub) /\ gosub' = Front(gosub) /\ UNCHANGED <<loops, val>>
  BY <1>1 DEF cmd_return, AtLine, line, Executed
<1>3. Named(loops)' = Named(loops) /\ MainVals(val)' = MainVals(val)
  BY <1>2 DEF Named
<1>4. QED BY <1>1, <1>2, <1>3, SeenMain
          DEF Sequential!Return, Sequential!Is, Sequential!line, Sequential!rest, Live

\* What is seen of a state from the main program.
SeenAt    == IF InHandler THEN main.at ELSE nxtline
SeenCalls == IF InHandler THEN main.gosub ELSE gosub
SeenLoops == IF InHandler THEN Named(main.loops) ELSE Named(loops)
SeenVals  == IF InHandler THEN MainVals(main.val) ELSE MainVals(val)
Seen == <<program, SeenAt, SeenCalls, SeenLoops, SeenVals, pc # "stopped" /\ BasicErr = 0>>

LEMMA InitSeen == Init => Sequential!Init
<1> SUFFICES ASSUME Init PROVE Sequential!Init
  OBVIOUS
<1>1. /\ nxtline = 1 /\ gosub = << >> /\ loops = << >> /\ BasicErr = 0 /\ pc = "events"
      /\ open = << >> /\ val = [v \in Vars |-> 0]
  BY DEF Init
<1>2. ~InHandler
  BY <1>1 DEF InHandler
<1>3. Named(loops) = << >>
  <2>1. loops \in Loops
    BY <1>1 DEF Loops
  <2>2. QED BY <1>1, <2>1, Names, NamedChanges
<1>4. DOMAIN MainVals(val) = MainVars /\ \A v \in MainVars : MainVals(val)[v] = 0
  BY <1>1 DEF MainVals, Vars
<1>5. QED BY <1>1, <1>2, <1>3, <1>4 DEF Sequential!Init

LEMMA SeenStops ==
  ASSUME Live, ~Live', program' = program, SeenLoops' = SeenLoops, SeenVals' = SeenVals
  PROVE  Sequential!Stop
BY DEF Sequential!Stop, Live, SeenLoops, SeenVals

LEMMA SeenSame ==
  ASSUME program' = program, Live' <=> Live,
         SeenAt' = SeenAt, SeenCalls' = SeenCalls, SeenLoops' = SeenLoops, SeenVals' = SeenVals
  PROVE  UNCHANGED Seen
<1>1. (pc # "stopped" /\ BasicErr = 0)' = (pc # "stopped" /\ BasicErr = 0)
  BY Zenon DEF Live
<1>2. QED BY <1>1, Zenon DEF Seen

\* A step that leaves alone what is open.
LEMMA SeenKept ==
  ASSUME program' = program, UNCHANGED <<open, main>>, InHandler \/ UNCHANGED <<loops, val>>
  PROVE  /\ SeenLoops' = SeenLoops /\ SeenVals' = SeenVals
         /\ (InHandler' <=> InHandler)
         /\ InHandler \/ UNCHANGED <<nxtline, gosub>> =>
              SeenAt' = SeenAt /\ SeenCalls' = SeenCalls
<1>1. InHandler' <=> InHandler
  BY DEF InHandler
<1>2. \A l : Named(l)' = Named(l)
  BY DEF Named
<1>3. CASE InHandler
  <2>1. Named(main.loops)' = Named(main.loops)
    BY DEF Named
  <2>2. QED BY <1>1, <1>3, <2>1 DEF SeenLoops, SeenVals, SeenAt, SeenCalls, MainVals
<1>4. CASE ~InHandler
  <2>1. Named(loops)' = Named(loops)
    BY <1>4 DEF Named
  <2>2. QED BY <1>1, <1>4, <2>1 DEF SeenLoops, SeenVals, SeenAt, SeenCalls, MainVals
<1>5. QED BY <1>3, <1>4

LEMMA SeenTrigger ==
  ASSUME Inv, NEW n, Trigger(n)
  PROVE  Sequential!Stop \/ UNCHANGED Seen
<1>1. /\ Live /\ UNCHANGED <<program, loops, val>>
      /\ open' = Append(open, "event")
      /\ main' = IF InHandler THEN main
                 ELSE [at |-> nxtline, gosub |-> gosub, loops |-> loops, val |-> val]
  BY DEF Trigger, Live, Call
<1>2. InHandler'
  <2>1. open \in Opened
    BY DEF Inv, Types
  <2>2. HasEvent(Append(open, "event"))
    BY <2>1, EventsOpen
  <2>3. QED BY <1>1, <2>2 DEF InHandler, HasEvent
<1>3. /\ SeenAt' = SeenAt /\ SeenCalls' = SeenCalls
      /\ SeenLoops' = SeenLoops /\ SeenVals' = SeenVals
  <2>1. CASE InHandler
    <3>1. main' = main
      BY <1>1, <2>1
    <3>2. Named(main.loops)' = Named(main.loops)
      BY <1>1, <3>1 DEF Named
    <3>3. QED BY <1>2, <2>1, <3>1, <3>2 DEF SeenLoops, SeenVals, SeenAt, SeenCalls, MainVals
  <2>2. CASE ~InHandler
    <3>1. /\ main'.at = nxtline /\ main'.gosub = gosub /\ main'.loops = loops
          /\ main'.val = val
      BY <1>1, <2>2
    <3>2. Named(main.loops)' = Named(loops)
      BY <1>1, <3>1 DEF Named
    <3>3. QED BY <1>2, <2>2, <3>1, <3>2 DEF SeenLoops, SeenVals, SeenAt, SeenCalls, MainVals
  <2>3. QED BY <2>1, <2>2
<1>4. CASE Live'
  BY <1>1, <1>3, <1>4, SeenSame
<1>5. CASE ~Live'
  BY <1>1, <1>3, <1>5, SeenStops
<1>6. QED BY <1>4, <1>5

\* A handler's step; the RETURN of the first handler puts in sight what was saved.
LEMMA SeenReturn ==
  ASSUME Inv, cmd_return, InHandler
  PROVE  Sequential!Stop \/ UNCHANGED Seen
<1>1. PICK s : Good(s)
  BY DEF Inv
<1>2. CASE gosub = << >>
  <2>1. /\ program' = program /\ UNCHANGED <<open, main>> /\ BasicErr' = 7 /\ pc = "execute"
    BY <1>2 DEF cmd_return, Executed, AtLine
  <2>2. Live /\ ~Live'
    BY <2>1 DEF Live, Inv, Types
  <2>3. SeenLoops' = SeenLoops /\ SeenVals' = SeenVals
    BY <2>1, SeenKept
  <2>4. QED BY <2>1, <2>2, <2>3, SeenStops
<1>3. CASE gosub # << >>
  <2>1. /\ UNCHANGED <<program, loops, val, BasicErr, main>>
        /\ pc' = "events" /\ Live
        /\ HasEvent(open) /\ ~HasEvent(open') =>
             /\ main.at = nxtline' /\ main.gosub = gosub' /\ main.loops = loops
             /\ \A x \in MainVars : main.val[x] = val[x]
    BY <1>1, <1>3, ReturnFacts
  <2>2. Live' <=> Live
    BY <2>1 DEF Live
  <2>3. (InHandler <=> HasEvent(open)) /\ (InHandler' <=> HasEvent(open'))
    BY DEF InHandler, HasEvent
  <2>4. Named(main.loops)' = Named(main.loops)
    BY <2>1 DEF Named
  <2>5. CASE InHandler'
    <3>1. /\ SeenAt' = SeenAt /\ SeenCalls' = SeenCalls
          /\ SeenLoops' = SeenLoops /\ SeenVals' = SeenVals
      BY <2>1, <2>4, <2>5 DEF SeenLoops, SeenVals, SeenAt, SeenCalls, MainVals
    <3>2. QED BY <2>1, <2>2, <3>1, SeenSame
  <2>6. CASE ~InHandler'
    <3>1. /\ main.at = nxtline' /\ main.gosub = gosub' /\ main.loops = loops
          /\ \A x \in MainVars : main.val[x] = val[x]
      BY <2>1, <2>3, <2>6
    <3>2. Named(loops)' = Named(main.loops)
      BY <2>1, <3>1 DEF Named
    <3>3. MainVals(val)' = MainVals(main.val)
      BY <2>1, <3>1 DEF MainVals
    <3>4. /\ SeenAt' = SeenAt /\ SeenCalls' = SeenCalls
          /\ SeenLoops' = SeenLoops /\ SeenVals' = SeenVals
      BY <2>6, <3>1, <3>2, <3>3 DEF SeenLoops, SeenVals, SeenAt, SeenCalls
    <3>5. QED BY <2>1, <2>2, <3>4, SeenSame
  <2>7. QED BY <2>5, <2>6
<1>4. QED BY <1>2, <1>3

LEMMA SeenGosub ==
  ASSUME Inv, cmd_gosub, InHandler
  PROVE  Sequential!Stop \/ UNCHANGED Seen
<1>1. PICK s : Good(s)
  BY DEF Inv
<1>2. /\ UNCHANGED <<program, loops, val, main>> /\ Live
  BY DEF cmd_gosub, AtLine, Executed, hist, Inv, Types, Live
<1>3. Named(main.loops)' = Named(main.loops)
  BY <1>2 DEF Named
<1>4. InHandler'
  <2>1. CASE gotoln(line.n) = -1
    BY <2>1 DEF cmd_gosub, hist, InHandler
  <2>2. CASE gotoln(line.n) # -1
    <3>1. open' = Append(open, "sub") /\ open \in Opened
      BY <1>1, <2>2, GosubFacts DEF Inv, Types
    <3>2. QED BY <3>1, EventsOpen DEF InHandler, HasEvent
  <2>3. QED BY <2>1, <2>2
<1>5. /\ SeenAt' = SeenAt /\ SeenCalls' = SeenCalls
      /\ SeenLoops' = SeenLoops /\ SeenVals' = SeenVals
  BY <1>2, <1>3, <1>4 DEF SeenLoops, SeenVals, SeenAt, SeenCalls, MainVals
<1>6. CASE Live'
  BY <1>2, <1>5, <1>6, SeenSame
<1>7. CASE ~Live'
  BY <1>2, <1>5, <1>7, SeenStops
<1>8. QED BY <1>6, <1>7

Plainly == \/ EndOfProgram \/ cmd_end \/ EvaluationFails \/ cmd_let \/ cmd_print \/ cmd_on
           \/ cmd_for \/ cmd_next \/ cmd_goto \/ cmd_if

LEMMA SeenHandler ==
  ASSUME Inv, Execute, InHandler
  PROVE  Sequential!Stop \/ UNCHANGED Seen
<1>1. CASE Plainly
  <2>1. program' = program /\ UNCHANGED <<open, main>> /\ Live
    BY <1>1 DEF Plainly, EndOfProgram, cmd_end, EvaluationFails, cmd_let, cmd_print, cmd_on,
                cmd_for, cmd_next, cmd_goto, cmd_if, Stopped, Executed, hist, AtLine,
                Inv, Types, Live
  <2>2. /\ SeenAt' = SeenAt /\ SeenCalls' = SeenCalls
        /\ SeenLoops' = SeenLoops /\ SeenVals' = SeenVals
    BY <2>1, SeenKept
  <2>3. CASE Live'
    BY <2>1, <2>2, <2>3, SeenSame
  <2>4. CASE ~Live'
    BY <2>1, <2>2, <2>4, SeenStops
  <2>5. QED BY <2>3, <2>4
<1>2. QED BY <1>1, SeenReturn, SeenGosub DEF Execute, Plainly

\* A step of the main program.
LEMMA SeenProgram ==
  ASSUME Inv, Execute, ~InHandler
  PROVE  Sequential!Next
<1>1. PICK s : Good(s)
  BY DEF Inv
<1>2. Live
  BY DEF Execute, EndOfProgram, cmd_end, EvaluationFails, cmd_let, cmd_print, cmd_on,
         cmd_for, cmd_next, cmd_goto, cmd_if, cmd_gosub, cmd_return, AtLine, Inv, Types, Live
<1>3. CASE Live'
  <2>1. ~InHandler'
    <3>1. CASE Plainly
      <4>1. open' = open
        BY <3>1 DEF Plainly, EndOfProgram, cmd_end, EvaluationFails, cmd_let, cmd_print, cmd_on,
                    cmd_for, cmd_next, cmd_goto, cmd_if, Stopped, Executed, hist
      <4>2. QED BY <4>1 DEF InHandler
    <3>2. CASE cmd_gosub
      <4>1. gotoln(line.n) # -1
        BY <1>3, <3>2 DEF cmd_gosub, Live
      <4>2. open' = Append(open, "sub") /\ open \in Opened
        BY <1>1, <3>2, <4>1, GosubFacts DEF Inv, Types
      <4>3. QED BY <4>2, EventsOpen DEF InHandler, HasEvent
    <3>3. CASE cmd_return
      <4>1. gosub # << >>
        BY <1>3, <3>3 DEF cmd_return, Live
      <4>2. HasEvent(open') => HasEvent(open)
        BY <1>1, <3>3, <4>1, ReturnFacts
      <4>3. QED BY <4>2 DEF InHandler, HasEvent
    <3>4. QED BY <3>1, <3>2, <3>3 DEF Execute, Plainly
  <2>2. ~EndOfProgram /\ ~cmd_end /\ ~EvaluationFails
    BY <1>3 DEF EndOfProgram, cmd_end, EvaluationFails, Stopped, Live
  <2>3. QED BY <1>2, <1>3, <2>1, <2>2, MainPlain, MainLet, MainFor, MainNext, MainJump, MainCall,
               MainReturn DEF Execute, Sequential!Next
<1>4. CASE ~Live'
  <2>1. program' = program /\ UNCHANGED <<open, main, loops, val>>
    BY <1>2, <1>4 DEF Execute, EndOfProgram, cmd_end, EvaluationFails, cmd_let, cmd_print, cmd_on,
                cmd_for, cmd_next, cmd_goto, cmd_if, cmd_gosub, cmd_return, Stopped, Executed,
                hist, stacks, Live
  <2>2. SeenLoops' = SeenLoops /\ SeenVals' = SeenVals
    BY <2>1, SeenKept
  <2>3. Sequential!Stop
    BY <1>2, <1>4, <2>1, <2>2, SeenStops
  <2>4. QED BY <2>3 DEF Sequential!Next
<1>5. QED BY <1>3, <1>4

LEMMA StepSeen ==
  ASSUME Inv, [Next]_vars
  PROVE  Sequential!Next \/ UNCHANGED Seen
<1>1. CASE RuntimeError \/ UserBreak \/ NoEvent \/ UNCHANGED vars
  <2>1. program' = program /\ UNCHANGED <<nxtline, gosub, open, main, loops, val, BasicErr>>
    BY <1>1 DEF RuntimeError, UserBreak, NoEvent, Stopped, vars, hist, stacks
  <2>2. /\ SeenAt' = SeenAt /\ SeenCalls' = SeenCalls
        /\ SeenLoops' = SeenLoops /\ SeenVals' = SeenVals
    BY <2>1, SeenKept
  <2>3. CASE Live' <=> Live
    BY <2>1, <2>2, <2>3, SeenSame
  <2>4. CASE ~ (Live' <=> Live)
    <3>1. Live /\ ~Live'
      BY <1>1, <2>1, <2>4 DEF RuntimeError, UserBreak, NoEvent, Stopped, vars, Live
    <3>2. QED BY <2>1, <2>2, <3>1, SeenStops DEF Sequential!Next
  <2>5. QED BY <2>3, <2>4
<1>2. CASE KeyEvent \/ TimerEvent
  BY <1>2, SeenTrigger DEF KeyEvent, TimerEvent, Sequential!Next
<1>3. CASE Execute /\ InHandler
  BY <1>3, SeenHandler DEF Sequential!Next
<1>4. CASE Execute /\ ~InHandler
  BY <1>4, SeenProgram
<1>5. QED BY <1>1, <1>2, <1>3, <1>4 DEF Next, Turn

\* Key and timer handlers are transparent: every run of a program with a shape is, seen
\* from the main program, a run of that program alone.  A handler, also one that comes
\* between the lines of another, gives back the place, the calls, the loops and the
\* variables as it found them (basic.c 920-976, commands.c 640-683).
THEOREM HandlersAreTransparent ==
  ASSUME Structured
  PROVE  Spec => ImplementsProgram
<1>1. Init => Inv /\ Sequential!Init
  BY InitInv, InitSeen
<1>2. Inv /\ [Next]_vars => Inv'
  BY StepInv
<1>3. Inv /\ [Next]_vars => [Sequential!Next]_Seen
  BY StepSeen
<1>4. QED BY <1>1, <1>2, <1>3, PTL
          DEF Spec, ImplementsProgram, Sequential!Spec, Seen, SeenAt, SeenCalls, SeenLoops,
              SeenVals
=============================================================================
