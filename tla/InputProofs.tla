---------------------------- MODULE InputProofs ----------------------------
(* What is on the keyboard: the ray caster's camera, and the line editor.    *)
(* For every map, every table of sines and every speed of at most a cell a   *)
(* frame: the camera stays where one can walk to from the start, key states  *)
(* go wrong in one way only and, where a cell is fine enough, a ray ends at  *)
(* the near face of a wall.  For every size of the screen, every layout of   *)
(* the keyboard and every history: the screen shows the line that is edited, *)
(* with one cursor behind it, and the editor is the abstract one.            *)
EXTENDS Ray, Keyboard, SequenceTheorems, WellFoundedInduction, TLAPS

(* A sine, in fixed point, is between -1 and 1, for every angle.             *)
LEMMA SinBound ==
    ASSUME NEW degrees \in Int
    PROVE  FpSin(degrees) \in -FP_ONE .. FP_ONE
<1> DEFINE d == degrees % FULL
<1>1. FULL \in Nat \ {0} /\ FULL = 4 * Quarter /\ Quarter \in Nat \ {0}
  BY RayAssumption DEF FULL
<1>2. d \in 0 .. FULL - 1
  BY <1>1
<1>3. \A k \in 0 .. Quarter : SinTable[k] \in 0 .. FP_ONE
  BY RayAssumption
<1>4. FP_ONE \in Nat
  BY RayAssumption
<1> HIDE DEF d
<1>5. CASE d <= Quarter
  <2>1. SinTable[d] \in 0 .. FP_ONE
    BY <1>1, <1>2, <1>3, <1>5
  <2> QED
    BY <2>1, <1>4, <1>5 DEF FpSin, d
<1>6. CASE ~(d <= Quarter) /\ d <= 2 * Quarter
  <2>1. SinTable[2 * Quarter - d] \in 0 .. FP_ONE
    BY <1>1, <1>2, <1>3, <1>6
  <2> QED
    BY <2>1, <1>4, <1>6 DEF FpSin, d
<1>7. CASE ~(d <= 2 * Quarter) /\ d <= 3 * Quarter
  <2>1. SinTable[d - 2 * Quarter] \in 0 .. FP_ONE
    BY <1>1, <1>2, <1>3, <1>7
  <2>2. ~(d <= Quarter)
    BY <1>1, <1>2, <1>7
  <2> QED
    BY <2>1, <2>2, <1>4, <1>7 DEF FpSin, d
<1>8. CASE ~(d <= 3 * Quarter)
  <2>1. SinTable[FULL - d] \in 0 .. FP_ONE
    BY <1>1, <1>2, <1>3, <1>8
  <2>2. ~(d <= Quarter) /\ ~(d <= 2 * Quarter)
    BY <1>1, <1>2, <1>8
  <2> QED
    BY <2>1, <2>2, <1>4, <1>8 DEF FpSin, d
<1> QED
  BY <1>1, <1>2, <1>5, <1>6, <1>7, <1>8

(* Dividing by a positive number, as the processor's shift does.             *)
LEMMA Floor ==
    ASSUME NEW a \in Int, NEW n \in Nat \ {0}
    PROVE  /\ a \div n \in Int
           /\ n * (a \div n) <= a
           /\ a < n * (a \div n) + n
OBVIOUS

(* A product of two numbers between -1 and 1, and 0 and 1.                   *)
LEMMA ProductBound ==
    ASSUME NEW s \in -FP_ONE .. FP_ONE
    PROVE  FP_MUL(s, MOVE_SPEED) \in -FP_ONE .. FP_ONE
<1>1. FP_ONE \in Nat \ {0} /\ MOVE_SPEED \in 0 .. FP_ONE
  BY RayAssumption
<1>2. s * MOVE_SPEED \in Int
  BY <1>1
<1>3. s * MOVE_SPEED <= FP_ONE * FP_ONE /\ -(FP_ONE * FP_ONE) <= s * MOVE_SPEED
  BY <1>1
<1> DEFINE q == (s * MOVE_SPEED) \div FP_ONE
<1>4. q \in Int /\ FP_ONE * q <= s * MOVE_SPEED /\ s * MOVE_SPEED < FP_ONE * q + FP_ONE
  BY <1>1, <1>2, Floor
<1> HIDE DEF q
<1>5. FP_ONE * q <= FP_ONE * FP_ONE
  BY <1>1, <1>3, <1>4
<1>6. q <= FP_ONE
  BY <1>1, <1>4, <1>5
<1>7. -(FP_ONE * FP_ONE) - FP_ONE < FP_ONE * q
  BY <1>1, <1>3, <1>4
<1>8. -FP_ONE <= q
  BY <1>1, <1>4, <1>7
<1> QED
  BY <1>1, <1>4, <1>6, <1>8 DEF FP_MUL, q

(* A step of at most a cell ends in the same cell or in the next one.        *)
LEMMA NextCell ==
    ASSUME NEW p \in Int, NEW d \in -FP_ONE .. FP_ONE
    PROVE  /\ FP2INT(p) \in Int /\ FP2INT(p + d) \in Int
           /\ FP2INT(p + d) - FP2INT(p) \in -1 .. 1
           /\ FP2INT(p) - FP2INT(p + d) \in -1 .. 1
<1>1. FP_ONE \in Nat \ {0}
  BY RayAssumption
<1> DEFINE a == p \div FP_ONE
           b == (p + d) \div FP_ONE
<1>2. a \in Int /\ FP_ONE * a <= p /\ p < FP_ONE * a + FP_ONE
  BY <1>1, Floor
<1>3. b \in Int /\ FP_ONE * b <= p + d /\ p + d < FP_ONE * b + FP_ONE
  BY <1>1, Floor
<1> HIDE DEF a, b
<1>4. FP_ONE * b < FP_ONE * (a + 2) /\ FP_ONE * a < FP_ONE * (b + 2)
  BY <1>1, <1>2, <1>3
<1>5. b < a + 2 /\ a < b + 2
  BY <1>1, <1>2, <1>3, <1>4
<1> QED
  BY <1>2, <1>3, <1>5 DEF FP2INT, a, b

(* A cell that is not solid and shares a side with one that can be reached   *)
(* can be reached itself.                                                    *)
LEMMA ReachOpen ==
    ASSUME NEW c \in Reach, NEW x \in Int, NEW y \in Int,
           ~MapSolid(x, y), Touches(c, <<x, y>>)
    PROVE  <<x, y>> \in Reach
<1>1. MAP_W \in Nat /\ MAP_H \in Nat
  BY RayAssumption
<1>2. <<x, y>> \in Open
  BY <1>1 DEF MapSolid, Open
<1>3. ASSUME NEW S \in Rooms
      PROVE  <<x, y>> \in S
  <2>1. c \in S
    BY DEF Reach
  <2> QED
    BY <1>2, <2>1 DEF Rooms
<1> QED
  BY <1>2, <1>3 DEF Reach

Positions == [x : Int, y : Int, angle : 0 .. FULL - 1]

(* A step in both directions, each where it is free, stays where one can     *)
(* walk: x first, then y from the new x, so that no corner is cut.           *)
LEMMA MovedStays ==
    ASSUME NEW c \in Positions, CellOf(c) \in Reach,
           NEW dx \in -FP_ONE .. FP_ONE, NEW dy \in -FP_ONE .. FP_ONE
    PROVE  Moved(c, dx, dy) \in Positions /\ CellOf(Moved(c, dx, dy)) \in Reach
<1>1. FP_ONE \in Nat \ {0} /\ dx \in Int /\ dy \in Int /\ c.x \in Int /\ c.y \in Int
  BY RayAssumption DEF Positions
<1> DEFINE nx == c.x + dx
           ny == c.y + dy
           e == [c EXCEPT !.x = IF MapSolid(FP2INT(nx), FP2INT(c.y)) THEN @ ELSE nx]
<1>2. e \in Positions /\ e.y = c.y
  BY <1>1 DEF Positions
<1>3. e.x = IF MapSolid(FP2INT(nx), FP2INT(c.y)) THEN c.x ELSE nx
  BY DEF Positions
<1>4. CellOf(e) \in Reach
  <2>1. CASE MapSolid(FP2INT(nx), FP2INT(c.y))
    BY <1>2, <1>3, <2>1 DEF CellOf
  <2>2. CASE ~MapSolid(FP2INT(nx), FP2INT(c.y))
    <3>1. /\ FP2INT(nx) \in Int /\ FP2INT(c.y) \in Int
          /\ FP2INT(c.x) - FP2INT(nx) \in -1 .. 1
      <4>1. FP2INT(nx) \in Int /\ FP2INT(c.x) - FP2INT(nx) \in -1 .. 1
        BY <1>1, NextCell
      <4>2. FP2INT(c.y) \in Int
        BY <1>1 DEF FP2INT
      <4> QED
        BY <4>1, <4>2
    <3>2. Touches(CellOf(c), <<FP2INT(nx), FP2INT(c.y)>>)
      BY <3>1 DEF Touches, CellOf
    <3>3. <<FP2INT(nx), FP2INT(c.y)>> \in Reach
      BY <2>2, <3>1, <3>2, ReachOpen
    <3> QED
      BY <1>2, <1>3, <2>2, <3>3 DEF CellOf
  <2> QED
    BY <2>1, <2>2
<1> DEFINE f == [e EXCEPT !.y = IF MapSolid(FP2INT(e.x), FP2INT(ny)) THEN @ ELSE ny]
<1>5. e.x \in Int /\ e.y \in Int /\ ny = e.y + dy
  BY <1>2 DEF Positions
<1>6. f \in Positions /\ f.x = e.x
  <2>1. ny \in Int
    BY <1>1
  <2> HIDE DEF ny, e
  <2> QED
    BY <1>2, <2>1 DEF Positions
<1>7. f.y = IF MapSolid(FP2INT(e.x), FP2INT(ny)) THEN e.y ELSE ny
  BY <1>2 DEF Positions
<1>8. Moved(c, dx, dy) = f
  BY DEF Moved
<1> HIDE DEF nx, e, f
<1>9. CellOf(f) \in Reach
  <2>1. CASE MapSolid(FP2INT(e.x), FP2INT(ny))
    BY <1>4, <1>6, <1>7, <2>1 DEF CellOf
  <2>2. CASE ~MapSolid(FP2INT(e.x), FP2INT(ny))
    <3>1. /\ FP2INT(ny) \in Int /\ FP2INT(e.x) \in Int
          /\ FP2INT(e.y) - FP2INT(ny) \in -1 .. 1
      <4>1. FP2INT(ny) \in Int /\ FP2INT(e.y) - FP2INT(ny) \in -1 .. 1
        BY <1>1, <1>5, NextCell
      <4>2. FP2INT(e.x) \in Int
        BY <1>1, <1>5 DEF FP2INT
      <4> QED
        BY <4>1, <4>2
    <3>2. Touches(CellOf(e), <<FP2INT(e.x), FP2INT(ny)>>)
      BY <3>1 DEF Touches, CellOf
    <3>3. <<FP2INT(e.x), FP2INT(ny)>> \in Reach
      BY <1>4, <2>2, <3>1, <3>2, ReachOpen
    <3> QED
      BY <1>6, <1>7, <2>2, <3>3 DEF CellOf
  <2> QED
    BY <2>1, <2>2
<1> QED
  BY <1>6, <1>8, <1>9

(* Both ways, and turning on the spot.                                       *)
LEMMA StepStays ==
    ASSUME NEW c \in Positions, CellOf(c) \in Reach
    PROVE  /\ Forward(c) \in Positions /\ CellOf(Forward(c)) \in Reach
           /\ Back(c) \in Positions /\ CellOf(Back(c)) \in Reach
<1>1. c.angle \in Int /\ c.angle + Quarter \in Int /\ FP_ONE \in Nat
  BY RayAssumption DEF Positions
<1>2. StepX(c) \in -FP_ONE .. FP_ONE /\ StepY(c) \in -FP_ONE .. FP_ONE
  BY <1>1, SinBound, ProductBound DEF StepX, StepY, FpCos
<1>3. -StepX(c) \in -FP_ONE .. FP_ONE /\ -StepY(c) \in -FP_ONE .. FP_ONE
  BY <1>1, <1>2
<1> QED
  BY <1>2, <1>3, MovedStays DEF Forward, Back

\* Turning moves the camera nowhere.
LEMMA TurnedStays ==
    ASSUME NEW c \in Positions, CellOf(c) \in Reach, NEW by \in Int
    PROVE  Turned(c, by) \in Positions /\ CellOf(Turned(c, by)) \in Reach
<1>1. FULL \in Nat \ {0}
  BY RayAssumption DEF FULL
<1>2. (c.angle + by) % FULL \in 0 .. FULL - 1
  BY <1>1 DEF Positions
<1> QED
  BY <1>2 DEF Turned, Positions, CellOf

-----------------------------------------------------------------------------

IInv == TypeOK /\ StaysInRoom

(* The types, and where the camera is, are preserved by every step: only a   *)
(* frame moves the camera, and only the end of the queue changes otherwise.  *)
THEOREM RayInvariant == Spec => []IInv
<1>1. Init => IInv
  <2> SUFFICES ASSUME Init PROVE IInv
    OBVIOUS
  <2>1. FP_ONE \in Nat \ {0} /\ FULL \in Nat \ {0} /\ <<StartX, StartY>> \in Open
    BY RayAssumption DEF FULL
  <2>2. StartX \in Int /\ StartY \in Int
    BY <2>1, RayAssumption DEF Open
  <2>3. TypeOK
    <3>1. cam \in Positions
      BY <2>1, <2>2 DEF Init, Camera, INT2FP, Positions
    <3>2. queue \in Seq(0 .. 255) /\ Len(queue) <= QueueMax
      BY KeysAssumption DEF Init
    <3> QED
      BY <3>1, <3>2 DEF Init, TypeOK, Positions
  <2>4. FP2INT(INT2FP(StartX)) = StartX /\ FP2INT(INT2FP(StartY)) = StartY
    BY <2>1, <2>2 DEF FP2INT, INT2FP
  <2>5. CellOf(cam) = <<StartX, StartY>>
    BY <2>4 DEF Init, CellOf, Camera
  <2> QED
    BY <2>1, <2>3, <2>5 DEF IInv, StaysInRoom, Reach, Rooms
<1>2. IInv /\ [Next]_vars => IInv'
  <2> SUFFICES ASSUME IInv, [Next]_vars PROVE IInv'
    OBVIOUS
  <2> USE DEF IInv
  <2>1. ASSUME NEW k \in Keys, Press(k) PROVE IInv'
    <3>1. Make(k) \in 0 .. 255
      BY KeysAssumption DEF Make
    <3> QED
      BY <2>1, <3>1, KeysAssumption DEF Press, Deliver, TypeOK, StaysInRoom, CellOf
  <2>2. ASSUME NEW k \in Keys, Release(k) PROVE IInv'
    <3>1. Break(k) \in 0 .. 255
      BY KeysAssumption DEF Break
    <3> QED
      BY <2>2, <3>1, KeysAssumption DEF Release, Deliver, TypeOK, StaysInRoom, CellOf
  <2>3. CASE ShellReads
    BY <2>3, KeysAssumption DEF ShellReads, TypeOK, StaysInRoom, CellOf
  <2>4. CASE Start
    <3>1. FP_ONE \in Nat \ {0} /\ FULL \in Nat \ {0} /\ <<StartX, StartY>> \in Open
      BY RayAssumption DEF FULL
    <3>2. StartX \in Int /\ StartY \in Int
      BY <3>1, RayAssumption DEF Open
    <3>3. FP2INT(INT2FP(StartX)) = StartX /\ FP2INT(INT2FP(StartY)) = StartY
      BY <3>1, <3>2 DEF FP2INT, INT2FP
    <3>4. TypeOK'
      BY <2>4, <3>1, <3>2 DEF Start, TypeOK, Camera, INT2FP
    <3>5. CellOf(cam)' = <<StartX, StartY>>
      BY <2>4, <3>3 DEF Start, CellOf, Camera
    <3> QED
      BY <3>1, <3>4, <3>5 DEF StaysInRoom, Reach, Rooms
  <2>5. ASSUME Update PROVE /\ key_state' \subseteq Keys
                           /\ queue' \in Seq(0 .. 255) /\ Len(queue') <= QueueMax
    BY <2>5, KeysAssumption DEF Update
  <2>6. CASE Leave
    BY <2>5, <2>6 DEF Leave, TypeOK, StaysInRoom, CellOf
  <2>7. CASE Frame
    <3>1. cam \in Positions /\ CellOf(cam) \in Reach
      BY DEF TypeOK, Positions, StaysInRoom
    <3> DEFINE a == IF UP \in key_state' THEN Forward(cam) ELSE cam
               b == IF DOWN \in key_state' THEN Back(a) ELSE a
               c == IF LEFT \in key_state' THEN Turned(b, -TURN_SPEED) ELSE b
               d == IF RIGHT \in key_state' THEN Turned(c, TURN_SPEED) ELSE c
    <3>2. a \in Positions /\ CellOf(a) \in Reach
      BY <3>1, StepStays
    <3> HIDE DEF a
    <3>3. b \in Positions /\ CellOf(b) \in Reach
      BY <3>2, StepStays
    <3> HIDE DEF b
    <3>4. -TURN_SPEED \in Int /\ TURN_SPEED \in Int
      BY RayAssumption
    <3>5. c \in Positions /\ CellOf(c) \in Reach
      BY <3>3, <3>4, TurnedStays
    <3> HIDE DEF c
    <3>6. d \in Positions /\ CellOf(d) \in Reach
      BY <3>4, <3>5, TurnedStays
    <3>7. cam' = d
      BY <2>7 DEF Frame, a, b, c
    <3> HIDE DEF d
    <3>8. playing' \in BOOLEAN /\ down' \subseteq Keys /\ Update
      BY <2>7 DEF Frame, TypeOK
    <3> QED
      BY <2>5, <3>6, <3>7, <3>8 DEF TypeOK, Positions, StaysInRoom, CellOf
  <2>8. CASE UNCHANGED vars
    BY <2>8 DEF vars, TypeOK, StaysInRoom, CellOf
  <2> QED
    BY <2>1, <2>2, <2>3, <2>4, <2>6, <2>7, <2>8 DEF Next
<1> QED
  BY <1>1, <1>2, PTL DEF Spec

(* On every map the camera of the game stays where one can walk to.          *)
THEOREM RayStaysInRoom == Spec => []StaysInRoom
<1>1. IInv => StaysInRoom
  BY DEF IInv
<1> QED
  BY <1>1, RayInvariant, PTL

\* The camera keeps its ranges on every map, whatever keys are held: its angle
\* stays within a turn.
THEOREM RayTypeCorrect == Spec => []TypeOK
<1>1. IInv => TypeOK
  BY DEF IInv
<1> QED
  BY <1>1, RayInvariant, PTL

(* One more code decides the state of its own key and leaves the others be.  *)
LEMMA AppendHeld ==
    ASSUME NEW codes \in Seq(0 .. 255), NEW code \in 0 .. 255, NEW k \in 0 .. 127, NEW held
    PROVE  /\ code \in {Make(k), Break(k)}
                 => (Held(k, held, Append(codes, code)) <=> code = Make(k))
           /\ code \notin {Make(k), Break(k)}
                 => (Held(k, held, Append(codes, code)) <=> Held(k, held, codes))
<1> DEFINE more == Append(codes, code)
           n == Len(codes) + 1
<1>1. /\ Len(codes) \in Nat
      /\ DOMAIN codes = 1 .. Len(codes)
      /\ DOMAIN more = 1 .. n
      /\ more[n] = code
      /\ \A i \in 1 .. Len(codes) : more[i] = codes[i]
  OBVIOUS
<1> HIDE DEF more
<1>2. ASSUME code \in {Make(k), Break(k)}
      PROVE  Held(k, held, more) <=> code = Make(k)
  <2>1. n \in CodesOf(k, more)
    BY <1>1, <1>2 DEF CodesOf
  <2>2. \A i \in CodesOf(k, more) : i \in 1 .. n
    BY <1>1 DEF CodesOf
  <2>3. \A i \in CodesOf(k, more) : (\A j \in CodesOf(k, more) : j <= i) => i = n
    BY <1>1, <2>1, <2>2
  <2>4. \A j \in CodesOf(k, more) : j <= n
    BY <1>1, <2>2
  <2> QED
    BY <1>1, <2>1, <2>3, <2>4 DEF Held
<1>3. ASSUME code \notin {Make(k), Break(k)}
      PROVE  Held(k, held, more) <=> Held(k, held, codes)
  <2>1. n \notin CodesOf(k, more)
    BY <1>1, <1>3 DEF CodesOf
  <2>2. \A i : i \in CodesOf(k, more) <=> i \in CodesOf(k, codes)
    BY <1>1, <2>1 DEF CodesOf
  <2>3. CodesOf(k, more) = CodesOf(k, codes)
    BY <2>2
  <2>4. \A i \in CodesOf(k, codes) : more[i] = codes[i]
    BY <1>1 DEF CodesOf
  <2> QED
    BY <2>3, <2>4 DEF Held
<1> QED
  BY <1>2, <1>3 DEF more

\* Codes tell keys apart, and a press from a release.
LEMMA CodesTell ==
    ASSUME NEW k \in Keys
    PROVE  /\ k \in 0 .. 127 /\ Make(k) \in 0 .. 255 /\ Break(k) \in 0 .. 255
           /\ Make(k) # Break(k)
           /\ \A j \in Keys : j # k => /\ Make(k) \notin {Make(j), Break(j)}
                                     /\ Break(k) \notin {Make(j), Break(j)}
<1>1. \A j \in Keys : j \in 0 .. 127 /\ Make(j) = j /\ Break(j) = j + 128
  BY KeysAssumption DEF Make, Break
<1>2. k \in 0 .. 127 /\ Make(k) \in 0 .. 255 /\ Break(k) \in 0 .. 255 /\ Make(k) # Break(k)
  <2>1. k \in 0 .. 127 /\ Make(k) = k /\ Break(k) = k + 128
    BY <1>1
  <2> QED
    BY <2>1
<1>3. ASSUME NEW j \in Keys, j # k
      PROVE  Make(k) \notin {Make(j), Break(j)} /\ Break(k) \notin {Make(j), Break(j)}
  <2>1. /\ k \in 0 .. 127 /\ Make(k) = k /\ Break(k) = k + 128
        /\ j \in 0 .. 127 /\ Make(j) = j /\ Break(j) = j + 128
    BY <1>1
  <2> QED
    BY <1>3, <2>1
<1> QED
  BY <1>2, <1>3

(* A key is stale when its state and the keyboard differ.                    *)
LEMMA StaleIs ==
    ASSUME NEW k \in Keys, NEW held, NEW codes, NEW pressed
    PROVE  (Held(k, held, codes) # (k \in pressed))
               <=> ~(Held(k, held, codes) <=> k \in pressed)
<1>1. CASE CodesOf(k, codes) = {}
  BY <1>1 DEF Held
<1>2. CASE CodesOf(k, codes) # {}
  <2> DEFINE pressedLast == \E i \in CodesOf(k, codes) :
                codes[i] = Make(k) /\ \A j \in CodesOf(k, codes) : j <= i
  <2>1. Held(k, held, codes) = pressedLast
    BY <1>2, Zenon DEF Held
  <2>2. pressedLast \in BOOLEAN
    BY Zenon
  <2> HIDE DEF pressedLast
  <2> QED
    BY <2>1, <2>2
<1> QED
  BY <1>1, <1>2

\* Taking the first code away leaves the state of every other key.
LEMMA TailHeld ==
    ASSUME NEW k \in 0 .. 127, NEW held, NEW codes \in Seq(0 .. 255), codes # <<>>,
           Head(codes) \notin {Make(k), Break(k)}
    PROVE  Held(k, held, Tail(codes)) <=> Held(k, held, codes)
<1> DEFINE rest == Tail(codes)
           A == CodesOf(k, codes)
           B == CodesOf(k, rest)
<1>1. /\ Len(codes) \in Nat /\ Len(rest) = Len(codes) - 1
      /\ DOMAIN codes = 1 .. Len(codes) /\ DOMAIN rest = 1 .. Len(rest)
      /\ \A i \in 1 .. Len(rest) : rest[i] = codes[i + 1]
      /\ Head(codes) = codes[1]
    OBVIOUS
<1> HIDE DEF rest
<1>2. 1 \notin A /\ A \subseteq 1 .. Len(codes) /\ B \subseteq 1 .. Len(rest)
    BY <1>1 DEF CodesOf
<1>3. \A i \in 1 .. Len(rest) : i \in B <=> i + 1 \in A
    BY <1>1 DEF CodesOf
<1>4. \A i \in A : i - 1 \in B /\ codes[i] = rest[i - 1]
    BY <1>1, <1>2, <1>3
<1>5. \A i \in B : i + 1 \in A /\ codes[i + 1] = rest[i]
    BY <1>1, <1>2, <1>3
<1>6. A \subseteq Nat /\ B \subseteq Nat
    BY <1>1, <1>2
<1> HIDE DEF A, B
<1>7. A = {} <=> B = {}
    BY <1>4, <1>5
<1>8. (\E i \in A : codes[i] = Make(k) /\ \A j \in A : j <= i)
        <=> (\E i \in B : rest[i] = Make(k) /\ \A j \in B : j <= i)
  <2>1. ASSUME NEW i \in A, codes[i] = Make(k), \A j \in A : j <= i
        PROVE  \E h \in B : rest[h] = Make(k) /\ \A j \in B : j <= h
    <3>1. i - 1 \in B /\ rest[i - 1] = Make(k)
      BY <1>4, <2>1
    <3>2. \A j \in B : j <= i - 1
      BY <1>5, <1>6, <2>1
    <3>3. QED
      BY <3>1, <3>2
  <2>2. ASSUME NEW i \in B, rest[i] = Make(k), \A j \in B : j <= i
        PROVE  \E h \in A : codes[h] = Make(k) /\ \A j \in A : j <= h
    <3>1. i + 1 \in A /\ codes[i + 1] = Make(k)
      BY <1>5, <2>2
    <3>2. \A j \in A : j <= i + 1
      BY <1>4, <1>6, <2>2
    <3>3. QED
      BY <3>1, <3>2
  <2>3. QED
    BY <2>1, <2>2
<1>9. QED
    BY <1>7, <1>8 DEF Held, A, B, rest

\* The key states agree with the keyboard after the next update, except for a
\* key of which the shell read a code and one whose code found the controller
\* full.
THEOREM RayOnlyLostCodesMakeStale == Spec => OnlyLostCodesMakeStale
<1>1. IInv /\ [Next]_vars => [\A k \in Stale' \ Stale : TakenByShell(k) \/ Overrun(k)]_vars
  <2> SUFFICES ASSUME IInv, Next, NEW x \in Keys, x \in Stale', x \notin Stale
               PROVE  TakenByShell(x) \/ Overrun(x)
    BY DEF vars, Stale
  <2>1. queue \in Seq(0 .. 255) /\ QueueMax \in Nat /\ Len(queue) \in Nat
    BY KeysAssumption DEF IInv, TypeOK
  <2>2. /\ Held(x, key_state, queue) <=> x \in down
        /\ ~(Held(x, key_state', queue') <=> x \in down')
    BY StaleIs DEF Stale
  <2>3. x \in 0 .. 127
    BY CodesTell
  <2>4. ASSUME NEW k \in Keys, Press(k) PROVE Overrun(x)
    <3>1. key_state' = key_state /\ down' = down \cup {k}
      BY <2>4 DEF Press, Deliver
    <3>2. CASE Len(queue) < QueueMax
      <4>1. queue' = Append(queue, Make(k)) /\ Make(k) \in 0 .. 255
        BY <2>4, <3>2, CodesTell DEF Press, Deliver
      <4>2. CASE x = k
        BY <2>1, <2>2, <2>3, <3>1, <4>1, <4>2, AppendHeld
      <4>3. CASE x # k
        <5>1. Make(k) \notin {Make(x), Break(x)}
          BY <4>3, CodesTell
        <5>2. Held(x, key_state, Append(queue, Make(k))) <=> Held(x, key_state, queue)
          BY <2>1, <2>3, <4>1, <5>1, AppendHeld
        <5>3. QED
          BY <2>2, <3>1, <4>1, <4>3, <5>2
      <4>4. QED
        BY <4>2, <4>3
    <3>3. CASE Len(queue) >= QueueMax
      <4>1. queue' = queue
        BY <2>1, <2>4, <3>3 DEF Press, Deliver
      <4>2. x \in down' /\ x \notin down
        BY <2>2, <3>1, <4>1
      <4>3. QED
        BY <3>3, <4>2 DEF Overrun
    <3>4. QED
      BY <2>1, <3>2, <3>3
  <2>5. ASSUME NEW k \in Keys, Release(k) PROVE Overrun(x)
    <3>1. key_state' = key_state /\ down' = down \ {k}
      BY <2>5 DEF Release, Deliver
    <3>2. CASE Len(queue) < QueueMax
      <4>1. queue' = Append(queue, Break(k)) /\ Break(k) \in 0 .. 255
        BY <2>5, <3>2, CodesTell DEF Release, Deliver
      <4>2. CASE x = k
        <5>1. Make(x) # Break(x)
          BY CodesTell
        <5>2. ~Held(x, key_state, Append(queue, Break(x)))
          BY <2>1, <2>3, <4>1, <4>2, <5>1, AppendHeld
        <5>3. QED
          BY <2>2, <3>1, <4>1, <4>2, <5>2
      <4>3. CASE x # k
        <5>1. Break(k) \notin {Make(x), Break(x)}
          BY <4>3, CodesTell
        <5>2. Held(x, key_state, Append(queue, Break(k))) <=> Held(x, key_state, queue)
          BY <2>1, <2>3, <4>1, <5>1, AppendHeld
        <5>3. QED
          BY <2>2, <3>1, <4>1, <4>3, <5>2
      <4>4. QED
        BY <4>2, <4>3
    <3>3. CASE Len(queue) >= QueueMax
      <4>1. queue' = queue
        BY <2>1, <2>5, <3>3 DEF Release, Deliver
      <4>2. x \notin down' /\ x \in down
        BY <2>2, <3>1, <4>1
      <4>3. QED
        BY <3>3, <4>2 DEF Overrun
    <3>4. QED
      BY <2>1, <3>2, <3>3
  <2>6. ASSUME ShellReads PROVE TakenByShell(x)
    <3>1. /\ ~playing /\ queue # <<>> /\ queue' = Tail(queue)
          /\ key_state' = key_state /\ down' = down
      BY <2>6 DEF ShellReads
    <3>2. CASE Head(queue) \in {Make(x), Break(x)}
      BY <3>1, <3>2 DEF TakenByShell
    <3>3. CASE Head(queue) \notin {Make(x), Break(x)}
      BY <2>1, <2>2, <2>3, <3>1, <3>3, TailHeld
    <3>4. QED
      BY <3>2, <3>3
  <2>7. CASE Start
    BY <2>2, <2>7 DEF Start
  <2>8. ASSUME Update, down' = down PROVE FALSE
    <3>1. CodesOf(x, queue') = {}
      BY <2>8 DEF Update, CodesOf
    <3>2. Held(x, key_state', queue') <=> Held(x, key_state, queue)
      BY <2>8, <3>1 DEF Held, Update
    <3> QED
      BY <2>2, <2>8, <3>2
  <2> QED
    BY <2>4, <2>5, <2>6, <2>7, <2>8 DEF Next, Leave, Frame
<1> QED
  BY <1>1, RayInvariant, PTL DEF Spec, OnlyLostCodesMakeStale
-----------------------------------------------------------------------------
(* How far along a direction the borders are.                                *)

\* A component of a direction that counts as none.
Near(r) == r \in (-NearAxis + 1) .. (NearAxis - 1)

\* Its size.
Abs(r) == IF r > 0 THEN r ELSE -r

\* Half a cell.
Half == FP_ONE \div 2

\* A cell has many more units than the map has cells, a ray takes steps enough to
\* leave the map, and where a component counts as none the other is so large that
\* the ray leaves the map before it is Far away or has drifted by half a cell.
FineGrained ==
    LET cells == MAP_W + MAP_H
    IN  /\ cells - 1 <= MAX_STEPS
        /\ cells + 2 <= Half
        /\ \A d \in 0 .. Quarter :
              SinTable[d] < NearAxis =>
                 /\ SinTable[Quarter - d] >= NearAxis
                 /\ cells * Delta(SinTable[Quarter - d]) < INT2FP(Far)
                 /\ cells * Delta(SinTable[Quarter - d]) * NearAxis <= FP_ONE * (Half - 1)

\* Products with a natural number keep the order.
LEMMA Monotone ==
    ASSUME NEW a \in Int, NEW b \in Int, a <= b, NEW c \in Nat
    PROVE  a * c <= b * c /\ c * a <= c * b
<1>1. (b - a) * c \in Nat
  OBVIOUS
<1>2. b * c = a * c + (b - a) * c /\ c * a = a * c /\ c * b = b * c
  OBVIOUS
<1> QED
  BY <1>1, <1>2

\* Products with a positive number do not change it.
LEMMA Cancelled ==
    ASSUME NEW a \in Int, NEW b \in Int, NEW c \in Nat \ {0}
    PROVE  /\ c * a <= c * b => a <= b
           /\ c * a < c * b => a < b
<1>1. b < a => c * b < c * a
  <2> SUFFICES ASSUME b < a PROVE c * b < c * a
    OBVIOUS
  <2>1. b + 1 <= a
    OBVIOUS
  <2>2. c * (b + 1) <= c * a
    BY <2>1, Monotone
  <2>3. c * (b + 1) = c * b + c
    OBVIOUS
  <2>4. c * a \in Int /\ c * b \in Int
    OBVIOUS
  <2> QED
    BY <2>2, <2>3, <2>4
<1>2. c * a \in Int /\ c * b \in Int
  OBVIOUS
<1>3. a = b => c * a = c * b
  OBVIOUS
<1> DEFINE x == c * a   y == c * b
<1>4. x \in Int /\ y \in Int /\ (b < a => y < x) /\ (a = b => x = y)
  BY <1>1, <1>2, <1>3
<1> HIDE DEF x, y
<1>5. (x <= y => a <= b) /\ (x < y => a < b)
  BY <1>4
<1> QED
  BY <1>5 DEF x, y

\* What lies between multiples of n has its quotient between the factors.
LEMMA Scaled ==
    ASSUME NEW n \in Nat \ {0}, NEW e \in Int, NEW a \in Int, NEW b \in Int,
           n * a <= e, e <= n * b
    PROVE  e \div n \in a .. b /\ (-e) \div n \in -b .. -a
<1> DEFINE q == e \div n   r == (-e) \div n
<1>1. q \in Int /\ n * q <= e /\ e < n * q + n
  BY Floor
<1>2. r \in Int /\ n * r <= -e /\ -e < n * r + n
  BY Floor
<1> HIDE DEF q, r
<1>3. n * (q + 1) = n * q + n /\ n * (r + 1) = n * r + n /\ n * (-a) = -(n * a) /\ n * (-b) = -(n * b)
  BY <1>1, <1>2
<1>4. n * q \in Int /\ n * r \in Int /\ n * a \in Int /\ n * b \in Int
  BY <1>1, <1>2
<1>5. n * q <= n * b /\ n * a < n * (q + 1) /\ n * r <= n * (-a) /\ n * (-b) < n * (r + 1)
  <2> DEFINE u == n * q   v == n * r   x == n * a   y == n * b
  <2>1. u \in Int /\ v \in Int /\ x \in Int /\ y \in Int
    BY <1>4
  <2>2. u <= e /\ e < u + n /\ v <= -e /\ -e < v + n /\ x <= e /\ e <= y
    BY <1>1, <1>2
  <2> HIDE DEF u, v, x, y
  <2>3. u <= y /\ x < u + n /\ v <= -x /\ -y < v + n
    BY <2>1, <2>2
  <2> QED
    BY <1>3, <2>3 DEF u, v, x, y
<1>6. q <= b /\ a < q + 1 /\ r <= -a /\ -b < r + 1
  BY <1>1, <1>2, <1>5, Cancelled
<1> QED
  BY <1>1, <1>2, <1>6 DEF q, r

\* From a border to the next, and to the first, along a component s that counts.
Spaced(s, w, delta, first) ==
    /\ s \in 1 .. FP_ONE /\ w \in 0 .. FP_ONE /\ delta \in Nat /\ first \in Nat
    /\ first <= delta
    /\ delta * s <= FP_ONE * FP_ONE /\ FP_ONE * FP_ONE < delta * s + s
    /\ FP_ONE * first <= w * delta /\ w * delta < FP_ONE * first + FP_ONE

\* Along the component, the border after m more is w and m cells away, less the
\* rounding of the m + 1 distances.
LEMMA Travelled ==
    ASSUME NEW s, NEW w, NEW delta, NEW first, Spaced(s, w, delta, first), NEW m \in Nat
    PROVE  /\ (first + m * delta) * s <= FP_ONE * (w + m * FP_ONE)
           /\ FP_ONE * ((w + m * FP_ONE) - (m + 2)) <= (first + m * delta) * s
<1> DEFINE n == FP_ONE
<1>1. /\ n \in Nat \ {0} /\ s \in 1 .. n /\ w \in 0 .. n /\ delta \in Nat /\ first \in Nat
      /\ delta * s <= n * n /\ n * n < delta * s + s
      /\ n * first <= w * delta /\ w * delta < n * first + n
  BY RayAssumption DEF Spaced
<1> HIDE DEF n
<1> DEFINE ds == delta * s   nn == n * n   fs == first * s   wd == w * delta
           nf == n * first   ws == w * s   wn == w * n
<1>2. /\ ds \in Nat /\ nn \in Nat /\ fs \in Nat /\ wd \in Nat /\ nf \in Nat
      /\ ws \in Nat /\ wn \in Nat
  BY <1>1
<1>3. ws <= nn /\ n * s <= nn /\ n * s \in Nat
  <2>1. w * s <= n * s /\ s * n <= n * n
    BY <1>1, Monotone
  <2>2. n * s = s * n
    BY <1>1
  <2> QED
    BY <1>1, <1>2, <2>1, <2>2
<1>4. n * fs <= n * wn
  <2>1. nf * s <= wd * s
    BY <1>1, <1>2, Monotone
  <2>2. nf * s = n * fs /\ wd * s = w * ds
    BY <1>1
  <2>3. w * ds <= w * nn
    BY <1>1, <1>2, Monotone
  <2>4. w * nn = n * wn
    BY <1>1
  <2>5. n * fs \in Int /\ w * ds \in Int /\ n * wn \in Int
    BY <1>1, <1>2
  <2> DEFINE x == n * fs   y == w * ds   z == n * wn
  <2>6. x \in Int /\ y \in Int /\ z \in Int /\ x <= y /\ y <= z
    BY <2>1, <2>2, <2>3, <2>4, <2>5
  <2> HIDE DEF x, y, z
  <2>7. x <= z
    BY <2>6
  <2> QED
    BY <2>7 DEF x, z
<1>5. fs <= wn
  BY <1>1, <1>2, <1>4, Cancelled
<1>6. n * (wn - 2 * n) <= n * fs
  <2>1. wd <= nf + n
    BY <1>1, <1>2
  <2>2. wd * s <= (nf + n) * s
    BY <1>1, <1>2, <2>1, Monotone
  <2>3. (nf + n) * s = n * fs + n * s /\ wd * s = w * ds
    BY <1>1, <1>2
  <2>4. nn - s <= ds
    BY <1>1, <1>2
  <2>5. w * (nn - s) <= w * ds
    BY <1>1, <1>2, <2>4, Monotone
  <2>6. w * (nn - s) = n * wn - ws
    BY <1>1, <1>2
  <2>7. n * (wn - 2 * n) = n * wn - 2 * nn
    BY <1>1, <1>2
  <2> DEFINE x == n * fs   y == w * ds   z == n * wn   ns == n * s
  <2>8. /\ x \in Int /\ y \in Int /\ z \in Int /\ ns \in Nat
        /\ y <= x + ns /\ z - ws <= y /\ ws <= nn /\ ns <= nn
    BY <1>1, <1>2, <1>3, <2>2, <2>3, <2>5, <2>6
  <2> HIDE DEF x, y, z, ns, nn, ws
  <2>9. z - 2 * nn <= x
    BY <1>2, <2>8
  <2> QED
    BY <2>7, <2>9 DEF x, z
<1>7. wn - 2 * n <= fs
  BY <1>1, <1>2, <1>6, Cancelled
<1>8. m * ds <= m * nn /\ m * nn - m * n <= m * ds
  <2>1. nn - n <= ds
    BY <1>1, <1>2
  <2>2. m * ds <= m * nn /\ m * (nn - n) <= m * ds
    BY <1>1, <1>2, <2>1, Monotone
  <2>3. m * (nn - n) = m * nn - m * n
    BY <1>1, <1>2
  <2> QED
    BY <2>2, <2>3
<1>9. (first + m * delta) * s = fs + m * ds
  BY <1>1
<1>10. /\ n * (w + m * n) = wn + m * nn
       /\ n * ((w + m * n) - (m + 2)) = wn + m * nn - m * n - 2 * n
  <2>1. n * (w + m * n) = n * w + n * (m * n) /\ n * (m * n) = m * nn /\ n * w = wn
    BY <1>1
  <2>2. n * ((w + m * n) - (m + 2)) = n * (w + m * n) - n * (m + 2)
    BY <1>1
  <2>3. n * (m + 2) = m * n + 2 * n
    BY <1>1
  <2> DEFINE x == n * (w + m * n)   y == n * (m + 2)   z == m * n   u == m * nn
  <2>4. x \in Int /\ y \in Int /\ z \in Int /\ u \in Int
    BY <1>1, <1>2
  <2>5. x = wn + u /\ y = z + 2 * n
    BY <2>1, <2>3
  <2> HIDE DEF x, y, z, u, wn
  <2>6. x - y = wn + u - z - 2 * n
    BY <1>1, <1>2, <2>4, <2>5
  <2> QED
    BY <2>1, <2>2, <2>6 DEF x, y, z, u
<1> DEFINE a == m * ds   b == m * nn   c == m * n
<1>11. /\ a \in Int /\ b \in Int /\ c \in Int /\ a <= b /\ b - c <= a
  BY <1>1, <1>2, <1>8
<1> HIDE DEF a, b, c, fs, wn, ds, nn
<1>12. fs + a <= wn + b /\ wn + b - c - 2 * n <= fs + a
  BY <1>1, <1>2, <1>5, <1>7, <1>11
<1>13. (first + m * delta) * s <= n * (w + m * n) /\ n * ((w + m * n) - (m + 2)) <= (first + m * delta) * s
  BY <1>9, <1>10, <1>12 DEF a, b, c
<1> QED
  BY <1>13 DEF n
\* How far the first border is from position p, in units of the map.
Ahead(p, r) == IF r > 0 THEN INT2FP(FP2INT(p) + 1) - p ELSE p - INT2FP(FP2INT(p))

\* So are the borders along a direction that counts.
LEMMA BordersSpaced ==
    ASSUME NEW p \in Int, NEW r \in -FP_ONE .. FP_ONE, ~Near(r)
    PROVE  Spaced(Abs(r), Ahead(p, r), Delta(r), NextBorder(p, r))
<1> DEFINE n == FP_ONE   s == Abs(r)   w == Ahead(p, r)
           delta == (n * n) \div s
           first == (w * delta) \div n
<1>1. n \in Nat \ {0} /\ NearAxis \in Nat \ {0}
  BY RayAssumption
<1>2. s \in 1 .. n
  BY <1>1 DEF Near, Abs
<1>3. w \in 0 .. n
  <2> DEFINE c == p \div n
  <2>1. c \in Int /\ n * c <= p /\ p < n * c + n
    BY <1>1, Floor
  <2>2. w = IF r > 0 THEN (c + 1) * n - p ELSE p - c * n
    BY DEF Ahead, INT2FP, FP2INT
  <2> HIDE DEF c, w
  <2>3. (c + 1) * n = n * c + n /\ c * n = n * c
    BY <1>1, <2>1
  <2> DEFINE x == n * c   y == (c + 1) * n   z == c * n
  <2>4. x \in Int /\ y = x + n /\ z = x
    BY <1>1, <2>1, <2>3
  <2> HIDE DEF x, y, z
  <2>5. w = IF r > 0 THEN y - p ELSE p - z
    BY <2>2 DEF y, z
  <2>6. x <= p /\ p < x + n
    BY <2>1 DEF x
  <2> QED
    BY <1>1, <2>4, <2>5, <2>6
<1>4. Delta(r) = delta
  BY DEF Delta, Near, Abs
<1>5. NextBorder(p, r) = first
  BY <1>4 DEF NextBorder, Near, Ahead, FP_MUL
<1> HIDE DEF s, w
<1>6. n * n \in Nat
  BY <1>1
<1>7. delta \in Nat /\ s * delta <= n * n /\ n * n < s * delta + s
  <2> DEFINE nn == n * n
  <2>1. nn \in Nat /\ s \in Nat \ {0}
    BY <1>2, <1>6
  <2> HIDE DEF nn
  <2>2. nn \div s \in Nat
    BY <2>1
  <2>3. s * (nn \div s) <= nn /\ nn < s * (nn \div s) + s
    BY <2>1, Floor
  <2> QED
    BY <2>2, <2>3 DEF nn
<1> HIDE DEF delta
<1>8. delta * s = s * delta
  BY <1>2, <1>7
<1>9. first \in Nat /\ n * first <= w * delta /\ w * delta < n * first + n
  <2> DEFINE wd == w * delta
  <2>1. wd \in Nat
    BY <1>3, <1>7
  <2> HIDE DEF wd
  <2>2. wd \div n \in Nat
    BY <1>1, <2>1
  <2>3. n * (wd \div n) <= wd /\ wd < n * (wd \div n) + n
    BY <1>1, <2>1, Floor
  <2> QED
    BY <2>2, <2>3 DEF wd
<1> HIDE DEF first
<1>10. first <= delta
  <2>1. w * delta <= n * delta
    BY <1>1, <1>3, <1>7, Monotone
  <2>2. n * first \in Int /\ w * delta \in Int /\ n * delta \in Int
    BY <1>1, <1>3, <1>7, <1>9
  <2> DEFINE x == n * first   y == w * delta   z == n * delta
  <2>3. x \in Int /\ y \in Int /\ z \in Int /\ x <= y /\ y <= z
    BY <1>9, <2>1, <2>2
  <2> HIDE DEF x, y, z
  <2>4. x <= z
    BY <2>3
  <2>5. n * first <= n * delta
    BY <2>4 DEF x, z
  <2> QED
    BY <1>1, <1>7, <1>9, <2>5, Cancelled
<1>11. Spaced(s, w, delta, first)
  BY <1>2, <1>3, <1>7, <1>8, <1>9, <1>10 DEF Spaced
<1> QED
  BY <1>4, <1>5, <1>11 DEF s, w

\* The projection of a distance on an axis, either way.
LEMMA Projected ==
    ASSUME NEW r \in Int, NEW dist \in Nat, NEW a \in Int, NEW b \in Int,
           FP_ONE * a <= dist * Abs(r), dist * Abs(r) <= FP_ONE * b
    PROVE  /\ r > 0 => FP_MUL(dist, r) \in a .. b
           /\ ~(r > 0) => FP_MUL(dist, r) \in -b .. -a
<1> DEFINE e == dist * Abs(r)
<1>1. FP_ONE \in Nat \ {0}
  BY RayAssumption
<1>2. e \in Int /\ (r > 0 => dist * r = e) /\ (~(r > 0) => dist * r = -e)
  BY DEF Abs
<1> HIDE DEF e
<1>3. FP_ONE * a <= e /\ e <= FP_ONE * b
  BY DEF e
<1>4. e \div FP_ONE \in a .. b /\ (-e) \div FP_ONE \in -b .. -a
  BY <1>1, <1>2, <1>3, Scaled
<1> QED
  BY <1>2, <1>4 DEF FP_MUL

\* In units of the map, the border m after the first is ahead by Ahead and m cells.
LEMMA BorderAt ==
    ASSUME NEW p \in Int, NEW r \in Int, NEW m \in Int
    PROVE  /\ r > 0 => INT2FP(FP2INT(p) + (m + 1) * Way(r)) = p + (Ahead(p, r) + m * FP_ONE)
           /\ ~(r > 0) => INT2FP(FP2INT(p) + m * Way(r)) = p - (Ahead(p, r) + m * FP_ONE)
<1> DEFINE n == FP_ONE   c == FP2INT(p)
<1>1. n \in Nat \ {0}
  BY RayAssumption
<1>2. c \in Int
  BY <1>1 DEF FP2INT
<1> HIDE DEF c
<1>3. ASSUME r > 0 PROVE INT2FP(c + (m + 1) * Way(r)) = p + (Ahead(p, r) + m * n)
  <2>1. Ahead(p, r) = (c + 1) * n - p /\ (m + 1) * Way(r) = m + 1
    BY <1>3 DEF Ahead, Way, INT2FP, c
  <2>2. (c + (m + 1)) * n = (c + 1) * n + m * n
    BY <1>1, <1>2
  <2> DEFINE x == (c + 1) * n   y == m * n
  <2>3. x \in Int /\ y \in Int
    BY <1>1, <1>2
  <2> HIDE DEF x, y
  <2>4. x + y = p + ((x - p) + y)
    BY <2>3
  <2> QED
    BY <2>1, <2>2, <2>4 DEF INT2FP, x, y
<1>4. ASSUME ~(r > 0) PROVE INT2FP(c + m * Way(r)) = p - (Ahead(p, r) + m * n)
  <2>1. Ahead(p, r) = p - c * n /\ m * Way(r) = -m
    BY <1>4 DEF Ahead, Way, INT2FP, c
  <2>2. (c + (-m)) * n = c * n - m * n
    BY <1>1, <1>2
  <2> DEFINE x == c * n   y == m * n
  <2>3. x \in Int /\ y \in Int
    BY <1>1, <1>2
  <2> HIDE DEF x, y
  <2>4. x - y = p - ((p - x) + y)
    BY <2>3
  <2> QED
    BY <2>1, <2>2, <2>4 DEF INT2FP, x, y
<1> QED
  BY <1>3, <1>4 DEF c

\* A ray that came in along an axis is on the near face of its cell.
LEMMA MeetsFace ==
    ASSUME FineGrained, NEW p \in Int, NEW r \in -FP_ONE .. FP_ONE, ~Near(r),
           NEW k \in 1 .. MAP_W + MAP_H, NEW dist,
           dist = NextBorder(p, r) + (k - 1) * Delta(r)
    PROVE  LET m == FP2INT(p) + k * Way(r)
           IN  (p + FP_MUL(dist, r)) - INT2FP(IF r > 0 THEN m ELSE m + 1) \in -Half .. Half
<1> DEFINE s == Abs(r)   w == Ahead(p, r)   delta == Delta(r)   first == NextBorder(p, r)
           j == k - 1
           a == w + j * FP_ONE
           q == FP_MUL(dist, r)
           m == FP2INT(p) + k * Way(r)
           face == INT2FP(IF r > 0 THEN m ELSE m + 1)
<1>1. /\ FP_ONE \in Nat \ {0} /\ MAP_W \in Nat /\ MAP_H \in Nat /\ Half \in Int
      /\ MAP_W + MAP_H + 2 <= Half
  BY RayAssumption DEF FineGrained, Half
<1>2. Spaced(s, w, delta, first)
  BY BordersSpaced
<1>3. j \in Nat /\ j + 2 <= Half /\ k \in Int
  BY <1>1
<1>4. s \in Nat /\ w \in Int /\ delta \in Nat /\ first \in Nat
  BY <1>2, <1>1 DEF Spaced
<1>5. a \in Int
  BY <1>1, <1>3, <1>4
<1>6. dist \in Nat /\ dist = first + j * delta
  <2>1. j * delta \in Nat
    BY <1>3, <1>4
  <2> QED
    BY <1>4, <2>1
<1>7. dist * s <= FP_ONE * a /\ FP_ONE * (a - (j + 2)) <= dist * s
  <2> HIDE DEF s, w, delta, first, j
  <2>1. /\ (first + j * delta) * s <= FP_ONE * (w + j * FP_ONE)
        /\ FP_ONE * ((w + j * FP_ONE) - (j + 2)) <= (first + j * delta) * s
    BY <1>2, <1>3, Travelled
  <2> DEFINE y == first + j * delta
  <2>2. y = dist /\ y * s <= FP_ONE * a /\ FP_ONE * (a - (j + 2)) <= y * s
    BY <1>6, <2>1
  <2> HIDE DEF y, a
  <2> QED
    BY <2>2
<1>8. (r > 0 => q \in a - (j + 2) .. a) /\ (~(r > 0) => q \in -a .. -(a - (j + 2)))
  <2> HIDE DEF a, j
  <2>1. a - (j + 2) \in Int
    BY <1>3, <1>5
  <2> QED
    BY <1>5, <1>6, <1>7, <2>1, Projected
<1>9. face = IF r > 0 THEN p + a ELSE p - a
  <2>1. r > 0 => INT2FP(FP2INT(p) + (j + 1) * Way(r)) = p + (w + j * FP_ONE)
    BY <1>3, BorderAt
  <2>2. ~(r > 0) => INT2FP(FP2INT(p) + j * Way(r)) = p - (w + j * FP_ONE)
    BY <1>3, BorderAt
  <2>3. (j + 1) * Way(r) = k * Way(r)
    BY <1>3
  <2>4. ~(r > 0) => FP2INT(p) + j * Way(r) = m + 1
    <3>1. FP2INT(p) \in Int
      BY <1>1 DEF FP2INT
    <3> QED
      BY <1>3, <3>1 DEF Way
  <2> QED
    BY <2>1, <2>2, <2>3, <2>4
<1> HIDE DEF a, j, q, face
<1>10. (p + q) - face \in -Half .. Half
  BY <1>1, <1>3, <1>5, <1>8, <1>9
<1> QED
  BY <1>10 DEF q, face

\* Between the border crossed last and the next a ray is beside its cell.
LEMMA StaysAlong ==
    ASSUME FineGrained, NEW p \in Int, NEW r \in -FP_ONE .. FP_ONE, ~Near(r),
           NEW k \in 0 .. MAP_W + MAP_H, NEW dist \in Nat,
           dist <= NextBorder(p, r) + k * Delta(r),
           k > 0 => (NextBorder(p, r) + k * Delta(r)) - Delta(r) <= dist
    PROVE  LET m == FP2INT(p) + k * Way(r)
           IN  p + FP_MUL(dist, r) \in INT2FP(m) - Half .. INT2FP(m + 1) + Half
<1> DEFINE s == Abs(r)   w == Ahead(p, r)   delta == Delta(r)   first == NextBorder(p, r)
           a == w + k * FP_ONE
           q == FP_MUL(dist, r)
           m == FP2INT(p) + k * Way(r)
<1>1. /\ FP_ONE \in Nat \ {0} /\ MAP_W \in Nat /\ MAP_H \in Nat /\ Half \in Int
      /\ MAP_W + MAP_H + 2 <= Half
  BY RayAssumption DEF FineGrained, Half
<1>2. Spaced(s, w, delta, first)
  BY BordersSpaced
<1>3. k \in Nat /\ k + 2 <= Half
  BY <1>1
<1>4. s \in Nat /\ w \in 0 .. FP_ONE /\ delta \in Nat /\ first \in Nat
  BY <1>2, <1>1 DEF Spaced
<1>5. a \in Int
  BY <1>1, <1>3, <1>4
<1>6. dist * s <= FP_ONE * a
  <2> HIDE DEF s, w, delta, first
  <2>1. (first + k * delta) * s <= FP_ONE * (w + k * FP_ONE)
    BY <1>2, <1>3, Travelled
  <2>2. first + k * delta \in Int /\ dist <= first + k * delta
    BY <1>3, <1>4 DEF first, delta
  <2>3. dist * s <= (first + k * delta) * s
    BY <1>4, <2>2, Monotone
  <2> DEFINE x == dist * s   y == (first + k * delta) * s   z == FP_ONE * (w + k * FP_ONE)
  <2>4. x \in Int /\ y \in Int /\ z \in Int /\ x <= y /\ y <= z
    BY <1>1, <1>3, <1>4, <2>1, <2>2, <2>3
  <2> HIDE DEF x, y, z
  <2>5. x <= z
    BY <2>4
  <2> QED
    BY <2>5 DEF x, z
<1>7. FP_ONE * (a - FP_ONE - (k + 2)) <= dist * s
  <2>1. CASE k = 0
    <3>1. a - FP_ONE - (k + 2) <= 0 /\ a - FP_ONE - (k + 2) \in Int
      BY <1>1, <1>3, <1>4, <1>5, <2>1
    <3>2. FP_ONE * (a - FP_ONE - (k + 2)) <= FP_ONE * 0
      BY <1>1, <3>1, Monotone
    <3>3. dist * s \in Nat /\ FP_ONE * 0 = 0
      BY <1>1, <1>4
    <3>4. FP_ONE * (a - FP_ONE - (k + 2)) \in Int
      BY <1>1, <3>1
    <3> QED
      BY <3>2, <3>3, <3>4
  <2>2. CASE k # 0
    <3> DEFINE j == k - 1
    <3>1. j \in Nat /\ k = j + 1
      BY <1>3, <2>2
    <3>2. first + j * delta <= dist /\ first + j * delta \in Int
      <4>1. k * delta = j * delta + delta /\ j * delta \in Int
        BY <1>3, <1>4, <3>1
      <4> QED
        BY <1>3, <1>4, <2>2, <4>1
    <3> HIDE DEF s, w, delta, first, j
    <3>3. FP_ONE * ((w + j * FP_ONE) - (j + 2)) <= (first + j * delta) * s
      BY <1>2, <3>1, Travelled
    <3>4. (first + j * delta) * s <= dist * s
      BY <1>4, <3>2, Monotone
    <3>5. (w + k * FP_ONE) - FP_ONE - (k + 2) <= (w + j * FP_ONE) - (j + 2)
          /\ (w + k * FP_ONE) - FP_ONE - (k + 2) \in Int /\ (w + j * FP_ONE) - (j + 2) \in Int
      <4>1. k * FP_ONE = j * FP_ONE + FP_ONE /\ j * FP_ONE \in Int
        BY <1>1, <3>1
      <4> QED
        BY <1>1, <1>3, <1>4, <3>1, <4>1
    <3>6. FP_ONE * ((w + k * FP_ONE) - FP_ONE - (k + 2)) <= FP_ONE * ((w + j * FP_ONE) - (j + 2))
      BY <1>1, <3>5, Monotone
    <3> DEFINE u == FP_ONE * ((w + k * FP_ONE) - FP_ONE - (k + 2))
               v == FP_ONE * ((w + j * FP_ONE) - (j + 2))
               x == (first + j * delta) * s
               y == dist * s
    <3>7. u \in Int /\ v \in Int /\ x \in Int /\ y \in Int
      BY <1>1, <1>4, <3>2, <3>5
    <3>8. u <= v /\ v <= x /\ x <= y
      BY <3>3, <3>4, <3>6
    <3> HIDE DEF u, v, x, y
    <3>9. u <= y
      BY <3>7, <3>8
    <3> QED
      BY <3>9 DEF u, y
  <2> QED
    BY <2>1, <2>2
<1>8. /\ r > 0 => q \in a - FP_ONE - (k + 2) .. a
      /\ ~(r > 0) => q \in -a .. -(a - FP_ONE - (k + 2))
  <2> HIDE DEF a
  <2>1. a - FP_ONE - (k + 2) \in Int
    BY <1>1, <1>3, <1>5
  <2> QED
    BY <1>5, <1>6, <1>7, <2>1, Projected
<1>9. FP2INT(p) \in Int /\ m \in Int
  <2>1. FP2INT(p) \in Int
    BY <1>1 DEF FP2INT
  <2> QED
    BY <1>3, <2>1 DEF Way
<1>10. INT2FP(m + 1) = INT2FP(m) + FP_ONE /\ INT2FP(m) \in Int
  BY <1>1, <1>9 DEF INT2FP
<1>11. /\ r > 0 => INT2FP(m + 1) = p + a
       /\ ~(r > 0) => INT2FP(m) = p - a
  <2>1. r > 0 => INT2FP(FP2INT(p) + (k + 1) * Way(r)) = p + (w + k * FP_ONE)
    BY <1>3, BorderAt
  <2>2. ~(r > 0) => INT2FP(FP2INT(p) + k * Way(r)) = p - (w + k * FP_ONE)
    BY <1>3, BorderAt
  <2>3. r > 0 => FP2INT(p) + (k + 1) * Way(r) = m + 1
    BY <1>3, <1>9 DEF Way
  <2> QED
    BY <2>1, <2>2, <2>3
<1> HIDE DEF a, q, m
<1> DEFINE low == INT2FP(m)   high == INT2FP(m + 1)
<1>12. high = low + FP_ONE /\ low \in Int /\ (r > 0 => high = p + a) /\ (~(r > 0) => low = p - a)
  BY <1>10, <1>11
<1> HIDE DEF low, high
<1>13. p + q \in low - Half .. high + Half
  BY <1>1, <1>3, <1>5, <1>8, <1>12
<1> QED
  BY <1>13 DEF q, m, low, high

\* Along an axis that does not count a ray hardly moves.
LEMMA Drifts ==
    ASSUME FineGrained, NEW p \in Int, NEW r \in Int, Near(r), NEW dist \in Nat,
           dist * NearAxis <= FP_ONE * (Half - 1)
    PROVE  p + FP_MUL(dist, r) \in INT2FP(FP2INT(p)) - Half .. INT2FP(FP2INT(p) + 1) + Half
<1> DEFINE n == FP_ONE   c == p \div n   s == Abs(r)   q == FP_MUL(dist, r)
<1>1. n \in Nat \ {0} /\ NearAxis \in Nat \ {0} /\ Half \in Int
  BY RayAssumption DEF Half
<1>2. s \in Nat /\ s <= NearAxis
  BY <1>1 DEF Near, Abs
<1> HIDE DEF s
<1>3. dist * s <= dist * NearAxis /\ dist * s \in Nat /\ dist * NearAxis \in Nat
      /\ n * (Half - 1) \in Int
  BY <1>1, <1>2, Monotone
<1>4. n * 0 <= dist * s /\ dist * s <= n * (Half - 1)
  <2> DEFINE x == dist * s   y == dist * NearAxis   z == n * (Half - 1)
  <2>1. x \in Nat /\ y \in Nat /\ z \in Int /\ x <= y /\ y <= z
    BY <1>3
  <2> HIDE DEF x, y, z
  <2>2. x <= z
    BY <2>1
  <2> QED
    BY <1>1, <1>3, <2>2 DEF x, z
<1>5. (r > 0 => q \in 0 .. Half - 1) /\ (~(r > 0) => q \in -(Half - 1) .. -0)
  <2>1. 0 \in Int /\ Half - 1 \in Int
    BY <1>1
  <2>2. FP_ONE * 0 <= dist * Abs(r) /\ dist * Abs(r) <= FP_ONE * (Half - 1)
    BY <1>4 DEF s
  <2> HIDE DEF q
  <2>3. (r > 0 => FP_MUL(dist, r) \in 0 .. Half - 1)
        /\ (~(r > 0) => FP_MUL(dist, r) \in -(Half - 1) .. -0)
    BY <2>1, <2>2, Projected
  <2> QED
    BY <2>3 DEF q
<1>6. c \in Int /\ n * c <= p /\ p < n * c + n
  BY <1>1, Floor
<1>7. INT2FP(FP2INT(p)) = n * c /\ INT2FP(FP2INT(p) + 1) = n * c + n
  <2>1. INT2FP(FP2INT(p)) = c * n /\ INT2FP(FP2INT(p) + 1) = (c + 1) * n
    BY DEF INT2FP, FP2INT
  <2> HIDE DEF c
  <2>2. c * n = n * c /\ (c + 1) * n = n * c + n
    BY <1>1, <1>6
  <2> QED
    BY <2>1, <2>2
<1> HIDE DEF c, q
<1> DEFINE x == n * c
<1>8. x \in Int /\ x <= p /\ p < x + n
  BY <1>1, <1>6
<1> HIDE DEF x
<1>9. p + q \in x - Half .. (x + n) + Half
  BY <1>1, <1>5, <1>8
<1> QED
  BY <1>7, <1>9 DEF q, x

\* Along an axis that counts the borders in the map are not far.
LEMMA NotFar ==
    ASSUME NEW p \in Int, NEW r \in -FP_ONE .. FP_ONE, ~Near(r), NEW k \in Nat, NEW n \in Nat, k < n
    PROVE  NextBorder(p, r) + k * Delta(r) <= n * Delta(r)
<1> DEFINE delta == Delta(r)   first == NextBorder(p, r)
<1>1. delta \in Nat /\ first \in Nat /\ first <= delta
  BY BordersSpaced DEF Spaced
<1> HIDE DEF delta, first
<1>2. (k + 1) * delta <= n * delta
  BY <1>1, Monotone
<1>3. (k + 1) * delta = k * delta + delta /\ k * delta \in Int /\ n * delta \in Int
  BY <1>1
<1>4. first + k * delta <= n * delta
  BY <1>1, <1>2, <1>3
<1> QED
  BY <1>4 DEF delta, first
-----------------------------------------------------------------------------
(* The two components of a direction.                                        *)

\* The remainder is the only one there is.
LEMMA DivisionIs ==
    ASSUME NEW n \in Nat \ {0}, NEW k \in Int, NEW r \in 0 .. n - 1, NEW x, x = n * k + r
    PROVE  x % n = r
<1> DEFINE j == x \div n   s == x % n
<1>1. x \in Int
  BY DEF j
<1>2. j \in Int /\ s \in 0 .. n - 1 /\ x = n * j + s
  BY <1>1
<1> HIDE DEF j, s
<1>3. n * (k - j) = s - r
  <2>1. n * (k - j) = n * k - n * j /\ n * k \in Int /\ n * j \in Int
    BY <1>2
  <2> DEFINE y == n * k   z == n * j
  <2> HIDE DEF y, z
  <2> QED
    BY <1>2, <2>1 DEF y, z
<1>4. n * (k - j) < n * 1 /\ n * (-1) < n * (k - j)
  BY <1>2, <1>3
<1>5. k - j < 1 /\ -1 < k - j
  BY <1>2, <1>4, Cancelled
<1>6. k - j = 0
  BY <1>2, <1>5
<1> QED
  BY <1>2, <1>3, <1>6 DEF s

\* They are the sines of two angles that make a right angle, up to the sign.
LEMMA Complement ==
    ASSUME NEW a \in Int
    PROVE  \E d \in 0 .. Quarter :
              /\ FpSin(a) \in {SinTable[d], -SinTable[d]}
              /\ FpCos(a) \in {SinTable[Quarter - d], -SinTable[Quarter - d]}
<1> DEFINE q == Quarter
           b == a % (4 * q)
           c == (a + q) % (4 * q)
<1>1. q \in Nat \ {0}
  BY RayAssumption
<1>2. b \in 0 .. 4 * q - 1 /\ c = IF b < 3 * q THEN b + q ELSE b - 3 * q
  <2> DEFINE n == 4 * q   k == a \div n
  <2>1. n \in Nat \ {0} /\ k \in Int /\ b \in 0 .. n - 1 /\ a = n * k + b
    <3>1. n \in Nat \ {0}
      BY <1>1
    <3> HIDE DEF n
    <3>2. a \div n \in Int /\ a % n \in 0 .. n - 1 /\ a = n * (a \div n) + (a % n)
      BY <3>1
    <3> QED
      BY <3>1, <3>2 DEF n
  <2>2. (a + q) % n = IF b < 3 * q THEN b + q ELSE b - 3 * q
    <3> HIDE DEF k, b
    <3>1. CASE b < 3 * q
      <4>1. a + q = n * k + (b + q) /\ b + q \in 0 .. n - 1
        BY <1>1, <2>1, <3>1
      <4> HIDE DEF n
      <4>2. (a + q) % n = b + q
        BY <1>1, <2>1, <4>1, DivisionIs
      <4> QED
        BY <3>1, <4>2
    <3>2. CASE ~(b < 3 * q)
      <4>1. n * (k + 1) = n * k + n
        BY <2>1
      <4>2. a + q = n * (k + 1) + (b - 3 * q) /\ b - 3 * q \in 0 .. n - 1
        BY <1>1, <2>1, <3>2, <4>1
      <4> HIDE DEF n
      <4>3. (a + q) % n = b - 3 * q
        BY <1>1, <2>1, <4>2, DivisionIs
      <4> QED
        BY <3>2, <4>3
    <3> QED
      BY <3>1, <3>2
  <2> QED
    BY <2>1, <2>2
<1>3. FpSin(a) = IF b <= q THEN SinTable[b]
                 ELSE IF b <= 2 * q THEN SinTable[2 * q - b]
                 ELSE IF b <= 3 * q THEN -SinTable[b - 2 * q]
                 ELSE -SinTable[4 * q - b]
  BY DEF FpSin, FULL
<1>4. FpCos(a) = IF c <= q THEN SinTable[c]
                 ELSE IF c <= 2 * q THEN SinTable[2 * q - c]
                 ELSE IF c <= 3 * q THEN -SinTable[c - 2 * q]
                 ELSE -SinTable[4 * q - c]
  BY DEF FpSin, FpCos, FULL
<1> HIDE DEF b, c
<1>5. CASE b <= q
  <2>1. b \in 0 .. q /\ c = b + q /\ 2 * q - c = q - b
    BY <1>1, <1>2, <1>5
  <2>2. FpSin(a) = SinTable[b]
    BY <1>3, <1>5
  <2>3. FpCos(a) = SinTable[q - b]
    <3>1. c <= q => c = q - b
      BY <1>1, <2>1
    <3>2. c <= 2 * q
      BY <1>1, <2>1
    <3> QED
      BY <1>4, <2>1, <3>1, <3>2
  <2> QED
    BY <2>1, <2>2, <2>3
<1>6. CASE ~(b <= q) /\ b <= 2 * q
  <2> DEFINE d == 2 * q - b
  <2>1. d \in 0 .. q /\ c = b + q /\ c - 2 * q = q - d /\ ~(c <= 2 * q) /\ ~(c <= q) /\ c <= 3 * q
    BY <1>1, <1>2, <1>6
  <2>2. FpSin(a) = SinTable[d] /\ FpCos(a) = -SinTable[q - d]
    BY <1>3, <1>4, <1>6, <2>1
  <2> QED
    BY <2>1, <2>2
<1>7. CASE ~(b <= 2 * q) /\ b <= 3 * q
  <2> DEFINE d == b - 2 * q
  <2>1. d \in 0 .. q /\ ~(b <= q)
    BY <1>1, <1>2, <1>7
  <2>2. FpSin(a) = -SinTable[d]
    BY <1>3, <1>7, <2>1
  <2>3. FpCos(a) \in {SinTable[q - d], -SinTable[q - d]}
    <3>1. CASE b < 3 * q
      <4>1. ~(c <= 2 * q) /\ ~(c <= q) /\ (~(c <= 3 * q) \/ c = 3 * q)
        BY <1>1, <1>2, <1>7, <3>1
      <4>2. c # 3 * q /\ 4 * q - c = q - d
        BY <1>1, <1>2, <1>7, <3>1
      <4> QED
        BY <1>4, <4>1, <4>2
    <3>2. CASE b = 3 * q
      <4>1. c = 0 /\ q - d = 0 /\ 0 <= q
        BY <1>1, <1>2, <3>2
      <4> QED
        BY <1>4, <4>1
    <3> QED
      BY <1>1, <1>2, <1>7, <3>1, <3>2
  <2> QED
    BY <2>1, <2>2, <2>3
<1>8. CASE ~(b <= 3 * q)
  <2> DEFINE d == 4 * q - b
  <2>1. d \in 0 .. q /\ ~(b <= q) /\ ~(b <= 2 * q) /\ c = q - d /\ c <= q
    BY <1>1, <1>2, <1>8
  <2>2. FpSin(a) = -SinTable[d] /\ FpCos(a) = SinTable[q - d]
    BY <1>3, <1>4, <1>8, <2>1
  <2> QED
    BY <2>1, <2>2
<1> QED
  BY <1>1, <1>2, <1>5, <1>6, <1>7, <1>8

\* Of a direction with components r and t: where t counts as none, r takes the ray
\* out of the map before it is Far away or has drifted.
Reaching(r, t) ==
    Near(t) =>
        /\ ~Near(r)
        /\ (MAP_W + MAP_H) * Delta(r) < INT2FP(Far)
        /\ (MAP_W + MAP_H) * Delta(r) * NearAxis <= FP_ONE * (Half - 1)

\* Both ways: of the two components at most one counts as none.
LEMMA Reaches ==
    ASSUME FineGrained, NEW a \in Int
    PROVE  Reaching(FpCos(a), FpSin(a)) /\ Reaching(FpSin(a), FpCos(a))
<1>1. /\ Quarter \in Nat /\ NearAxis \in Nat \ {0} /\ FP_ONE \in Nat
      /\ \A d \in 0 .. Quarter : SinTable[d] \in 0 .. FP_ONE
  BY RayAssumption
<1>2. PICK d \in 0 .. Quarter :
              /\ FpSin(a) \in {SinTable[d], -SinTable[d]}
              /\ FpCos(a) \in {SinTable[Quarter - d], -SinTable[Quarter - d]}
  BY Complement
<1>3. ASSUME NEW e \in 0 .. Quarter,
             NEW t \in {SinTable[e], -SinTable[e]},
             NEW r \in {SinTable[Quarter - e], -SinTable[Quarter - e]},
             Near(t)
      PROVE  /\ ~Near(r)
             /\ (MAP_W + MAP_H) * Delta(r) < INT2FP(Far)
             /\ (MAP_W + MAP_H) * Delta(r) * NearAxis <= FP_ONE * (Half - 1)
  <2> DEFINE u == SinTable[e]   v == SinTable[Quarter - e]
  <2>1. u \in Nat /\ v \in Nat /\ Quarter - e \in 0 .. Quarter
    <3>1. Quarter - e \in 0 .. Quarter
      BY <1>1
    <3> QED
      BY <1>1, <3>1
  <2> HIDE DEF u, v
  <2>2. u < NearAxis
    BY <1>1, <1>3, <2>1 DEF Near, u
  <2>3. /\ v >= NearAxis
        /\ (MAP_W + MAP_H) * Delta(v) < INT2FP(Far)
        /\ (MAP_W + MAP_H) * Delta(v) * NearAxis <= FP_ONE * (Half - 1)
    BY <2>2 DEF FineGrained, u, v
  <2>4. r \in {v, -v}
    BY DEF v
  <2>5. ~Near(r)
    BY <1>1, <2>1, <2>3, <2>4 DEF Near
  <2>6. Delta(r) = Delta(v)
    BY <1>1, <2>1, <2>3, <2>4 DEF Delta
  <2> QED
    BY <2>3, <2>5, <2>6
<1>4. Reaching(FpCos(a), FpSin(a))
  BY <1>2, <1>3 DEF Reaching
<1>5. Reaching(FpSin(a), FpCos(a))
  <2>1. Quarter - d \in 0 .. Quarter /\ Quarter - (Quarter - d) = d
    BY <1>1
  <2>2. FpSin(a) \in {SinTable[Quarter - (Quarter - d)], -SinTable[Quarter - (Quarter - d)]}
    BY <1>2, <2>1
  <2> QED
    BY <1>2, <1>3, <2>1, <2>2 DEF Reaching
<1> QED
  BY <1>4, <1>5
-----------------------------------------------------------------------------
(* Where a ray is after some steps, one axis at a time.                      *)

\* After i borders of an axis, at position p of it: the cell, the next border, and
\* that the distance so far is between the last border and the next.
Along(p, r, i, cell, next, dist) ==
    /\ cell = FP2INT(p) + i * Way(r)
    /\ next = NextBorder(p, r) + i * Delta(r)
    /\ dist <= next
    /\ i > 0 => next - Delta(r) <= dist

\* The numbers of an axis, whether it counts or not.
LEMMA AxisNumbers ==
    ASSUME NEW p \in Int, NEW r \in -FP_ONE .. FP_ONE
    PROVE  /\ Delta(r) \in Nat /\ NextBorder(p, r) \in Nat
           /\ Near(r) => Delta(r) = INT2FP(Far) /\ NextBorder(p, r) = INT2FP(Far)
<1>1. Near(r) => Delta(r) = INT2FP(Far) /\ NextBorder(p, r) = INT2FP(Far)
  BY DEF Near, Delta, NextBorder
<1>2. INT2FP(Far) \in Nat
  BY RayAssumption DEF INT2FP
<1>3. ~Near(r) => Delta(r) \in Nat /\ NextBorder(p, r) \in Nat
  BY BordersSpaced DEF Spaced
<1> QED
  BY <1>1, <1>2, <1>3

\* The distance of a border of an axis that counts is less than the whole map.
LEMMA CrossesCounting ==
    ASSUME FineGrained, NEW p \in Int, NEW q \in Int,
           NEW r \in -FP_ONE .. FP_ONE, NEW t \in -FP_ONE .. FP_ONE,
           Reaching(r, t), Reaching(t, r),
           NEW i \in 1 .. MAP_W + MAP_H, NEW j \in 0 .. MAP_W + MAP_H - 1,
           NEW dist \in Nat, dist = NextBorder(p, r) + (i - 1) * Delta(r),
           dist <= NextBorder(q, t) + j * Delta(t)
    PROVE  ~Near(r) /\ dist <= (MAP_W + MAP_H) * Delta(r)
<1> DEFINE cells == MAP_W + MAP_H
<1>1. cells \in Nat /\ i - 1 \in Nat /\ i - 1 < cells /\ j \in Nat /\ j < cells
      /\ FP_ONE \in Nat
  BY RayAssumption
<1>2. ~Near(r)
  <2> SUFFICES ASSUME Near(r) PROVE FALSE
    OBVIOUS
  <2>1. ~Near(t) /\ cells * Delta(t) < INT2FP(Far)
    BY DEF Reaching
  <2> HIDE DEF cells
  <2>2. NextBorder(q, t) + j * Delta(t) <= cells * Delta(t)
    BY <1>1, <2>1, NotFar
  <2>3. NextBorder(p, r) = INT2FP(Far) /\ Delta(r) \in Nat /\ INT2FP(Far) \in Nat
    BY AxisNumbers
  <2>4. (i - 1) * Delta(r) \in Nat
    BY <1>1, <2>3
  <2>5. NextBorder(q, t) + j * Delta(t) \in Int /\ cells * Delta(t) \in Int
    <3>1. Delta(t) \in Nat /\ NextBorder(q, t) \in Nat
      BY AxisNumbers
    <3>2. j * Delta(t) \in Nat /\ cells * Delta(t) \in Nat
      BY <1>1, <3>1
    <3> QED
      BY <3>1, <3>2
  <2> DEFINE x == (i - 1) * Delta(r)   y == NextBorder(q, t) + j * Delta(t)   z == cells * Delta(t)
             far == INT2FP(Far)
  <2>6. /\ x \in Nat /\ y \in Int /\ z \in Int /\ far \in Nat
        /\ dist = far + x /\ dist <= y /\ y <= z /\ z < far
    BY <2>1, <2>2, <2>3, <2>4, <2>5
  <2> HIDE DEF x, y, z, far
  <2> QED
    BY <2>6
<1>3. dist <= cells * Delta(r)
  <2> HIDE DEF cells
  <2> QED
    BY <1>1, <1>2, NotFar
<1> QED
  BY <1>2, <1>3

\* A ray that crossed a border of one axis last is on the near face of its cell,
\* and between the sides of the cell along the other.
LEMMA MeetsCell ==
    ASSUME FineGrained, NEW p \in Int, NEW q \in Int,
           NEW r \in -FP_ONE .. FP_ONE, NEW t \in -FP_ONE .. FP_ONE,
           Reaching(r, t), Reaching(t, r),
           NEW i \in 1 .. MAP_W + MAP_H, NEW j \in 0 .. MAP_W + MAP_H - 1,
           NEW u, NEW v, NEW nextU, NEW nextV, NEW dist \in Nat,
           Along(p, r, i, u, nextU, dist), dist = nextU - Delta(r),
           Along(q, t, j, v, nextV, dist)
    PROVE  /\ (p + FP_MUL(dist, r)) - INT2FP(IF r > 0 THEN u ELSE u + 1) \in -Half .. Half
           /\ q + FP_MUL(dist, t) \in INT2FP(v) - Half .. INT2FP(v + 1) + Half
<1> DEFINE cells == MAP_W + MAP_H
<1>1. cells \in Nat /\ i \in Nat /\ j \in Nat /\ i - 1 \in Nat /\ j \in 0 .. cells
      /\ FP_ONE \in Nat /\ NearAxis \in Nat
  <2>1. MAP_W \in Nat /\ MAP_H \in Nat /\ FP_ONE \in Nat /\ NearAxis \in Nat
    BY RayAssumption
  <2> QED
    BY <2>1
<1>2. /\ Delta(r) \in Nat /\ NextBorder(p, r) \in Nat
      /\ Delta(t) \in Nat /\ NextBorder(q, t) \in Nat
  BY AxisNumbers
<1>3. dist = NextBorder(p, r) + (i - 1) * Delta(r) /\ u = FP2INT(p) + i * Way(r)
  <2>1. nextU = NextBorder(p, r) + i * Delta(r) /\ u = FP2INT(p) + i * Way(r)
    BY DEF Along
  <2>2. i * Delta(r) = (i - 1) * Delta(r) + Delta(r) /\ (i - 1) * Delta(r) \in Int
    BY <1>1, <1>2
  <2> QED
    BY <1>2, <2>1, <2>2
<1>4. /\ v = FP2INT(q) + j * Way(t)
      /\ dist <= NextBorder(q, t) + j * Delta(t)
      /\ j > 0 => (NextBorder(q, t) + j * Delta(t)) - Delta(t) <= dist
  BY DEF Along
<1>5. ~Near(r) /\ dist <= cells * Delta(r)
  BY <1>3, <1>4, CrossesCounting
<1>6. (p + FP_MUL(dist, r)) - INT2FP(IF r > 0 THEN u ELSE u + 1) \in -Half .. Half
  BY <1>3, <1>5, MeetsFace
<1>7. q + FP_MUL(dist, t) \in INT2FP(v) - Half .. INT2FP(v + 1) + Half
  <2>1. CASE ~Near(t)
    <3> HIDE DEF cells
    <3> QED
      BY <1>1, <1>4, <2>1, StaysAlong DEF cells
  <2>2. CASE Near(t)
    <3>1. cells * Delta(r) < INT2FP(Far) /\ cells * Delta(r) * NearAxis <= FP_ONE * (Half - 1)
      BY <2>2 DEF Reaching
    <3>2. Delta(t) = INT2FP(Far) /\ NextBorder(q, t) = INT2FP(Far) /\ INT2FP(Far) \in Nat
      BY <1>2, <2>2, AxisNumbers
    <3> HIDE DEF cells
    <3>3. cells * Delta(r) \in Int
      BY <1>1, <1>2
    <3>4. j = 0
      <4> SUFFICES ASSUME j > 0 PROVE FALSE
        BY <1>1
      <4> DEFINE far == INT2FP(Far)   x == cells * Delta(r)   y == (j - 1) * far
      <4>1. far \in Nat /\ x \in Int /\ j * far = y + far /\ y \in Nat
        BY <1>1, <3>2, <3>3
      <4>2. (far + j * far) - far <= dist
        BY <1>4, <3>2
      <4>3. dist <= x /\ x < far
        BY <1>5, <3>1
      <4> HIDE DEF far, x, y
      <4> QED
        BY <4>1, <4>2, <4>3
    <3>5. v = FP2INT(q)
      <4>1. FP2INT(q) \in Int
        BY RayAssumption DEF FP2INT
      <4> QED
        BY <1>4, <3>4, <4>1 DEF Way
    <3>6. dist * NearAxis <= FP_ONE * (Half - 1)
      <4>1. dist * NearAxis <= cells * Delta(r) * NearAxis
        BY <1>1, <1>5, <3>3, Monotone
      <4> DEFINE x == dist * NearAxis   y == cells * Delta(r) * NearAxis   z == FP_ONE * (Half - 1)
      <4>2. x \in Int /\ y \in Int /\ z \in Int
        <5>1. Half \in Int
          BY RayAssumption DEF Half
        <5>2. x \in Int
          BY <1>1
        <5>3. y \in Int
          BY <1>1, <3>3
        <5>4. z \in Int
          BY <1>1, <5>1
        <5> QED
          BY <5>2, <5>3, <5>4
      <4>3. x <= y /\ y <= z
        BY <3>1, <4>1
      <4> HIDE DEF x, y, z
      <4>4. x <= z
        BY <4>2, <4>3
      <4> QED
        BY <4>4 DEF x, z
    <3>7. q + FP_MUL(dist, t) \in INT2FP(FP2INT(q)) - Half .. INT2FP(FP2INT(q) + 1) + Half
      <4>1. t \in Int
        BY <1>1
      <4> QED
        BY <2>2, <3>6, <4>1, Drifts
    <3> QED
      BY <3>5, <3>7
  <2> QED
    BY <2>1, <2>2
<1> QED
  BY <1>6, <1>7
-----------------------------------------------------------------------------
(* The walk of a ray.                                                        *)

Positioned(s) ==
    s \in [mx : Int, my : Int, dist : Nat, alongX : BOOLEAN, tx : Nat, ty : Nat, hit : BOOLEAN]

\* Where a ray is after i borders along x and j along y.
WalkAt(s, p, q, rx, ry, i, j) ==
    /\ Positioned(s)
    /\ i \in Nat /\ j \in Nat
    /\ Along(p, rx, i, s.mx, s.tx, s.dist)
    /\ Along(q, ry, j, s.my, s.ty, s.dist)
    /\ s.hit = MapSolid(s.mx, s.my)

\* It is in the open, within the map, or in the first solid cell on its way.
Walked(s, p, q, rx, ry, n) ==
    \E i, j \in Nat :
        /\ WalkAt(s, p, q, rx, ry, i, j)
        /\ ~s.hit => n = i + j
        /\ s.hit => /\ i + j < MAP_W + MAP_H
                    /\ IF s.alongX THEN i > 0 /\ s.dist = s.tx - Delta(rx)
                                   ELSE j > 0 /\ s.dist = s.ty - Delta(ry)

\* A cell that is not solid is on the map.
LEMMA OpenOnMap ==
    ASSUME NEW p \in Int, NEW q \in Int, ~MapSolid(FP2INT(p), FP2INT(q)),
           NEW rx, NEW ry, NEW i \in Nat, NEW j \in Nat,
           ~MapSolid(FP2INT(p) + i * Way(rx), FP2INT(q) + j * Way(ry))
    PROVE  i < MAP_W /\ j < MAP_H
<1> DEFINE a == FP2INT(p)   b == FP2INT(q)
<1>1. a \in Int /\ b \in Int /\ MAP_W \in Nat /\ MAP_H \in Nat
  <2>1. FP_ONE \in Nat \ {0} /\ MAP_W \in Nat /\ MAP_H \in Nat
    BY RayAssumption
  <2> QED
    BY <2>1 DEF FP2INT
<1> HIDE DEF a, b
<1>2. 0 <= a /\ a < MAP_W /\ 0 <= b /\ b < MAP_H
  BY <1>1 DEF MapSolid, a, b
<1>3. i * Way(rx) \in {i, -i} /\ j * Way(ry) \in {j, -j}
  BY DEF Way
<1>4. /\ 0 <= a + i * Way(rx) /\ a + i * Way(rx) < MAP_W
      /\ 0 <= b + j * Way(ry) /\ b + j * Way(ry) < MAP_H
  <2> DEFINE x == a + i * Way(rx)   y == b + j * Way(ry)
  <2>1. x \in Int /\ y \in Int /\ ~MapSolid(x, y)
    BY <1>1, <1>3 DEF a, b
  <2> HIDE DEF x, y
  <2>2. 0 <= x /\ x < MAP_W /\ 0 <= y /\ y < MAP_H
    BY <1>1, <2>1 DEF MapSolid
  <2> QED
    BY <2>2 DEF x, y
<1> QED
  BY <1>1, <1>2, <1>3, <1>4

\* The borders of an axis of which one more was crossed.
LEMMA AlongCrossed ==
    ASSUME NEW p \in Int, NEW r \in -FP_ONE .. FP_ONE, NEW i \in Nat,
           NEW cell \in Int, NEW next \in Nat, NEW dist \in Nat,
           Along(p, r, i, cell, next, dist)
    PROVE  Along(p, r, i + 1, cell + Way(r), next + Delta(r), next)
<1> DEFINE delta == Delta(r)   first == NextBorder(p, r)   w == Way(r)   c == FP2INT(p)
<1>1. delta \in Nat /\ first \in Nat /\ w \in Int /\ c \in Int
  <2>1. FP_ONE \in Nat \ {0}
    BY RayAssumption
  <2>2. w \in Int /\ c \in Int
    BY <2>1 DEF Way, FP2INT
  <2> QED
    BY <2>2, AxisNumbers
<1> HIDE DEF delta, first, w, c
<1>2. cell = c + i * w /\ next = first + i * delta
  BY DEF Along, delta, first, w, c
<1>3. (i + 1) * w = i * w + w /\ (i + 1) * delta = i * delta + delta
      /\ i * w \in Int /\ i * delta \in Nat
  BY <1>1
<1>4. cell + w = c + (i + 1) * w /\ next + delta = first + (i + 1) * delta
  BY <1>1, <1>2, <1>3
<1>5. next <= next + delta /\ (next + delta) - delta <= next
  BY <1>1
<1> QED
  BY <1>4, <1>5 DEF Along, delta, first, w, c

\* Of one of which none was, as far as the next.
LEMMA AlongBefore ==
    ASSUME NEW p \in Int, NEW r \in -FP_ONE .. FP_ONE, NEW i \in Nat,
           NEW cell \in Int, NEW next \in Nat, NEW dist \in Nat,
           Along(p, r, i, cell, next, dist),
           NEW d \in Nat, dist <= d, d <= next
    PROVE  Along(p, r, i, cell, next, d)
<1>1. Delta(r) \in Nat
  BY AxisNumbers
<1>2. i > 0 => next - Delta(r) <= dist
  BY DEF Along
<1>3. i > 0 => next - Delta(r) <= d
  BY <1>1, <1>2
<1> QED
  BY <1>3 DEF Along

\* Noting whether its cell is solid moves nothing.
LEMMA HitNoted ==
    ASSUME NEW f, Positioned(f), NEW h \in BOOLEAN
    PROVE  /\ Positioned([f EXCEPT !.hit = h])
           /\ [f EXCEPT !.hit = h].hit = h /\ [f EXCEPT !.hit = h].alongX = f.alongX
           /\ [f EXCEPT !.hit = h].mx = f.mx /\ [f EXCEPT !.hit = h].my = f.my
           /\ [f EXCEPT !.hit = h].tx = f.tx /\ [f EXCEPT !.hit = h].ty = f.ty
           /\ [f EXCEPT !.hit = h].dist = f.dist
BY DEF Positioned

\* One more border.
LEMMA CrossedWalks ==
    ASSUME NEW p \in Int, NEW q \in Int, ~MapSolid(FP2INT(p), FP2INT(q)),
           NEW rx \in -FP_ONE .. FP_ONE, NEW ry \in -FP_ONE .. FP_ONE,
           NEW n \in Nat, NEW s, Walked(s, p, q, rx, ry, n), ~s.hit
    PROVE  Walked(Crossed(s, rx, ry), p, q, rx, ry, n + 1)
<1>1. PICK i \in Nat, j \in Nat : WalkAt(s, p, q, rx, ry, i, j) /\ n = i + j
  BY DEF Walked
<1>2. /\ Positioned(s)
      /\ Along(p, rx, i, s.mx, s.tx, s.dist)
      /\ Along(q, ry, j, s.my, s.ty, s.dist)
      /\ ~MapSolid(s.mx, s.my)
  BY <1>1 DEF WalkAt
<1>3. /\ s.mx \in Int /\ s.my \in Int /\ s.dist \in Nat /\ s.tx \in Nat /\ s.ty \in Nat
      /\ s.dist <= s.tx /\ s.dist <= s.ty
  BY <1>2 DEF Positioned, Along
<1>4. i < MAP_W /\ j < MAP_H /\ MAP_W \in Nat /\ MAP_H \in Nat
  <2>1. s.mx = FP2INT(p) + i * Way(rx) /\ s.my = FP2INT(q) + j * Way(ry)
    BY <1>2 DEF Along
  <2>2. ~MapSolid(FP2INT(p) + i * Way(rx), FP2INT(q) + j * Way(ry))
    BY <1>2, <2>1
  <2> QED
    BY <2>2, OpenOnMap, RayAssumption
<1>5. Delta(rx) \in Nat /\ Delta(ry) \in Nat /\ Way(rx) \in Int /\ Way(ry) \in Int
  BY AxisNumbers DEF Way
<1> DEFINE e == Crossed(s, rx, ry)
<1>6. CASE s.tx < s.ty
  <2> DEFINE f == [s EXCEPT !.dist = s.tx, !.tx = @ + Delta(rx), !.mx = @ + Way(rx), !.alongX = TRUE]
  <2>1. /\ Positioned(f)
        /\ f.dist = s.tx /\ f.tx = s.tx + Delta(rx) /\ f.mx = s.mx + Way(rx) /\ f.alongX = TRUE
        /\ f.my = s.my /\ f.ty = s.ty
    <3> DEFINE a == s.tx + Delta(rx)   b == s.mx + Way(rx)   d == s.tx
    <3>1. a \in Nat /\ b \in Int /\ d \in Nat
      BY <1>3, <1>5
    <3>2. f = [s EXCEPT !.dist = d, !.tx = a, !.mx = b, !.alongX = TRUE]
      BY <1>2 DEF Positioned
    <3> HIDE DEF a, b, d, f
    <3>3. /\ Positioned(f)
          /\ f.dist = d /\ f.tx = a /\ f.mx = b /\ f.alongX = TRUE
          /\ f.my = s.my /\ f.ty = s.ty
      BY <1>2, <3>1, <3>2 DEF Positioned
    <3> QED
      BY <3>3 DEF a, b, d
  <2>2. e = [f EXCEPT !.hit = MapSolid(f.mx, f.my)]
    BY <1>6 DEF Crossed
  <2> HIDE DEF e, f
  <2>3. /\ Positioned(e) /\ e.hit = MapSolid(e.mx, e.my)
        /\ e.dist = s.tx /\ e.tx = s.tx + Delta(rx) /\ e.mx = s.mx + Way(rx) /\ e.alongX = TRUE
        /\ e.my = s.my /\ e.ty = s.ty
    <3> DEFINE h == MapSolid(f.mx, f.my)
    <3>1. h \in BOOLEAN
      BY DEF MapSolid
    <3>2. e = [f EXCEPT !.hit = h] /\ Positioned(f)
      BY <2>1, <2>2
    <3> HIDE DEF h
    <3>3. /\ Positioned(e) /\ e.hit = h /\ e.alongX = f.alongX
          /\ e.mx = f.mx /\ e.my = f.my /\ e.tx = f.tx /\ e.ty = f.ty /\ e.dist = f.dist
      BY <3>1, <3>2, HitNoted
    <3> QED
      BY <2>1, <3>3 DEF h
  <2>4. Along(p, rx, i + 1, e.mx, e.tx, e.dist)
    <3>1. Along(p, rx, i + 1, s.mx + Way(rx), s.tx + Delta(rx), s.tx)
      BY <1>2, <1>3, AlongCrossed
    <3> QED
      BY <2>3, <3>1
  <2>5. Along(q, ry, j, e.my, e.ty, e.dist)
    <3>1. s.tx <= s.ty
      BY <1>3, <1>6
    <3>2. Along(q, ry, j, s.my, s.ty, s.tx)
      BY <1>2, <1>3, <3>1, AlongBefore
    <3> QED
      BY <2>3, <3>2
  <2>6. WalkAt(e, p, q, rx, ry, i + 1, j)
    BY <2>3, <2>4, <2>5 DEF WalkAt
  <2>7. n + 1 = (i + 1) + j /\ (i + 1) + j < MAP_W + MAP_H /\ i + 1 > 0
    BY <1>1, <1>4
  <2>8. e.dist = e.tx - Delta(rx)
    BY <1>3, <1>5, <2>3
  <2>9. i + 1 \in Nat
    OBVIOUS
  <2> QED
    BY <2>3, <2>6, <2>7, <2>8, <2>9 DEF Walked, e
<1>7. CASE ~(s.tx < s.ty)
  <2> DEFINE f == [s EXCEPT !.dist = s.ty, !.ty = @ + Delta(ry), !.my = @ + Way(ry), !.alongX = FALSE]
  <2>1. /\ Positioned(f)
        /\ f.dist = s.ty /\ f.ty = s.ty + Delta(ry) /\ f.my = s.my + Way(ry) /\ f.alongX = FALSE
        /\ f.mx = s.mx /\ f.tx = s.tx
    <3> DEFINE a == s.ty + Delta(ry)   b == s.my + Way(ry)   d == s.ty
    <3>1. a \in Nat /\ b \in Int /\ d \in Nat
      BY <1>3, <1>5
    <3>2. f = [s EXCEPT !.dist = d, !.ty = a, !.my = b, !.alongX = FALSE]
      BY <1>2 DEF Positioned
    <3> HIDE DEF a, b, d, f
    <3>3. /\ Positioned(f)
          /\ f.dist = d /\ f.ty = a /\ f.my = b /\ f.alongX = FALSE
          /\ f.mx = s.mx /\ f.tx = s.tx
      BY <1>2, <3>1, <3>2 DEF Positioned
    <3> QED
      BY <3>3 DEF a, b, d
  <2>2. e = [f EXCEPT !.hit = MapSolid(f.mx, f.my)]
    BY <1>7 DEF Crossed
  <2> HIDE DEF e, f
  <2>3. /\ Positioned(e) /\ e.hit = MapSolid(e.mx, e.my)
        /\ e.dist = s.ty /\ e.ty = s.ty + Delta(ry) /\ e.my = s.my + Way(ry) /\ e.alongX = FALSE
        /\ e.mx = s.mx /\ e.tx = s.tx
    <3> DEFINE h == MapSolid(f.mx, f.my)
    <3>1. h \in BOOLEAN
      BY DEF MapSolid
    <3>2. e = [f EXCEPT !.hit = h] /\ Positioned(f)
      BY <2>1, <2>2
    <3> HIDE DEF h
    <3>3. /\ Positioned(e) /\ e.hit = h /\ e.alongX = f.alongX
          /\ e.mx = f.mx /\ e.my = f.my /\ e.tx = f.tx /\ e.ty = f.ty /\ e.dist = f.dist
      BY <3>1, <3>2, HitNoted
    <3> QED
      BY <2>1, <3>3 DEF h
  <2>4. Along(q, ry, j + 1, e.my, e.ty, e.dist)
    <3>1. Along(q, ry, j + 1, s.my + Way(ry), s.ty + Delta(ry), s.ty)
      BY <1>2, <1>3, AlongCrossed
    <3> QED
      BY <2>3, <3>1
  <2>5. Along(p, rx, i, e.mx, e.tx, e.dist)
    <3>1. s.ty <= s.tx
      BY <1>3, <1>7
    <3>2. Along(p, rx, i, s.mx, s.tx, s.ty)
      BY <1>2, <1>3, <3>1, AlongBefore
    <3> QED
      BY <2>3, <3>2
  <2>6. WalkAt(e, p, q, rx, ry, i, j + 1)
    BY <2>3, <2>4, <2>5 DEF WalkAt
  <2>7. n + 1 = i + (j + 1) /\ i + (j + 1) < MAP_W + MAP_H /\ j + 1 > 0
    BY <1>1, <1>4
  <2>8. e.dist = e.ty - Delta(ry)
    BY <1>3, <1>5, <2>3
  <2>9. j + 1 \in Nat
    OBVIOUS
  <2> QED
    BY <2>3, <2>6, <2>7, <2>8, <2>9 DEF Walked, e
<1> QED
  BY <1>6, <1>7

\* Before the first.
LEMMA StartWalks ==
    ASSUME NEW c \in Positions, ~MapSolid(FP2INT(c.x), FP2INT(c.y)),
           NEW rx \in -FP_ONE .. FP_ONE, NEW ry \in -FP_ONE .. FP_ONE
    PROVE  Walked(FromCamera(c, rx, ry), c.x, c.y, rx, ry, 0)
<1> DEFINE s == FromCamera(c, rx, ry)   p == c.x   q == c.y
<1>1. p \in Int /\ q \in Int
  BY DEF Positions
<1>2. FP2INT(p) \in Int /\ FP2INT(q) \in Int
  <2>1. FP_ONE \in Nat \ {0}
    BY RayAssumption
  <2> QED
    BY <1>1, <2>1 DEF FP2INT
<1>3. NextBorder(p, rx) \in Nat /\ NextBorder(q, ry) \in Nat /\ Delta(rx) \in Nat /\ Delta(ry) \in Nat
  BY <1>1, AxisNumbers
<1> HIDE DEF p, q
<1>4. /\ s.mx = FP2INT(p) /\ s.my = FP2INT(q) /\ s.dist = 0 /\ s.alongX = FALSE
      /\ s.tx = NextBorder(p, rx) /\ s.ty = NextBorder(q, ry) /\ s.hit = FALSE
  BY DEF FromCamera, p, q
<1>5. Positioned(s)
  BY <1>2, <1>3 DEF FromCamera, Positioned, p, q
<1> HIDE DEF s
<1>6. Along(p, rx, 0, s.mx, s.tx, s.dist) /\ Along(q, ry, 0, s.my, s.ty, s.dist)
  <2>1. Way(rx) \in Int /\ Way(ry) \in Int
    BY DEF Way
  <2> QED
    BY <1>2, <1>3, <1>4, <2>1 DEF Along
<1>7. WalkAt(s, p, q, rx, ry, 0, 0)
  <2>1. ~MapSolid(s.mx, s.my)
    BY <1>4 DEF p, q
  <2> QED
    BY <1>4, <1>5, <1>6, <2>1 DEF WalkAt, MapSolid
<1> QED
  BY <1>4, <1>7 DEF Walked, s, p, q
\* Every non-empty set of naturals has a least element.
LEMMA LeastNatural ==
    ASSUME NEW S \in SUBSET Nat, S # {}
    PROVE  \E n \in S : \A m \in S : n <= m
<1> DEFINE Below == {p \in Nat \X Nat : p[1] < p[2]}
<1>1. IsWellFoundedOn(Below, Nat)
  BY NatLessThanWellFounded, Zenon DEF OpToRel
<1>2. \A m, n \in Nat : <<m, n>> \notin Below => n <= m
  OBVIOUS
<1> HIDE DEF Below
<1>3. \E n \in S : \A m \in S : ~ (<<m, n>> \in Below)
  BY <1>1, WFMin
<1> QED
  BY <1>2, <1>3

\* What holds of 0 and passes on to the next holds up to n.
LEMMA UpTo ==
    ASSUME NEW n \in Nat, NEW S, 0 \in S, \A k \in 0 .. n - 1 : k \in S => k + 1 \in S
    PROVE  \A k \in 0 .. n : k \in S
<1> DEFINE Missing == {k \in 0 .. n : k \notin S}
<1>1. SUFFICES ASSUME Missing # {} PROVE FALSE
  OBVIOUS
<1>2. Missing \in SUBSET Nat
  OBVIOUS
<1>3. PICK m \in Missing : \A k \in Missing : m <= k
  <2> HIDE DEF Missing
  <2> QED
    BY <1>1, <1>2, LeastNatural
<1>4. m \in 0 .. n /\ m \notin S /\ m # 0
  OBVIOUS
<1>5. m - 1 \in 0 .. n - 1 /\ m - 1 \in 0 .. n /\ ~(m <= m - 1) /\ (m - 1) + 1 = m
  BY <1>4
<1>6. m - 1 \in S
  BY <1>3, <1>5
<1> QED
  BY <1>4, <1>5, <1>6

\* F lists where a ray is after each of m steps.
WalkUpTo(F, c, rx, ry, m) ==
    F = [n \in 0 .. m |->
            IF n = 0 THEN FromCamera(c, rx, ry)
            ELSE LET s == F[n - 1] IN IF s.hit THEN s ELSE Crossed(s, rx, ry)]

\* A step of the walk, if one is left.
WalkStep(s, rx, ry) == IF s.hit THEN s ELSE Crossed(s, rx, ry)

\* There is such a list.
LEMMA WalkExists ==
    ASSUME NEW c, NEW rx, NEW ry, NEW m \in Nat
    PROVE  \E F : WalkUpTo(F, c, rx, ry, m)
<1> DEFINE S == {i \in 0 .. m : \E F : WalkUpTo(F, c, rx, ry, i)}
           start == FromCamera(c, rx, ry)
<1>1. 0 \in S
  <2> DEFINE F == [n \in 0 .. 0 |-> start]
  <2>1. F = [n \in 0 .. 0 |-> IF n = 0 THEN start ELSE WalkStep(F[n - 1], rx, ry)]
    OBVIOUS
  <2>2. WalkUpTo(F, c, rx, ry, 0)
    BY <2>1 DEF WalkUpTo, WalkStep
  <2> QED
    BY <2>2
<1>2. ASSUME NEW k \in 0 .. m - 1, k \in S PROVE k + 1 \in S
  <2>1. PICK G : WalkUpTo(G, c, rx, ry, k)
    BY <1>2
  <2> HIDE DEF start
  <2> DEFINE last == WalkStep(G[k], rx, ry)
             F == [n \in 0 .. k + 1 |-> IF n = k + 1 THEN last ELSE G[n]]
  <2>2. \A n \in 0 .. k : G[n] = IF n = 0 THEN start ELSE WalkStep(G[n - 1], rx, ry)
    BY <2>1 DEF WalkUpTo, WalkStep, start
  <2>3. ASSUME NEW n \in 0 .. k + 1
        PROVE  F[n] = IF n = 0 THEN start ELSE WalkStep(F[n - 1], rx, ry)
    <3>1. CASE n = k + 1
      <4>1. n # 0 /\ n - 1 \in 0 .. k + 1 /\ n - 1 # k + 1 /\ n - 1 = k
        BY <3>1
      <4> QED
        BY <3>1, <4>1
    <3>2. CASE n # k + 1
      <4>1. n \in 0 .. k /\ (n # 0 => n - 1 \in 0 .. k + 1 /\ n - 1 # k + 1)
        BY <3>2
      <4>2. F[n] = G[n] /\ (n # 0 => F[n - 1] = G[n - 1])
        BY <3>2, <4>1
      <4> HIDE DEF F
      <4> QED
        BY <2>2, <4>1, <4>2
    <3> QED
      BY <3>1, <3>2
  <2>4. WalkUpTo(F, c, rx, ry, k + 1)
    <3> DEFINE H(x) == [n \in 0 .. k + 1 |-> IF n = 0 THEN start ELSE WalkStep(x[n - 1], rx, ry)]
    <3>1. F = H(F)
      BY <2>3
    <3> HIDE DEF F
    <3> QED
      BY <3>1 DEF WalkUpTo, WalkStep, start
  <2>5. k + 1 \in 0 .. m
    OBVIOUS
  <2> QED
    BY <2>4, <2>5
<1> HIDE DEF S
<1>3. \A i \in 0 .. m : i \in S
  BY <1>1, <1>2, UpTo
<1> QED
  BY <1>3 DEF S

\* A ray ends at a solid cell, after steps enough to leave the map.
LEMMA CastRayHits ==
    ASSUME FineGrained, NEW c \in Positions, ~MapSolid(FP2INT(c.x), FP2INT(c.y)), NEW a \in Int
    PROVE  CastRay(c, a).hit /\ Walked(CastRay(c, a), c.x, c.y, FpCos(a), FpSin(a), MAX_STEPS)
<1> DEFINE rx == FpCos(a)   ry == FpSin(a)   m == MAX_STEPS
           F == CHOOSE f : WalkUpTo(f, c, rx, ry, m)
<1>1. /\ m \in Nat /\ MAP_W \in Nat /\ MAP_H \in Nat /\ MAP_W + MAP_H - 1 <= m
      /\ Quarter \in Nat /\ FP_ONE \in Nat
  BY RayAssumption DEF FineGrained
<1>2. rx \in -FP_ONE .. FP_ONE /\ ry \in -FP_ONE .. FP_ONE
  BY <1>1, SinBound DEF FpCos
<1>3. c.x \in Int /\ c.y \in Int
  BY DEF Positions
<1>4. CastRay(c, a) = F[m]
  BY DEF CastRay, WalkUpTo
<1>5. WalkUpTo(F, c, rx, ry, m)
  BY <1>1, WalkExists
<1> HIDE DEF F, rx, ry, m
<1>6. \A n \in 0 .. m : F[n] = IF n = 0 THEN FromCamera(c, rx, ry) ELSE WalkStep(F[n - 1], rx, ry)
  BY <1>5 DEF WalkUpTo, WalkStep
<1> DEFINE S == {n \in 0 .. m : Walked(F[n], c.x, c.y, rx, ry, n)}
<1>7. 0 \in S
  <2>1. F[0] = FromCamera(c, rx, ry)
    BY <1>1, <1>6
  <2> QED
    BY <1>1, <1>2, <2>1, StartWalks
<1>8. ASSUME NEW n \in 0 .. m - 1, n \in S PROVE n + 1 \in S
  <2>1. n \in Nat /\ n + 1 \in 0 .. m /\ n + 1 # 0 /\ (n + 1) - 1 = n
    BY <1>1
  <2>2. F[n + 1] = WalkStep(F[n], rx, ry) /\ Walked(F[n], c.x, c.y, rx, ry, n)
    BY <1>6, <1>8, <2>1
  <2>3. CASE F[n].hit
    <3>1. F[n + 1] = F[n]
      BY <2>2, <2>3 DEF WalkStep
    <3>2. Walked(F[n], c.x, c.y, rx, ry, n + 1)
      BY <2>2, <2>3 DEF Walked
    <3> QED
      BY <2>1, <3>1, <3>2
  <2>4. CASE ~F[n].hit
    <3>1. F[n + 1] = Crossed(F[n], rx, ry)
      BY <2>2, <2>4 DEF WalkStep
    <3>2. Walked(Crossed(F[n], rx, ry), c.x, c.y, rx, ry, n + 1)
      BY <1>2, <1>3, <2>1, <2>2, <2>4, CrossedWalks
    <3> QED
      BY <2>1, <3>1, <3>2
  <2> QED
    BY <2>3, <2>4
<1> HIDE DEF S
<1>9. \A n \in 0 .. m : n \in S
  BY <1>1, <1>7, <1>8, UpTo
<1>10. Walked(F[m], c.x, c.y, rx, ry, m)
  BY <1>1, <1>9 DEF S
<1>11. F[m].hit
  <2> SUFFICES ASSUME ~F[m].hit PROVE FALSE
    OBVIOUS
  <2>1. PICK i \in Nat, j \in Nat : WalkAt(F[m], c.x, c.y, rx, ry, i, j) /\ m = i + j
    BY <1>10 DEF Walked
  <2>2. ~MapSolid(FP2INT(c.x) + i * Way(rx), FP2INT(c.y) + j * Way(ry))
    BY <2>1 DEF WalkAt, Along
  <2>3. i < MAP_W /\ j < MAP_H
    BY <1>3, <2>2, OpenOnMap
  <2> QED
    BY <1>1, <2>1, <2>3
<1> QED
  BY <1>4, <1>10, <1>11 DEF rx, ry, m

\* So every ray of a camera in the open meets a wall as it should.
LEMMA RaysMeet ==
    ASSUME FineGrained, cam \in Positions, ~MapSolid(FP2INT(cam.x), FP2INT(cam.y))
    PROVE  RayMeetsWall
<1> SUFFICES ASSUME NEW a \in ViewOf(cam)
             PROVE  LET ray == CastRay(cam, a)
                        px == cam.x + FP_MUL(ray.dist, FpCos(a))
                        py == cam.y + FP_MUL(ray.dist, FpSin(a))
                        faceX == INT2FP(IF FpCos(a) > 0 THEN ray.mx ELSE ray.mx + 1)
                        faceY == INT2FP(IF FpSin(a) > 0 THEN ray.my ELSE ray.my + 1)
                    IN  /\ MapSolid(ray.mx, ray.my)
                        /\ IF ray.alongX
                           THEN /\ px - faceX \in -Half .. Half
                                /\ py \in INT2FP(ray.my) - Half .. INT2FP(ray.my + 1) + Half
                           ELSE /\ py - faceY \in -Half .. Half
                                /\ px \in INT2FP(ray.mx) - Half .. INT2FP(ray.mx + 1) + Half
  BY DEF RayMeetsWall, Half
<1> DEFINE s == CastRay(cam, a)   rx == FpCos(a)   ry == FpSin(a)   p == cam.x   q == cam.y
<1>1. /\ MAP_W \in Nat /\ MAP_H \in Nat /\ Quarter \in Nat /\ FP_ONE \in Nat
  BY RayAssumption
<1>2. a \in Int
  <2>1. FOV \in Nat /\ cam.angle \in Int
    BY RayAssumption DEF Positions
  <2> QED
    BY <2>1 DEF ViewOf
<1>3. rx \in -FP_ONE .. FP_ONE /\ ry \in -FP_ONE .. FP_ONE
  BY <1>1, <1>2, SinBound DEF FpCos
<1>4. p \in Int /\ q \in Int
  BY DEF Positions
<1>5. s.hit /\ Walked(s, p, q, rx, ry, MAX_STEPS)
  BY <1>2, CastRayHits
<1>6. Reaching(rx, ry) /\ Reaching(ry, rx)
  BY <1>2, Reaches
<1> HIDE DEF s, rx, ry, p, q
<1>7. PICK i \in Nat, j \in Nat :
          /\ WalkAt(s, p, q, rx, ry, i, j)
          /\ i + j < MAP_W + MAP_H
          /\ IF s.alongX THEN i > 0 /\ s.dist = s.tx - Delta(rx)
                         ELSE j > 0 /\ s.dist = s.ty - Delta(ry)
  BY <1>5 DEF Walked
<1>8. /\ s.dist \in Nat /\ MapSolid(s.mx, s.my)
      /\ Along(p, rx, i, s.mx, s.tx, s.dist)
      /\ Along(q, ry, j, s.my, s.ty, s.dist)
  BY <1>5, <1>7 DEF WalkAt, Positioned
<1>9. CASE s.alongX
  <2>1. i \in 1 .. MAP_W + MAP_H /\ j \in 0 .. MAP_W + MAP_H - 1 /\ s.dist = s.tx - Delta(rx)
    BY <1>1, <1>7, <1>9
  <2>2. /\ (p + FP_MUL(s.dist, rx)) - INT2FP(IF rx > 0 THEN s.mx ELSE s.mx + 1) \in -Half .. Half
        /\ q + FP_MUL(s.dist, ry) \in INT2FP(s.my) - Half .. INT2FP(s.my + 1) + Half
    BY <1>3, <1>4, <1>6, <1>8, <2>1, MeetsCell
  <2> QED
    BY <1>8, <1>9, <2>2 DEF s, rx, ry, p, q
<1>10. CASE ~s.alongX
  <2>1. j \in 1 .. MAP_W + MAP_H /\ i \in 0 .. MAP_W + MAP_H - 1 /\ s.dist = s.ty - Delta(ry)
    BY <1>1, <1>7, <1>10
  <2>2. /\ (q + FP_MUL(s.dist, ry)) - INT2FP(IF ry > 0 THEN s.my ELSE s.my + 1) \in -Half .. Half
        /\ p + FP_MUL(s.dist, rx) \in INT2FP(s.mx) - Half .. INT2FP(s.mx + 1) + Half
    BY <1>3, <1>4, <1>6, <1>8, <2>1, MeetsCell
  <2> QED
    BY <1>8, <1>10, <2>2 DEF s, rx, ry, p, q
<1> QED
  BY <1>9, <1>10

\* On every map whose cells are fine enough, and for every table of sines, each ray
\* of each frame ends at the near face of a solid cell, as far away as it says.
THEOREM RayMeetsTheWall ==
    ASSUME FineGrained
    PROVE  Spec => []RayMeetsWall
<1>1. IInv => RayMeetsWall
  <2> SUFFICES ASSUME IInv PROVE RayMeetsWall
    OBVIOUS
  <2>1. cam \in Positions
    BY DEF IInv, TypeOK, Positions
  <2>2. CellOf(cam) \in Open
    BY DEF IInv, StaysInRoom, Reach
  <2>3. ~MapSolid(FP2INT(cam.x), FP2INT(cam.y))
    <3>1. MAP_W \in Nat /\ MAP_H \in Nat
      BY RayAssumption
    <3> DEFINE u == FP2INT(cam.x)   v == FP2INT(cam.y)
    <3>2. <<u, v>> \in Open
      BY <2>2 DEF CellOf
    <3> HIDE DEF u, v
    <3>3. ~MapSolid(u, v)
      BY <3>1, <3>2 DEF Open, MapSolid
    <3> QED
      BY <3>3 DEF u, v
  <2> QED
    BY <2>1, <2>3, RaysMeet
<1> QED
  BY <1>1, RayInvariant, PTL
-----------------------------------------------------------------------------
(* The terminal.                                                             *)

(* A glyph: what can be typed, and what the kernel prints.                   *)
Glyph == Char \cup STRING \cup {Blank, NL, BS}

Terminals ==
    [x : Nat, y : 1 .. Height - 2, screen : [Rows -> [Columns -> Glyph]],
     marks : SUBSET (Int \X Int), text : Seq(Rows), from : 0 .. Width - 2]

(* Nothing stands below the row of the cursor, or behind it.                 *)
BlankBelow(t) == \A r \in Rows, c \in Columns : r > t.y => t.screen[r][c] = Blank
BlankBehind(t) == \A c \in Columns : c >= t.x => t.screen[t.y][c] = Blank

(* Rows that do not overlap, from the top, and that end above row y.         *)
InOrder(q) == \A i, j \in DOMAIN q : i < j => q[i] + 2 <= q[j]
Above(q, y) == \A k \in DOMAIN q : q[k] + 2 <= y

(* The rows of the text follow one another down to the cursor.               *)
RowsInOrder(t) == t.text # <<>> /\ t.text[Len(t.text)] = t.y /\ InOrder(t.text)

(* A terminal that may go on to the next row.                                *)
Full(t) == t \in Terminals /\ BlankBelow(t) /\ RowsInOrder(t)

TermOK(t) == Full(t) /\ t.x \in Columns /\ BlankBehind(t)

(* The size of the screen.                                                   *)
LEMMA ScreenSize ==
    /\ Width \in Nat /\ Width >= 3 /\ Width - 2 \in Nat \ {0}
    /\ Height \in Nat /\ Height >= 5
    /\ Columns = 1 .. Width - 2 /\ Rows = 0 .. Height - 1
    /\ 1 .. Height - 2 \subseteq Rows
    /\ Blank \in Glyph /\ NL \in Glyph /\ BS \in Glyph
<1>1. Width \in Nat /\ Width >= 3 /\ Height \in Nat /\ Height >= 5
  BY KeyboardAssumption
<1>3. Blank \in Glyph /\ NL \in Glyph /\ BS \in Glyph
  BY DEF Glyph
<1>4. Width - 2 \in Nat \ {0} /\ 1 .. Height - 2 \subseteq 0 .. Height - 1
  BY <1>1
<1> QED
  BY <1>1, <1>3, <1>4 DEF Columns, Rows

(* The screen at boot.                                                       *)
LEMMA OffOK == TermOK(TerminalOff) /\ TerminalOff.marks = {}
<1>1. TerminalOff \in Terminals
  <2>1. 1 \in 1 .. Height - 2 /\ 1 \in Rows /\ 1 \in 0 .. Width - 2
    BY ScreenSize
  <2>2. <<1>> \in Seq(Rows)
    BY <2>1
  <2>3. [r \in Rows |-> BlankRow] \in [Rows -> [Columns -> Glyph]]
    BY ScreenSize DEF BlankRow
  <2> QED
    BY <2>1, <2>2, <2>3 DEF TerminalOff, Terminals
<1>2. RowsInOrder(TerminalOff)
  BY DEF TerminalOff, RowsInOrder, InOrder
<1>3. \A r \in Rows, c \in Columns : TerminalOff.screen[r][c] = Blank
  BY DEF TerminalOff, BlankRow
<1>4. TerminalOff.x = 1 /\ TerminalOff.y = 1 /\ TerminalOff.marks = {}
  BY DEF TerminalOff
<1>5. 1 \in Columns /\ 1 \in Rows
  BY ScreenSize
<1> QED
  BY <1>1, <1>2, <1>3, <1>4, <1>5 DEF TermOK, Full, BlankBelow, BlankBehind

(* A glyph that is drawn changes its cell, and no underline comes.           *)
LEMMA DrawnIs ==
    ASSUME NEW t \in Terminals, NEW c \in Glyph, t.x \in Columns
    PROVE  /\ Drawn(t, c) \in Terminals
           /\ Drawn(t, c).x = t.x /\ Drawn(t, c).y = t.y
           /\ Drawn(t, c).text = t.text /\ Drawn(t, c).from = t.from
           /\ Drawn(t, c).marks \subseteq t.marks
           /\ \A r \in Rows, k \in Columns :
                 Drawn(t, c).screen[r][k] =
                     IF r = t.y /\ k = t.x THEN c ELSE t.screen[r][k]
<1> DEFINE row == [t.screen[t.y] EXCEPT ![t.x] = c]
           screen == [t.screen EXCEPT ![t.y] = row]
           marks == t.marks \ {At(t)}
<1>1. t.y \in Rows /\ t.screen \in [Rows -> [Columns -> Glyph]] /\ t.marks \in SUBSET (Int \X Int)
  BY ScreenSize DEF Terminals
<1>2. row \in [Columns -> Glyph]
  BY <1>1
<1>3. screen \in [Rows -> [Columns -> Glyph]] /\ marks \in SUBSET (Int \X Int) /\ marks \subseteq t.marks
  BY <1>1, <1>2
<1>4. \A r \in Rows, k \in Columns :
         screen[r][k] = IF r = t.y /\ k = t.x THEN c ELSE t.screen[r][k]
  BY <1>1
<1>5. Drawn(t, c) = [[t EXCEPT !.screen = screen] EXCEPT !.marks = marks]
  BY DEF Drawn, Terminals
<1> HIDE DEF screen, marks, row
<1>6. LET u == [t EXCEPT !.screen = screen]
      IN  /\ u \in Terminals /\ u.screen = screen /\ u.x = t.x /\ u.y = t.y
          /\ u.text = t.text /\ u.from = t.from
  BY <1>3 DEF Terminals
<1> DEFINE u == [t EXCEPT !.screen = screen]
<1>7. u \in Terminals /\ u.screen = screen /\ u.x = t.x /\ u.y = t.y
      /\ u.text = t.text /\ u.from = t.from
  BY <1>6
<1>8. Drawn(t, c) = [u EXCEPT !.marks = marks]
  BY <1>5
<1> HIDE DEF u
<1>9. /\ Drawn(t, c) \in Terminals /\ Drawn(t, c).screen = screen /\ Drawn(t, c).marks = marks
      /\ Drawn(t, c).x = t.x /\ Drawn(t, c).y = t.y
      /\ Drawn(t, c).text = t.text /\ Drawn(t, c).from = t.from
  BY <1>3, <1>7, <1>8 DEF Terminals
<1> QED
  BY <1>3, <1>4, <1>9

(* Moving the cursor along its row.                                          *)
LEMMA MovedTo ==
    ASSUME NEW t \in Terminals, NEW x \in Nat
    PROVE  LET u == [t EXCEPT !.x = x]
           IN  /\ u \in Terminals /\ u.x = x /\ u.y = t.y /\ u.screen = t.screen
               /\ u.marks = t.marks /\ u.text = t.text /\ u.from = t.from
BY DEF Terminals

(* Rows and columns are counted in reading order.                            *)
LEMMA PlaceOrder ==
    ASSUME NEW t, t.from \in 0 .. Width - 2, NEW i \in Nat, NEW j \in Nat, i < j,
           NEW c \in Columns, NEW d \in Nat, d >= 1
    PROVE  /\ Place(t, i, c) \in Int /\ Place(t, j, d) \in Int
           /\ Place(t, i, c) < Place(t, j, d)
<1> DEFINE w == Width - 2
           f == t.from
<1>1. w \in Nat \ {0} /\ f \in Int /\ c \in Int /\ c <= w
  BY ScreenSize
<1> HIDE DEF w, f
<1>2. i * w \in Int /\ (j - 1) * w \in Int /\ (i - 1) * w = i * w - w /\ i * w <= (j - 1) * w
  BY <1>1
<1>3. Place(t, i, c) = (i - 1) * w + c - f + 1 /\ Place(t, j, d) = (j - 1) * w + d - f + 1
  BY DEF Place, w, f
<1> QED
  BY <1>1, <1>2, <1>3

(* In a row, the places are those of the columns.                            *)
LEMMA PlaceInRow ==
    ASSUME NEW t, t.from \in 0 .. Width - 2, NEW m \in Nat, NEW c \in Int
    PROVE  Place(t, m, c) = Place(t, m, 0) + c /\ Place(t, m, 0) \in Int
<1> DEFINE z == (m - 1) * (Width - 2)
<1>1. z \in Int /\ t.from \in Int
  BY ScreenSize
<1>2. Place(t, m, c) = z + c - t.from + 1 /\ Place(t, m, 0) = z + 0 - t.from + 1
  BY DEF Place
<1> HIDE DEF z
<1> QED
  BY <1>1, <1>2

(* A sequence, place by place.                                               *)
LEMMA SeqOf ==
    ASSUME NEW S, NEW n \in Nat, NEW s \in [1 .. n -> S]
    PROVE  s \in Seq(S) /\ Len(s) = n /\ DOMAIN s = 1 .. n
BY SMT

(* The row of the cursor is the last of the text.                            *)
LEMMA LastIsGreatest ==
    ASSUME NEW q \in Seq(Rows), q # <<>>,
           InOrder(q),
           NEW k \in DOMAIN q
    PROVE  q[k] <= q[Len(q)] /\ q[k] \in Int /\ q[Len(q)] \in Int
<1>1. Len(q) \in Nat \ {0} /\ DOMAIN q = 1 .. Len(q) /\ Len(q) \in DOMAIN q
  OBVIOUS
<1>2. q[k] \in Int /\ q[Len(q)] \in Int
  BY <1>1, ScreenSize
<1>3. CASE k = Len(q)
  BY <1>2, <1>3
<1>4. CASE k # Len(q)
  <2>1. k < Len(q)
    BY <1>1, <1>4
  <2>2. q[k] + 2 <= q[Len(q)]
    BY <1>1, <2>1 DEF InOrder
  <2> QED
    BY <1>2, <2>2
<1> QED
  BY <1>3, <1>4

(* The fields of a terminal, also of one whose cursor is off the screen.     *)
Loose ==
    [x : Nat, y : Nat, screen : [Rows -> [Columns -> Glyph]],
     marks : SUBSET (Int \X Int), text : Seq(Rows), from : 0 .. Width - 2]

(* The rows that stay on the screen, a row higher.                           *)
Higher(q) ==
    LET kept == IF q[1] < 2 THEN Tail(q) ELSE q IN [k \in DOMAIN kept |-> kept[k] - 2]

(* The rows that stay are in order still, and end above the last row.        *)
LEMMA KeptRows ==
    ASSUME NEW q \in Seq(Rows), q # <<>>, InOrder(q), NEW text, text = Higher(q)
    PROVE  /\ text \in Seq(Rows)
           /\ Len(text) = IF q[1] < 2 THEN Len(q) - 1 ELSE Len(q)
           /\ Len(text) \in Nat /\ DOMAIN text = 1 .. Len(text)
           /\ Above(text, q[Len(q)]) /\ InOrder(text)
           /\ ~(q[1] < 2) => \A k \in DOMAIN text : k \in DOMAIN q /\ text[k] = q[k] - 2
<1> DEFINE n == Len(q)
           d == IF q[1] < 2 THEN 1 ELSE 0
           m == n - d
           y == q[n]
           kept == IF q[1] < 2 THEN Tail(q) ELSE q
<1>1. q \in Seq(Rows) /\ q # <<>> /\ q[n] = y /\ y \in Rows
  OBVIOUS
<1>2. \A i, j \in DOMAIN q : i < j => q[i] + 2 <= q[j]
  BY DEF InOrder
<1>4. text = [k \in DOMAIN kept |-> kept[k] - 2] /\ kept = IF q[1] < 2 THEN Tail(q) ELSE q
  BY DEF Higher
<1> HIDE DEF y, kept
<1>0. ASSUME NEW v \in Rows
      PROVE  /\ v >= 2 => v - 2 \in Rows
             /\ v <= y => (v - 2) + 2 <= y
             /\ \A u \in Rows : v + 2 <= u => (v - 2) + 2 <= u - 2
  BY ScreenSize
<1>5. n \in Nat \ {0} /\ DOMAIN q = 1 .. n /\ \A k \in 1 .. n : q[k] \in Rows
  BY <1>1
<1>6. d \in {0, 1} /\ m \in Nat
  BY <1>5
<1>7. DOMAIN kept = 1 .. m /\ \A k \in 1 .. m : kept[k] = q[k + d]
  <2>1. CASE q[1] < 2
    <3>1. kept = Tail(q) /\ d = 1 /\ m = n - 1
      BY <1>4, <2>1
    <3>2. DOMAIN Tail(q) = 1 .. n - 1 /\ \A k \in 1 .. n - 1 : Tail(q)[k] = q[k + 1]
      BY <1>1, <1>5
    <3> QED
      BY <3>1, <3>2
  <2>2. CASE ~(q[1] < 2)
    <3>1. kept = q /\ d = 0 /\ m = n
      BY <1>4, <1>5, <2>2
    <3>2. ASSUME NEW k \in 1 .. m PROVE kept[k] = q[k + d]
      <4>1. k \in 1 .. n /\ d = 0
        BY <3>1, Zenon
      <4>2. k + 0 = k
        BY <1>5, <4>1
      <4> QED
        BY <3>1, <4>1, <4>2, Zenon
    <3> QED
      BY <1>5, <3>1, <3>2
  <2> QED
    BY <2>1, <2>2
<1> HIDE DEF n
<1>8. DOMAIN text = 1 .. m /\ \A k \in 1 .. m : text[k] = q[k + d] - 2
  BY <1>4, <1>7
<1>9. \A k \in 1 .. m : k + d \in 1 .. n /\ q[k + d] \in Rows
  BY <1>5, <1>6
<1>10. \A i, j \in 1 .. m : i < j => q[i + d] + 2 <= q[j + d]
  <2> SUFFICES ASSUME NEW i \in 1 .. m, NEW j \in 1 .. m, i < j PROVE q[i + d] + 2 <= q[j + d]
    OBVIOUS
  <2>1. i + d \in DOMAIN q /\ j + d \in DOMAIN q /\ i + d < j + d
    BY <1>5, <1>6, <1>9
  <2> QED
    BY <1>2, <2>1
<1>11. \A k \in 1 .. m : q[k + d] >= 2 /\ q[k + d] <= y
  <2> SUFFICES ASSUME NEW k \in 1 .. m PROVE q[k + d] >= 2 /\ q[k + d] <= y
    OBVIOUS
  <2>1. 1 \in 1 .. n /\ n \in 1 .. n /\ k + d \in 1 .. n /\ q[1] \in Int /\ q[1] >= 0
        /\ q[k + d] \in Int /\ q[n] \in Int
    BY <1>5, <1>9, ScreenSize
  <2>2. q[k + d] <= y
    <3>1. CASE k + d = n
      BY <1>1, <3>1, <2>1
    <3>2. CASE k + d # n
      <4>1. k + d \in DOMAIN q /\ n \in DOMAIN q /\ k + d < n
        BY <1>5, <2>1, <3>2
      <4>2. q[k + d] + 2 <= q[n]
        BY <1>2, <4>1
      <4> QED
        BY <1>1, <2>1, <4>2
    <3> QED
      BY <3>1, <3>2
  <2>3. q[k + d] >= 2
    <3>1. CASE q[1] < 2
      <4>1. d = 1 /\ 1 < k + d
        BY <3>1
      <4> QED
        BY <1>2, <1>5, <2>1, <4>1
    <3>2. CASE ~(q[1] < 2)
      <4>1. d = 0 /\ q[1] >= 2
        BY <3>2, <2>1
      <4>2. CASE k = 1
        BY <4>1, <4>2
      <4>3. CASE k # 1
        BY <1>2, <1>5, <2>1, <4>1, <4>3
      <4> QED
        BY <4>2, <4>3
    <3> QED
      BY <3>1, <3>2
  <2> QED
    BY <2>2, <2>3
<1>12. text \in [1 .. m -> Rows]
  <2>1. \A k \in 1 .. m : text[k] \in Rows
    <3> SUFFICES ASSUME NEW k \in 1 .. m PROVE text[k] \in Rows
      OBVIOUS
    <3>1. text[k] = q[k + d] - 2 /\ q[k + d] \in Rows /\ q[k + d] >= 2
      BY <1>8, <1>9, <1>11
    <3> QED
      BY <1>0, <3>1
  <2>2. text = [k \in 1 .. m |-> text[k]]
    BY <1>4, <1>7
  <2> QED
    BY <2>1, <2>2
<1>13. text \in Seq(Rows) /\ Len(text) = m
  <2> HIDE DEF m
  <2> QED
    BY <1>6, <1>12, SeqOf
<1>14. \A k \in 1 .. m : text[k] + 2 <= y
  <2> SUFFICES ASSUME NEW k \in 1 .. m PROVE text[k] + 2 <= y
    OBVIOUS
  <2>1. text[k] = q[k + d] - 2 /\ q[k + d] \in Rows /\ q[k + d] <= y
    BY <1>8, <1>9, <1>11
  <2> QED
    BY <1>0, <2>1
<1>15. \A i, j \in 1 .. m : i < j => text[i] + 2 <= text[j]
  <2> SUFFICES ASSUME NEW i \in 1 .. m, NEW j \in 1 .. m, i < j PROVE text[i] + 2 <= text[j]
    OBVIOUS
  <2>1. /\ text[i] = q[i + d] - 2 /\ q[i + d] \in Rows
        /\ text[j] = q[j + d] - 2 /\ q[j + d] \in Rows
        /\ q[i + d] + 2 <= q[j + d]
    BY <1>8, <1>9, <1>10
  <2> QED
    BY <1>0, <2>1
<1>16. ~(q[1] < 2) => d = 0 /\ m = n
  BY <1>5
<1>17. m = IF q[1] < 2 THEN n - 1 ELSE n
  BY <1>5
<1>18. ~(q[1] < 2) => \A k \in 1 .. m : k \in DOMAIN q /\ text[k] = q[k] - 2
  <2> SUFFICES ASSUME ~(q[1] < 2), NEW k \in 1 .. m PROVE k \in DOMAIN q /\ text[k] = q[k] - 2
    OBVIOUS
  <2>1. d = 0 /\ m = n
    BY <1>16
  <2>2. k + 0 = k /\ k \in DOMAIN q
    BY <1>5, <2>1
  <2>3. text[k] = q[k + d] - 2
    BY <1>8
  <2> QED
    BY <2>1, <2>2, <2>3
<1>19. m \in Nat
  BY <1>6
<1> HIDE DEF d, m
<1>20. Len(text) = m /\ DOMAIN text = 1 .. m
  BY <1>8, <1>13
<1> QED
  BY <1>13, <1>14, <1>15, <1>17, <1>18, <1>19, <1>20 DEF n, y, Above, InOrder

(* The rows of a terminal whose text has grown by the row of the cursor.     *)
LEMMA AppendedRow ==
    ASSUME NEW t \in Loose, NEW y \in 1 .. Height - 2, t.y = y,
           Above(t.text, y),
           InOrder(t.text),
           NEW n, n = [t EXCEPT !.text = Append(@, t.y)]
    PROVE  /\ n \in Terminals /\ RowsInOrder(n)
           /\ n.x = t.x /\ n.y = y /\ n.screen = t.screen /\ n.marks = t.marks
           /\ n.from = t.from /\ n.text = Append(t.text, y)
<1>1. y \in Rows /\ t.text \in Seq(Rows)
  BY ScreenSize DEF Loose
<1> DEFINE text == Append(t.text, y)
           m == Len(t.text)
<1>2. m \in Nat /\ DOMAIN t.text = 1 .. m
  BY <1>1
<1>3. /\ text \in Seq(Rows) /\ text # <<>> /\ Len(text) = m + 1 /\ DOMAIN text = 1 .. m + 1
      /\ text[m + 1] = y /\ \A k \in 1 .. m : text[k] = t.text[k]
  BY <1>1, AppendProperties
<1> HIDE DEF text, m
<1>4. n = [t EXCEPT !.text = text]
  BY DEF text
<1>5. /\ n.x = t.x /\ n.y = y /\ n.screen = t.screen /\ n.marks = t.marks
      /\ n.from = t.from /\ n.text = text /\ n \in Terminals
  <2>1. /\ n.x = t.x /\ n.y = y /\ n.screen = t.screen /\ n.marks = t.marks
        /\ n.from = t.from /\ n.text = text
    BY <1>4 DEF Loose
  <2>2. n \in Loose
    BY <1>3, <1>4 DEF Loose
  <2> QED
    BY <1>3, <2>1, <2>2 DEF Loose, Terminals
<1>6. ASSUME NEW i \in DOMAIN text, NEW j \in DOMAIN text, i < j
      PROVE  text[i] + 2 <= text[j]
  <2>1. i \in 1 .. m /\ text[i] = t.text[i]
    BY <1>2, <1>3, <1>6
  <2>2. CASE j = m + 1
    BY <1>2, <1>3, <2>1, <2>2 DEF Above
  <2>3. CASE j # m + 1
    <3>1. j \in 1 .. m /\ text[j] = t.text[j]
      BY <1>2, <1>3, <2>3
    <3> QED
      BY <1>2, <1>6, <2>1, <3>1 DEF InOrder
  <2> QED
    BY <2>2, <2>3
<1>7. RowsInOrder(n)
  BY <1>3, <1>5, <1>6 DEF RowsInOrder, InOrder
<1> QED
  BY <1>5, <1>7 DEF text

(* A new line where there is room for one.                                   *)
LEMMA NextRowIs ==
    ASSUME NEW t, Full(t), t.y + 2 < Height - 2
    PROVE  /\ NewRow(t) \in Terminals /\ RowsInOrder(NewRow(t))
           /\ NewRow(t).x = 1 /\ NewRow(t).y = t.y + 2
           /\ NewRow(t).screen = t.screen /\ NewRow(t).marks = t.marks
           /\ NewRow(t).from = t.from /\ NewRow(t).text = Append(t.text, t.y + 2)
<1> DEFINE u == [t EXCEPT !.x = 1, !.y = @ + 2]
           y == t.y + 2
<1>1. t \in Terminals /\ t.y \in 1 .. Height - 2 /\ RowsInOrder(t)
  BY DEF Full, Terminals
<1>2. y \in 1 .. Height - 2 /\ y \in Nat
  BY <1>1, ScreenSize
<1>3. u = [t EXCEPT !.x = 1, !.y = y]
  OBVIOUS
<1> HIDE DEF y
<1>4. /\ u \in Loose /\ u.x = 1 /\ u.y = y /\ u.screen = t.screen /\ u.marks = t.marks
      /\ u.text = t.text /\ u.from = t.from
  BY <1>1, <1>2, <1>3 DEF Terminals, Loose
<1>5. ~(u.y >= Height - 2)
  BY <1>2, <1>4, ScreenSize DEF y
<1>6. NewRow(t) = [u EXCEPT !.text = Append(@, u.y)]
  BY <1>5 DEF NewRow
<1> HIDE DEF u
<1>7. t.text # <<>> /\ t.text[Len(t.text)] = t.y /\ t.text \in Seq(Rows) /\ InOrder(t.text)
  BY <1>1 DEF RowsInOrder, Terminals
<1>8. Above(t.text, y)
  <2> SUFFICES ASSUME NEW k \in DOMAIN t.text PROVE t.text[k] + 2 <= y
    BY DEF Above
  <2>1. t.text[k] <= t.text[Len(t.text)] /\ t.text[k] \in Int
    BY <1>7, LastIsGreatest
  <2> QED
    BY <1>1, <1>7, <2>1, ScreenSize DEF y
<1>9. /\ NewRow(t) \in Terminals /\ RowsInOrder(NewRow(t))
      /\ NewRow(t).x = u.x /\ NewRow(t).y = y
      /\ NewRow(t).screen = u.screen /\ NewRow(t).marks = u.marks
      /\ NewRow(t).from = u.from /\ NewRow(t).text = Append(u.text, y)
  <2>1. u.y = y /\ y \in 1 .. Height - 2 /\ Above(u.text, y) /\ InOrder(u.text)
    BY <1>2, <1>4, <1>7, <1>8
  <2> HIDE DEF NewRow
  <2> QED
    BY <1>4, <1>6, <2>1, AppendedRow
<1> QED
  BY <1>4, <1>9 DEF y

(* A new line at the end of the screen.                                      *)
LEMMA LastRowIs ==
    ASSUME NEW t, Full(t), ~(t.y + 2 < Height - 2)
    PROVE  /\ NewRow(t) \in Terminals /\ RowsInOrder(NewRow(t))
           /\ NewRow(t).x = 1 /\ NewRow(t).y = Height - 2
           /\ NewRow(t).screen =
                 [r \in Rows |-> IF r + 2 \in Rows THEN t.screen[r + 2] ELSE BlankRow]
           /\ t.marks = {} => NewRow(t).marks = {}
           /\ NewRow(t).from = IF Leaves(t) THEN Gone ELSE t.from
           /\ ~Leaves(t) =>
                 /\ Len(NewRow(t).text) = Len(t.text) + 1
                 /\ \A k \in DOMAIN t.text : NewRow(t).text[k] = t.text[k] - 2
<1> DEFINE u == [t EXCEPT !.x = 1, !.y = @ + 2]
           y == t.y + 2
           h == Height - 2
           kept == IF Leaves(u) THEN Tail(u.text) ELSE u.text
           screen == [r \in Rows |-> IF r + 2 \in Rows THEN u.screen[r + 2] ELSE BlankRow]
           marks == {<<m[1], m[2] - 2>> : m \in {k \in u.marks : k[2] >= 2}}
           text == [k \in DOMAIN kept |-> kept[k] - 2]
           from == IF Leaves(u) THEN Gone ELSE u.from
           v == Scrolled(u)
<1>1. t \in Terminals /\ t.y \in 1 .. Height - 2 /\ RowsInOrder(t)
  BY DEF Full, Terminals
<1>2. y \in Nat /\ t.y \in Rows /\ h \in 1 .. Height - 2 /\ h \in Nat /\ y >= h /\ h \in Rows
  BY <1>1, ScreenSize
<1>3. u = [t EXCEPT !.x = 1, !.y = y]
  OBVIOUS
<1> HIDE DEF y, h
<1>4. /\ u \in Loose /\ u.x = 1 /\ u.y = y /\ u.screen = t.screen /\ u.marks = t.marks
      /\ u.text = t.text /\ u.from = t.from
  BY <1>1, <1>2, <1>3 DEF Terminals, Loose
<1>5. v = [u EXCEPT !.y = h, !.screen = screen, !.marks = marks, !.text = text, !.from = from]
  BY <1>4 DEF Scrolled, h, Loose
<1>6. NewRow(t) = [v EXCEPT !.text = Append(@, v.y)]
  BY <1>2, <1>4 DEF NewRow, h
<1>7. Leaves(u) <=> Leaves(t)
  BY <1>4 DEF Leaves
<1> HIDE DEF u
<1>8. screen \in [Rows -> [Columns -> Glyph]]
  <2>1. BlankRow \in [Columns -> Glyph]
    BY ScreenSize DEF BlankRow
  <2>2. u.screen \in [Rows -> [Columns -> Glyph]]
    BY <1>4 DEF Loose
  <2> QED
    BY <2>1, <2>2
<1>9. marks \in SUBSET (Int \X Int) /\ (u.marks = {} => marks = {})
  BY <1>4 DEF Loose
<1>10. t.text \in Seq(Rows) /\ t.text # <<>> /\ t.text[Len(t.text)] = t.y /\ InOrder(t.text)
  BY <1>1 DEF RowsInOrder, Terminals
<1>11. text = Higher(t.text) /\ (Leaves(t) <=> t.text[1] < 2)
  BY <1>4 DEF Higher, Leaves
<1> HIDE DEF kept, text
<1>12. /\ text \in Seq(Rows)
       /\ Len(text) = IF Leaves(t) THEN Len(t.text) - 1 ELSE Len(t.text)
       /\ Len(text) \in Nat /\ DOMAIN text = 1 .. Len(text)
       /\ Above(text, t.y) /\ InOrder(text)
       /\ ~Leaves(t) => \A k \in DOMAIN text : k \in DOMAIN t.text /\ text[k] = t.text[k] - 2
  BY <1>10, <1>11, KeptRows
<1>13. from \in 0 .. Width - 2 /\ from = IF Leaves(t) THEN Gone ELSE t.from
  BY <1>4, <1>7, ScreenSize DEF Gone, Loose
<1> HIDE DEF screen, marks, text, from, v
<1>14. /\ v \in Loose /\ v.x = 1 /\ v.y = h /\ v.screen = screen /\ v.marks = marks
       /\ v.text = text /\ v.from = from
  BY <1>2, <1>4, <1>5, <1>8, <1>9, <1>12, <1>13 DEF Loose
<1>15. Above(text, h)
  <2> SUFFICES ASSUME NEW k \in DOMAIN text PROVE text[k] + 2 <= h
    BY DEF Above
  <2>1. text[k] + 2 <= t.y /\ text[k] \in Rows
    BY <1>12 DEF Above
  <2>2. t.y \in Int /\ h \in Int /\ t.y <= h
    BY <1>1, ScreenSize DEF h
  <2>3. text[k] \in Int
    BY <2>1, ScreenSize
  <2> QED
    BY <2>1, <2>2, <2>3
<1>16. /\ NewRow(t) \in Terminals /\ RowsInOrder(NewRow(t))
       /\ NewRow(t).x = v.x /\ NewRow(t).y = h
       /\ NewRow(t).screen = v.screen /\ NewRow(t).marks = v.marks
       /\ NewRow(t).from = v.from /\ NewRow(t).text = Append(v.text, h)
  <2> DEFINE n == NewRow(t)
  <2>1. n = [v EXCEPT !.text = Append(@, v.y)]
    BY <1>6
  <2> HIDE DEF n
  <2>2. h \in 1 .. Height - 2 /\ v \in Loose /\ v.y = h /\ Above(v.text, h) /\ InOrder(v.text)
    BY <1>2, <1>12, <1>14, <1>15
  <2>3. /\ n \in Terminals /\ RowsInOrder(n)
        /\ n.x = v.x /\ n.y = h /\ n.screen = v.screen /\ n.marks = v.marks
        /\ n.from = v.from /\ n.text = Append(v.text, h)
    BY <2>1, <2>2, AppendedRow
  <2> QED
    BY <2>3 DEF n
<1>17. screen = [r \in Rows |-> IF r + 2 \in Rows THEN t.screen[r + 2] ELSE BlankRow]
  BY <1>4 DEF screen
<1>18. ASSUME ~Leaves(t)
       PROVE  /\ Len(NewRow(t).text) = Len(t.text) + 1
              /\ \A k \in DOMAIN t.text : NewRow(t).text[k] = t.text[k] - 2
  <2>1. NewRow(t).text = Append(text, h) /\ Len(text) = Len(t.text) /\ DOMAIN text = DOMAIN t.text
    BY <1>10, <1>12, <1>14, <1>16, <1>18
  <2>2. Len(Append(text, h)) = Len(text) + 1 /\ \A k \in DOMAIN text : Append(text, h)[k] = text[k]
    BY <1>2, <1>12, AppendProperties
  <2> QED
    BY <1>12, <1>18, <2>1, <2>2
<1> QED
  BY <1>4, <1>9, <1>13, <1>14, <1>16, <1>17, <1>18 DEF h

(* A new line finds an empty row, and its beginning is the cursor's.         *)
LEMMA NewRowOK ==
    ASSUME NEW t, Full(t)
    PROVE  /\ TermOK(NewRow(t)) /\ NewRow(t).x = 1
           /\ t.marks = {} => NewRow(t).marks = {}
<1>1. t \in Terminals /\ BlankBelow(t) /\ t.y \in 1 .. Height - 2 /\ 1 \in Columns
  BY ScreenSize DEF Full, Terminals
<1>2. CASE t.y + 2 < Height - 2
  <2> DEFINE n == NewRow(t)
  <2>1. /\ n \in Terminals /\ RowsInOrder(n) /\ n.x = 1 /\ n.y = t.y + 2
        /\ n.screen = t.screen /\ n.marks = t.marks
    BY <1>2, NextRowIs
  <2> HIDE DEF n
  <2>2. n.y \in Rows /\ n.y > t.y /\ \A r \in Rows : r > n.y => r > t.y
    BY <1>1, <1>2, <2>1, ScreenSize
  <2>3. BlankBelow(n) /\ BlankBehind(n)
    BY <1>1, <2>1, <2>2 DEF BlankBelow, BlankBehind
  <2> QED
    BY <1>1, <2>1, <2>3 DEF TermOK, Full, n
<1>3. CASE ~(t.y + 2 < Height - 2)
  <2> DEFINE n == NewRow(t)
  <2>1. /\ n \in Terminals /\ RowsInOrder(n) /\ n.x = 1 /\ n.y = Height - 2
        /\ n.screen = [r \in Rows |-> IF r + 2 \in Rows THEN t.screen[r + 2] ELSE BlankRow]
        /\ t.marks = {} => n.marks = {}
    BY <1>3, LastRowIs
  <2> HIDE DEF n
  <2>2. \A r \in Rows : r >= Height - 2 => r + 2 \notin Rows
    BY ScreenSize
  <2>3. \A r \in Rows, c \in Columns : r >= Height - 2 => n.screen[r][c] = Blank
    BY <2>1, <2>2 DEF BlankRow
  <2>4. Height - 2 \in Rows /\ \A r \in Rows : r > Height - 2 => r >= Height - 2
    BY ScreenSize
  <2>5. BlankBelow(n) /\ BlankBehind(n)
    BY <2>1, <2>3, <2>4, ScreenSize DEF BlankBelow, BlankBehind
  <2> QED
    BY <1>1, <2>1, <2>5 DEF TermOK, Full, n
<1> QED
  BY <1>2, <1>3

(* What has left the screen does not come back.                              *)
LEMMA NewRowFrom ==
    ASSUME NEW t, Full(t)
    PROVE  NewRow(t).from \in {t.from, Gone}
BY NextRowIs, LastRowIs

(* A new line leaves the text as it stands, unless it leaves the screen.     *)
LEMMA NewRowShows ==
    ASSUME NEW t, Full(t), t.x = Width - 1, NEW s \in Seq(Glyph), Shows(t, s),
           NewRow(t).from # Gone
    PROVE  t.from # Gone /\ Shows(NewRow(t), s)
<1> DEFINE n == NewRow(t)
           m == Len(t.text)
<1>1. /\ t \in Terminals /\ t.text \in Seq(Rows) /\ t.from \in 0 .. Width - 2
      /\ m \in Nat /\ DOMAIN t.text = 1 .. m /\ t.screen \in [Rows -> [Columns -> Glyph]]
  BY DEF Full, Terminals
<1>4. /\ n.x = 1 /\ n.from = t.from /\ Len(n.text) = m + 1 /\ DOMAIN n.text = 1 .. m + 1
      /\ \A k \in 1 .. m, c \in Columns : n.screen[n.text[k]][c] = t.screen[t.text[k]][c]
  <2>1. CASE t.y + 2 < Height - 2
    <3>1. n.x = 1 /\ n.from = t.from /\ n.screen = t.screen /\ n.text = Append(t.text, t.y + 2)
      BY <2>1, NextRowIs
    <3>2. t.y + 2 \in Rows
      BY <2>1, ScreenSize DEF Full, Terminals
    <3>3. Len(n.text) = m + 1 /\ DOMAIN n.text = 1 .. m + 1 /\ \A k \in 1 .. m : n.text[k] = t.text[k]
      BY <1>1, <3>1, <3>2, AppendProperties
    <3> QED
      BY <3>1, <3>3
  <2>2. CASE ~(t.y + 2 < Height - 2)
    <3>1. ~Leaves(t)
      BY <2>2, LastRowIs
    <3>2. /\ n.x = 1 /\ n.from = t.from
          /\ n.screen = [r \in Rows |-> IF r + 2 \in Rows THEN t.screen[r + 2] ELSE BlankRow]
          /\ n.text \in Seq(Rows)
          /\ Len(n.text) = m + 1 /\ \A k \in 1 .. m : n.text[k] = t.text[k] - 2
      BY <1>1, <2>2, <3>1, LastRowIs DEF Terminals
    <3>3. DOMAIN n.text = 1 .. m + 1
      BY <3>2
    <3>4. ASSUME NEW k \in 1 .. m
          PROVE  t.text[k] - 2 \in Rows /\ (t.text[k] - 2) + 2 = t.text[k] /\ t.text[k] \in Rows
      <4>1. t.text[k] \in Rows /\ n.text[k] \in Rows /\ n.text[k] = t.text[k] - 2
        BY <1>1, <3>2, <3>3
      <4> QED
        BY <4>1, ScreenSize
    <3>5. ASSUME NEW k \in 1 .. m, NEW c \in Columns
          PROVE  n.screen[n.text[k]][c] = t.screen[t.text[k]][c]
      <4>1. n.screen[t.text[k] - 2] = t.screen[t.text[k]]
        BY <3>2, <3>4
      <4> QED
        BY <3>2, <4>1
    <3> QED
      BY <3>2, <3>3, <3>5
  <2> QED
    BY <2>1, <2>2
<1> HIDE DEF n, m
<1>5. \A k, c : Place(n, k, c) = Place(t, k, c)
  BY <1>4 DEF Place
<1>9. m \in Nat \ {0} /\ t.from \in Int
  BY <1>1, ScreenSize DEF Full, RowsInOrder, m
<1>6. Place(n, m + 1, 1) = Place(t, m, t.x)
  <2> DEFINE w == Width - 2
  <2>1. w \in Nat /\ m * w = (m - 1) * w + w /\ (m - 1) * w \in Int /\ (m + 1) - 1 = m
        /\ t.x = w + 1
    BY <1>9, ScreenSize
  <2>2. Place(t, m, t.x) = (m - 1) * w + t.x - t.from + 1
    BY DEF Place
  <2>3. Place(n, m + 1, 1) = m * w + 1 - t.from + 1
    BY <1>4, <2>1 DEF Place
  <2> HIDE DEF w
  <2> QED
    BY <1>9, <2>1, <2>2, <2>3
<1>7. Len(s) = Place(n, m + 1, 1) - 1
  BY <1>6 DEF Shows, m
<1>8. ASSUME NEW k \in 1 .. m + 1, NEW c \in Columns, Place(n, k, c) \in DOMAIN s
      PROVE  n.screen[n.text[k]][c] = s[Place(n, k, c)]
  <2>1. CASE k = m + 1
    <3>1. Place(n, m + 1, c) \in Int /\ Place(n, m + 1, 1) \in Int
          /\ Place(n, m + 1, 1) <= Place(n, m + 1, c)
      <4> DEFINE z == m * (Width - 2)
      <4>1. z \in Int /\ c \in Int /\ c >= 1 /\ (m + 1) - 1 = m
        BY <1>9, ScreenSize
      <4>2. \A d : Place(n, m + 1, d) = z + d - t.from + 1
        BY <1>4, <4>1 DEF Place
      <4> HIDE DEF z
      <4> QED
        BY <1>9, <4>1, <4>2
    <3>2. DOMAIN s = 1 .. Len(s)
      OBVIOUS
    <3> QED
      BY <1>7, <1>8, <2>1, <3>1, <3>2
  <2>2. CASE k # m + 1
    <3>1. k \in 1 .. m
      BY <1>9, <2>2
    <3>2. t.screen[t.text[k]][c] = s[Place(t, k, c)]
      BY <1>1, <1>5, <1>8, <3>1 DEF Shows
    <3> QED
      BY <1>4, <1>5, <3>1, <3>2
  <2> QED
    BY <2>1, <2>2
<1> QED
  BY <1>4, <1>7, <1>8 DEF Shows, n

-----------------------------------------------------------------------------
(* What a terminal shows.  Underlines are only there when the cursor is.     *)

(* A character is shown behind the text, on the same row or the next.        *)
LEMMA TypedOK ==
    ASSUME NEW t, TermOK(t), t.marks = {}, NEW c \in Glyph, c \notin {NL, BS}
    PROVE  /\ TermOK(Putchar(t, c)) /\ Putchar(t, c).marks = {}
           /\ Putchar(t, c).from \in {t.from, Gone}
           /\ \A s \in Seq(Glyph) :
                 Shows(t, s) /\ Putchar(t, c).from # Gone => Shows(Putchar(t, c), Append(s, c))
<1> DEFINE u == [Drawn(t, c) EXCEPT !.x = @ + 1]
           m == Len(t.text)
<1>1. /\ t \in Terminals /\ t.x \in Columns /\ BlankBelow(t) /\ BlankBehind(t) /\ RowsInOrder(t)
      /\ t.text \in Seq(Rows) /\ t.text # <<>> /\ t.text[m] = t.y /\ InOrder(t.text)
      /\ t.from \in 0 .. Width - 2 /\ t.y \in Rows /\ t.y \in Int /\ t.x \in Nat
  BY ScreenSize DEF TermOK, Full, Terminals, RowsInOrder
<1>2. /\ u \in Terminals /\ u.x = t.x + 1 /\ u.y = t.y /\ u.text = t.text /\ u.from = t.from
      /\ u.marks = {}
      /\ \A r \in Rows, k \in Columns :
            u.screen[r][k] = IF r = t.y /\ k = t.x THEN c ELSE t.screen[r][k]
  <2> DEFINE d == Drawn(t, c)
  <2>1. /\ d \in Terminals /\ d.x = t.x /\ d.y = t.y /\ d.text = t.text /\ d.from = t.from
        /\ d.marks \subseteq t.marks
        /\ \A r \in Rows, k \in Columns :
              d.screen[r][k] = IF r = t.y /\ k = t.x THEN c ELSE t.screen[r][k]
    BY <1>1, DrawnIs
  <2> HIDE DEF d
  <2>2. d.x + 1 \in Nat /\ u = [d EXCEPT !.x = d.x + 1]
    BY <1>1, <2>1 DEF d
  <2> HIDE DEF u
  <2>3. /\ u \in Terminals /\ u.x = d.x + 1 /\ u.y = d.y /\ u.screen = d.screen
        /\ u.marks = d.marks /\ u.text = d.text /\ u.from = d.from
    BY <2>1, <2>2, MovedTo
  <2> QED
    BY <2>1, <2>3
<1> HIDE DEF u
<1>3. Full(u) /\ (u.x \in Columns => BlankBehind(u))
  <2>1. BlankBelow(u)
    <3> SUFFICES ASSUME NEW r \in Rows, NEW k \in Columns, r > t.y
                 PROVE  u.screen[r][k] = Blank
      BY <1>2 DEF BlankBelow
    <3>1. t.screen[r][k] = Blank /\ r # t.y
      BY <1>1, ScreenSize DEF BlankBelow
    <3> QED
      BY <1>2, <3>1
  <2>2. RowsInOrder(u)
    BY <1>1, <1>2 DEF RowsInOrder
  <2>3. BlankBehind(u)
    <3> SUFFICES ASSUME NEW k \in Columns, k >= t.x + 1 PROVE u.screen[t.y][k] = Blank
      BY <1>2 DEF BlankBehind
    <3>1. k # t.x /\ k >= t.x
      BY <1>1, ScreenSize
    <3> QED
      BY <1>1, <1>2, <3>1 DEF BlankBehind
  <2> QED
    BY <1>2, <2>1, <2>2, <2>3 DEF Full
<1>5. ASSUME NEW s \in Seq(Glyph), Shows(t, s) PROVE Shows(u, Append(s, c))
  <2> DEFINE a == Append(s, c)
  <2>1. m \in Nat \ {0} /\ DOMAIN t.text = 1 .. m
    BY <1>1
  <2>2. \A k, d : Place(u, k, d) = Place(t, k, d)
    BY <1>2 DEF Place
  <2>3. Place(t, m, t.x) \in Int /\ Place(t, m, t.x + 1) = Place(t, m, t.x) + 1
    <3>1. t.x + 1 \in Int /\ t.x \in Int /\ (t.x + 1) - t.x = 1
      BY <1>1
    <3>2. m \in Nat
      BY <2>1
    <3> HIDE DEF m
    <3>3. /\ Place(t, m, 0) \in Int
          /\ Place(t, m, t.x + 1) = Place(t, m, 0) + (t.x + 1)
          /\ Place(t, m, t.x) = Place(t, m, 0) + t.x
      BY <1>1, <3>1, <3>2, PlaceInRow
    <3> QED
      BY <3>1, <3>3
  <2>4. Len(s) = Place(t, m, t.x) - 1
    BY <1>5 DEF Shows
  <2>5. /\ Len(a) = Len(s) + 1 /\ DOMAIN a = 1 .. Len(s) + 1 /\ DOMAIN s = 1 .. Len(s) /\ Len(s) \in Nat
        /\ a[Len(s) + 1] = c /\ \A i \in 1 .. Len(s) : a[i] = s[i]
    BY AppendProperties
  <2> HIDE DEF a, m
  <2>6. ASSUME NEW k \in 1 .. m, NEW d \in Columns, Place(t, k, d) \in DOMAIN a
        PROVE  u.screen[t.text[k]][d] = a[Place(t, k, d)]
    <3>1. t.text[k] \in Rows /\ t.text[k] <= t.y
      BY <1>1, <2>1, LastIsGreatest DEF m
    <3>2. CASE k = m /\ d = t.x
      <4>1. u.screen[t.text[k]][d] = c /\ Place(t, k, d) = Len(s) + 1
        BY <1>1, <1>2, <2>3, <2>4, <3>2
      <4> QED
        BY <2>5, <4>1
    <3>3. CASE k = m /\ d # t.x
      <4>1. Place(t, k, d) # Len(s) + 1
        <5>1. d \in Int /\ t.x \in Int /\ d - t.x # 0
          BY <1>1, <3>3, ScreenSize
        <5>2. /\ Place(t, m, d) = Place(t, m, 0) + d /\ Place(t, m, t.x) = Place(t, m, 0) + t.x
              /\ Place(t, m, 0) \in Int
          BY <1>1, <2>1, <5>1, PlaceInRow
        <5> DEFINE p == Place(t, m, d)   o == Place(t, m, 0)   q == Place(t, m, t.x)
        <5>3. p = o + d /\ q = o + t.x /\ o \in Int /\ Len(s) = q - 1
          BY <2>4, <5>2
        <5> HIDE DEF p, o, q
        <5>4. p # Len(s) + 1
          BY <5>1, <5>3
        <5> QED
          BY <3>3, <5>4 DEF p
      <4> QED
        <5>1. Place(t, k, d) \in DOMAIN s /\ a[Place(t, k, d)] = s[Place(t, k, d)]
          BY <2>5, <2>6, <4>1
        <5>2. t.screen[t.text[k]][d] = s[Place(t, k, d)]
          BY <1>5, <2>1, <2>6, <5>1 DEF Shows
        <5>3. u.screen[t.text[k]][d] = t.screen[t.text[k]][d]
          BY <1>2, <3>1, <3>3
        <5> QED
          BY <5>1, <5>2, <5>3
    <3>4. CASE k # m
      <4>1. t.text[k] + 2 <= t.y /\ k < m /\ k \in Nat
        <5>1. k < m /\ k \in Nat /\ k \in DOMAIN t.text /\ m \in DOMAIN t.text
          BY <2>1, <3>4
        <5>2. t.text[k] + 2 <= t.text[m]
          BY <1>1, <5>1 DEF InOrder
        <5> QED
          BY <1>1, <5>1, <5>2 DEF m
      <4>2. Place(t, k, d) < Place(t, m, t.x) /\ Place(t, k, d) \in Int
        <5>1. m \in Nat /\ t.x >= 1 /\ t.x \in Nat
          BY <1>1, <2>1, ScreenSize
        <5> QED
          BY <1>1, <4>1, <5>1, PlaceOrder
      <4>3. t.text[k] # t.y /\ Place(t, k, d) # Len(s) + 1
        <5>1. t.text[k] \in Int
          BY <3>1, ScreenSize
        <5>2. t.text[k] # t.y
          BY <1>1, <4>1, <5>1
        <5> DEFINE p == Place(t, k, d)   q == Place(t, m, t.x)
        <5>3. p < q /\ p \in Int /\ q \in Int /\ Len(s) = q - 1
          BY <2>3, <2>4, <4>2
        <5> HIDE DEF p, q
        <5>4. p # Len(s) + 1
          BY <5>3
        <5> QED
          BY <5>2, <5>4 DEF p
      <4> QED
        BY <1>2, <1>5, <2>1, <2>5, <2>6, <3>1, <4>3 DEF Shows
    <3> QED
      BY <3>2, <3>3, <3>4
  <2>7. Len(a) = Place(u, m, u.x) - 1
    BY <1>2, <2>2, <2>3, <2>4, <2>5
  <2> QED
    BY <1>2, <2>1, <2>2, <2>6, <2>7 DEF Shows, m, a
<1>6. CASE u.x >= Width - 1
  <2>0. u.x = Width - 1
    BY <1>1, <1>2, <1>6, ScreenSize
  <2>1. u.x = Width - 1 /\ Putchar(t, c) = NewRow(u)
    BY <1>6, <2>0 DEF Putchar, Typed, u
  <2>2. TermOK(NewRow(u)) /\ NewRow(u).marks = {}
    BY <1>2, <1>3, NewRowOK
  <2>3. NewRow(u).from \in {t.from, Gone}
    BY <1>2, <1>3, NewRowFrom
  <2>4. ASSUME NEW s \in Seq(Glyph), Shows(t, s), NewRow(u).from # Gone
        PROVE  Shows(NewRow(u), Append(s, c))
    <3>1. Append(s, c) \in Seq(Glyph)
      OBVIOUS
    <3> QED
      BY <1>3, <1>5, <2>1, <2>4, <3>1, NewRowShows
  <2> QED
    BY <2>1, <2>2, <2>3, <2>4
<1>7. CASE ~(u.x >= Width - 1)
  <2>0. u.x \in Columns
    BY <1>1, <1>2, <1>7, ScreenSize
  <2>1. u.x \in Columns /\ Putchar(t, c) = u
    BY <1>7, <2>0 DEF Putchar, Typed, u
  <2>2. TermOK(u)
    BY <1>3, <2>0 DEF TermOK
  <2> QED
    BY <1>2, <1>5, <2>1, <2>2
<1> QED
  BY <1>6, <1>7

(* An erasure takes the last character off, on the row of the cursor.        *)
LEMMA BackedOK ==
    ASSUME NEW t, TermOK(t), t.marks = {}, t.x >= 2
    PROVE  /\ TermOK(Backed(t)) /\ Backed(t).marks = {} /\ Backed(t).from = t.from
           /\ Backed(t).x = t.x - 1
           /\ \A s \in Seq(Glyph) :
                 Shows(t, s) /\ s # <<>> => Shows(Backed(t), SubSeq(s, 1, Len(s) - 1))
<1> DEFINE u == [t EXCEPT !.x = @ - 1]
           x == t.x - 1
           n == Backed(t)
           m == Len(t.text)
<1>1. /\ t \in Terminals /\ t.x \in Columns /\ BlankBelow(t) /\ BlankBehind(t) /\ RowsInOrder(t)
      /\ t.text \in Seq(Rows) /\ t.text # <<>> /\ t.text[m] = t.y /\ InOrder(t.text)
      /\ t.from \in 0 .. Width - 2 /\ t.y \in Rows /\ t.y \in Int /\ t.x \in Nat
  BY ScreenSize DEF TermOK, Full, Terminals, RowsInOrder
<1>2. x \in Columns /\ x \in Nat
  BY <1>1, ScreenSize
<1>3. u = [t EXCEPT !.x = x]
  OBVIOUS
<1>4. n = Drawn(u, Blank)
  BY DEF Backed
<1> HIDE DEF x, u, n
<1>5. /\ u \in Terminals /\ u.x = x /\ u.y = t.y /\ u.screen = t.screen
      /\ u.marks = t.marks /\ u.text = t.text /\ u.from = t.from
  BY <1>1, <1>2, <1>3, MovedTo
<1>6. /\ n \in Terminals /\ n.x = x /\ n.y = t.y /\ n.text = t.text /\ n.from = t.from
      /\ n.marks = {}
      /\ \A r \in Rows, k \in Columns :
            n.screen[r][k] = IF r = t.y /\ k = x THEN Blank ELSE t.screen[r][k]
  <2>1. Blank \in Glyph /\ u.x \in Columns
    BY <1>2, <1>5, ScreenSize
  <2>2. /\ n \in Terminals /\ n.x = u.x /\ n.y = u.y /\ n.text = u.text /\ n.from = u.from
        /\ n.marks \subseteq u.marks
        /\ \A r \in Rows, k \in Columns :
              n.screen[r][k] = IF r = u.y /\ k = u.x THEN Blank ELSE u.screen[r][k]
    BY <1>4, <1>5, <2>1, DrawnIs
  <2> QED
    BY <1>5, <2>2
<1>7. TermOK(n)
  <2>1. BlankBelow(n)
    BY <1>1, <1>6, ScreenSize DEF BlankBelow
  <2>2. BlankBehind(n)
    <3> SUFFICES ASSUME NEW k \in Columns, k >= x PROVE n.screen[t.y][k] = Blank
      BY <1>6 DEF BlankBehind
    <3>1. k = x \/ k >= t.x
      BY <1>1, ScreenSize DEF x
    <3> QED
      BY <1>1, <1>6, <3>1 DEF BlankBehind
  <2>3. RowsInOrder(n)
    BY <1>1, <1>6 DEF RowsInOrder
  <2> QED
    BY <1>2, <1>6, <2>1, <2>2, <2>3 DEF TermOK, Full
<1>8. ASSUME NEW s \in Seq(Glyph), Shows(t, s), s # <<>>
      PROVE  Shows(n, SubSeq(s, 1, Len(s) - 1))
  <2> DEFINE a == SubSeq(s, 1, Len(s) - 1)
  <2>1. m \in Nat \ {0} /\ DOMAIN t.text = 1 .. m
    BY <1>1
  <2>2. \A k, d : Place(n, k, d) = Place(t, k, d)
    BY <1>6 DEF Place
  <2>3. /\ Len(s) \in Nat \ {0} /\ DOMAIN s = 1 .. Len(s)
        /\ Len(a) = Len(s) - 1 /\ DOMAIN a = 1 .. Len(s) - 1
        /\ \A i \in 1 .. Len(s) - 1 : a[i] = s[i]
    <3>1. Len(s) \in Nat \ {0} /\ DOMAIN s = 1 .. Len(s)
      BY <1>8
    <3>2. 1 \in 1 .. Len(s) + 1 /\ Len(s) - 1 \in 0 .. Len(s) /\ (Len(s) - 1) - 1 + 1 = Len(s) - 1
      BY <3>1
    <3> QED
      BY <3>1, <3>2, SubSeqProperties
  <2> HIDE DEF a, m
  <2>4. Place(t, m, x) = Place(t, m, t.x) - 1 /\ Place(t, m, t.x) \in Int /\ Place(t, m, x) \in Int
    <3>1. t.x \in Int /\ x \in Int /\ x - t.x = -1 /\ m \in Nat
      BY <1>1, <2>1 DEF x
    <3>2. /\ Place(t, m, 0) \in Int
          /\ Place(t, m, x) = Place(t, m, 0) + x
          /\ Place(t, m, t.x) = Place(t, m, 0) + t.x
      BY <1>1, <3>1, PlaceInRow
    <3> QED
      BY <3>1, <3>2
  <2>5. Len(s) = Place(t, m, t.x) - 1
    BY <1>8 DEF Shows, m
  <2>6. Len(a) = Place(n, m, n.x) - 1
    BY <1>6, <2>2, <2>3, <2>4, <2>5
  <2>7. ASSUME NEW k \in 1 .. m, NEW d \in Columns, Place(t, k, d) \in DOMAIN a
        PROVE  n.screen[t.text[k]][d] = a[Place(t, k, d)]
    <3>1. t.text[k] \in Rows
      BY <1>1, <2>1 DEF m
    <3>2. Place(t, k, d) \in DOMAIN s /\ Place(t, k, d) < Place(t, m, x)
      BY <2>3, <2>4, <2>5, <2>7
    <3>3. ~(t.text[k] = t.y /\ d = x)
      <4>1. CASE k = m
        BY <3>2, <4>1, <2>4
      <4>2. CASE k # m
        <5>1. k < m /\ k \in DOMAIN t.text /\ m \in DOMAIN t.text
          BY <2>1, <4>2
        <5>2. t.text[k] + 2 <= t.y
          BY <1>1, <5>1 DEF InOrder, m
        <5> QED
          BY <1>1, <3>1, <5>2, ScreenSize
      <4> QED
        BY <4>1, <4>2
    <3>4. t.screen[t.text[k]][d] = s[Place(t, k, d)]
      BY <1>8, <2>1, <3>2 DEF Shows
    <3> QED
      BY <1>6, <2>3, <2>7, <3>1, <3>3, <3>4
  <2> QED
    BY <1>6, <2>1, <2>2, <2>6, <2>7 DEF Shows, m, a
<1> QED
  BY <1>6, <1>7, <1>8 DEF n, x

(* Whatever is printed, the terminal stays in order.                         *)
LEMMA PutcharOK ==
    ASSUME NEW t, TermOK(t), t.marks = {}, NEW c \in Glyph
    PROVE  /\ TermOK(Putchar(t, c)) /\ Putchar(t, c).marks = {}
           /\ t.from = Gone => Putchar(t, c).from = Gone
<1>1. CASE c = NL
  <2>1. Putchar(t, c) = NewRow(t) /\ Full(t)
    BY <1>1 DEF Putchar, TermOK
  <2>2. NewRow(t).from \in {t.from, Gone}
    BY <2>1, NewRowFrom
  <2> QED
    BY <2>1, <2>2, NewRowOK
<1>2. CASE c = BS
  <2>1. Putchar(t, c) = Backed(t)
    BY <1>2 DEF Putchar, NL, BS
  <2>2. CASE t.x >= 2
    BY <2>1, <2>2, BackedOK
  <2>3. CASE ~(t.x >= 2)
    BY <2>1, <2>3 DEF Backed
  <2> QED
    BY <2>2, <2>3
<1>3. CASE c \notin {NL, BS}
  BY <1>3, TypedOK
<1> QED
  BY <1>1, <1>2, <1>3

-----------------------------------------------------------------------------
(* Printing.                                                                 *)

(* F lists the terminal after the first i of n characters.                   *)
PrintedUpTo(F, t, s, n) ==
    F = [i \in 0 .. n |-> IF i = 0 THEN t ELSE Putchar(F[i - 1], s[i])]

(* There is such a list.                                                     *)
LEMMA PrintedExists ==
    ASSUME NEW t, NEW s, NEW n \in Nat
    PROVE  \E F : PrintedUpTo(F, t, s, n)
<1> DEFINE S == {i \in 0 .. n : \E F : PrintedUpTo(F, t, s, i)}
<1>1. 0 \in S
  <2> DEFINE F == [i \in 0 .. 0 |-> t]
  <2>1. F = [i \in 0 .. 0 |-> IF i = 0 THEN t ELSE Putchar(F[i - 1], s[i])]
    OBVIOUS
  <2>2. PrintedUpTo(F, t, s, 0)
    BY <2>1 DEF PrintedUpTo
  <2> QED
    BY <2>2
<1>2. ASSUME NEW k \in 0 .. n - 1, k \in S PROVE k + 1 \in S
  <2>1. PICK G : PrintedUpTo(G, t, s, k)
    BY <1>2
  <2> DEFINE last == Putchar(G[k], s[k + 1])
             F == [i \in 0 .. k + 1 |-> IF i = k + 1 THEN last ELSE G[i]]
  <2>2. \A i \in 0 .. k : G[i] = IF i = 0 THEN t ELSE Putchar(G[i - 1], s[i])
    BY <2>1 DEF PrintedUpTo
  <2>3. ASSUME NEW i \in 0 .. k + 1
        PROVE  F[i] = IF i = 0 THEN t ELSE Putchar(F[i - 1], s[i])
    <3>1. CASE i = k + 1
      <4>1. i # 0 /\ i - 1 \in 0 .. k + 1 /\ i - 1 # k + 1 /\ i - 1 = k
        BY <3>1
      <4> QED
        BY <3>1, <4>1
    <3>2. CASE i # k + 1
      <4>1. i \in 0 .. k /\ (i # 0 => i - 1 \in 0 .. k + 1 /\ i - 1 # k + 1)
        BY <3>2
      <4>2. F[i] = G[i] /\ (i # 0 => F[i - 1] = G[i - 1])
        BY <3>2, <4>1
      <4> HIDE DEF F
      <4> QED
        BY <2>2, <4>1, <4>2
    <3> QED
      BY <3>1, <3>2
  <2>4. PrintedUpTo(F, t, s, k + 1)
    <3> DEFINE H(x) == [i \in 0 .. k + 1 |-> IF i = 0 THEN t ELSE Putchar(x[i - 1], s[i])]
    <3>1. F = H(F)
      BY <2>3
    <3> HIDE DEF F
    <3> QED
      BY <3>1 DEF PrintedUpTo
  <2>5. k + 1 \in 0 .. n
    OBVIOUS
  <2> QED
    BY <2>4, <2>5
<1> HIDE DEF S
<1>3. \A i \in 0 .. n : i \in S
  BY <1>1, <1>2, UpTo
<1> QED
  BY <1>3 DEF S

(* Printing goes character by character.                                     *)
LEMMA PrintedIs ==
    ASSUME NEW t, NEW s, Len(s) \in Nat
    PROVE  \E F : /\ F[0] = t /\ Printed(t, s) = F[Len(s)]
                  /\ \A i \in 0 .. Len(s) - 1 : F[i + 1] = Putchar(F[i], s[i + 1])
<1> DEFINE n == Len(s)
           F == CHOOSE f : PrintedUpTo(f, t, s, n)
<1>1. Printed(t, s) = F[n]
  BY DEF Printed, PrintedUpTo
<1>2. PrintedUpTo(F, t, s, n)
  BY PrintedExists
<1> HIDE DEF F, n
<1>3. n \in Nat
  BY DEF n
<1>4. \A i \in 0 .. n : F[i] = IF i = 0 THEN t ELSE Putchar(F[i - 1], s[i])
  BY <1>2 DEF PrintedUpTo
<1>5. F[0] = t
  BY <1>3, <1>4
<1>6. ASSUME NEW i \in 0 .. n - 1 PROVE F[i + 1] = Putchar(F[i], s[i + 1])
  <2>1. i + 1 \in 0 .. n /\ i + 1 # 0 /\ (i + 1) - 1 = i
    BY <1>3
  <2> QED
    BY <1>4, <2>1
<1> QED
  BY <1>1, <1>5, <1>6 DEF n

(* Whatever is printed, the terminal stays in order.                         *)
LEMMA PrintedOK ==
    ASSUME NEW t, TermOK(t), t.marks = {}, NEW s \in Seq(Glyph)
    PROVE  /\ TermOK(Printed(t, s)) /\ Printed(t, s).marks = {}
           /\ t.from = Gone => Printed(t, s).from = Gone
<1> DEFINE n == Len(s)
<1>1. n \in Nat /\ \A i \in 0 .. n - 1 : s[i + 1] \in Glyph
  OBVIOUS
<1>2. PICK F : /\ F[0] = t /\ Printed(t, s) = F[n]
               /\ \A i \in 0 .. n - 1 : F[i + 1] = Putchar(F[i], s[i + 1])
  BY <1>1, PrintedIs
<1> DEFINE S == {i \in 0 .. n : /\ TermOK(F[i]) /\ F[i].marks = {}
                                /\ t.from = Gone => F[i].from = Gone}
<1> HIDE DEF n
<1>3. 0 \in S
  BY <1>1, <1>2
<1>4. ASSUME NEW i \in 0 .. n - 1, i \in S PROVE i + 1 \in S
  <2>1. i + 1 \in 0 .. n /\ F[i + 1] = Putchar(F[i], s[i + 1])
    BY <1>1, <1>2
  <2>2. /\ TermOK(Putchar(F[i], s[i + 1])) /\ Putchar(F[i], s[i + 1]).marks = {}
        /\ F[i].from = Gone => Putchar(F[i], s[i + 1]).from = Gone
    BY <1>1, <1>4, PutcharOK
  <2> QED
    BY <1>4, <2>1, <2>2
<1> HIDE DEF S
<1>5. \A i \in 0 .. n : i \in S
  BY <1>1, <1>3, <1>4, UpTo
<1>6. n \in S
  BY <1>1, <1>5
<1> QED
  BY <1>2, <1>6 DEF S

Good(t, s) == TermOK(t) /\ t.marks = {} /\ (t.from # Gone => Shows(t, s))

(* A text without new lines is shown behind what stands there.               *)
LEMMA PrintedGood ==
    ASSUME NEW t, NEW a \in Seq(Glyph), Good(t, a),
           NEW s \in Seq(Glyph), \A k \in DOMAIN s : s[k] \notin {NL, BS}
    PROVE  Good(Printed(t, s), a \o s)
<1> DEFINE n == Len(s)
           m == Len(a)
           Joined(i) == [k \in 1 .. m + i |-> IF k <= m THEN a[k] ELSE s[k - m]]
<1>1. n \in Nat /\ m \in Nat /\ \A i \in 0 .. n - 1 : s[i + 1] \in Glyph \ {NL, BS}
  OBVIOUS
<1>2. PICK F : /\ F[0] = t /\ Printed(t, s) = F[n]
               /\ \A i \in 0 .. n - 1 : F[i + 1] = Putchar(F[i], s[i + 1])
  BY <1>1, PrintedIs
<1>3. Joined(0) = a
  <2>1. a = [k \in 1 .. m |-> a[k]] /\ m + 0 = m
    OBVIOUS
  <2>2. \A k \in 1 .. m : k <= m
    OBVIOUS
  <2> QED
    BY <2>1, <2>2
<1>5. ASSUME NEW i \in 0 .. n
      PROVE  Joined(i) \in Seq(Glyph) /\ Len(Joined(i)) = m + i
  <2>1. ASSUME NEW k \in 1 .. m + i PROVE Joined(i)[k] \in Glyph
    <3>1. CASE k <= m
      BY <3>1
    <3>2. CASE ~(k <= m)
      <4>1. k - m \in 1 .. n
        BY <1>1, <3>2
      <4> QED
        BY <3>2, <4>1
    <3> QED
      BY <3>1, <3>2
  <2>2. m + i \in Nat /\ Joined(i) \in [1 .. m + i -> Glyph]
    BY <1>1, <2>1
  <2> HIDE DEF Joined, m
  <2> QED
    BY <2>2, SeqOf
<1>6. ASSUME NEW i \in 0 .. n - 1
      PROVE  Append(Joined(i), s[i + 1]) = Joined(i + 1)
  <2> HIDE DEF Joined
  <2>1. i \in 0 .. n /\ i + 1 \in 0 .. n /\ s[i + 1] \in Glyph /\ m + i \in Nat
    BY <1>1
  <2> DEFINE j == Joined(i)
             c == s[i + 1]
  <2>5. j \in Seq(Glyph) /\ c \in Glyph /\ Len(j) = m + i
    BY <1>5, <2>1
  <2> HIDE DEF j, c, m, n
  <2>7. /\ Append(j, c) \in Seq(Glyph) /\ Len(Append(j, c)) = Len(j) + 1
        /\ \A k \in 1 .. Len(j) : Append(j, c)[k] = j[k]
        /\ Append(j, c)[Len(j) + 1] = c
    BY <2>5, AppendProperties
  <2>6. /\ Append(j, c) \in Seq(Glyph) /\ Len(Append(j, c)) = (m + i) + 1
        /\ \A k \in 1 .. m + i : Append(j, c)[k] = j[k]
        /\ Append(j, c)[(m + i) + 1] = c
    BY <2>5, <2>7
  <2>2. /\ Append(Joined(i), s[i + 1]) \in Seq(Glyph)
        /\ Len(Append(Joined(i), s[i + 1])) = (m + i) + 1
        /\ \A k \in 1 .. m + i : Append(Joined(i), s[i + 1])[k] = Joined(i)[k]
        /\ Append(Joined(i), s[i + 1])[(m + i) + 1] = s[i + 1]
    BY <2>6 DEF j, c
  <2>3. Joined(i + 1) \in Seq(Glyph) /\ Len(Joined(i + 1)) = (m + i) + 1
    BY <1>1, <1>5, <2>1
  <2>4. ASSUME NEW k \in 1 .. (m + i) + 1
        PROVE  Append(Joined(i), s[i + 1])[k] = Joined(i + 1)[k]
    <3>1. CASE k = (m + i) + 1
      <4>1. Joined(i + 1)[k] = s[i + 1]
        BY <1>1, <3>1 DEF Joined
      <4> QED
        BY <2>2, <3>1, <4>1
    <3>2. CASE k # (m + i) + 1
      <4>1. k \in 1 .. m + i
        BY <1>1, <3>2
      <4>2. Joined(i + 1)[k] = Joined(i)[k]
        BY <1>1, <4>1 DEF Joined
      <4> QED
        BY <2>2, <4>1, <4>2
    <3> QED
      BY <3>1, <3>2
  <2> QED
    BY <2>2, <2>3, <2>4, SeqEqual
<1>4. Joined(n) = a \o s
  <2>1. /\ a \o s \in Seq(Glyph) /\ Len(a \o s) = m + n
        /\ \A k \in 1 .. m + n : (a \o s)[k] = IF k <= m THEN a[k] ELSE s[k - m]
    BY ConcatProperties
  <2>2. n \in 0 .. n
    BY <1>1
  <2>3. \A k \in 1 .. m + n : Joined(n)[k] = IF k <= m THEN a[k] ELSE s[k - m]
    OBVIOUS
  <2>4. Joined(n) \in Seq(Glyph) /\ Len(Joined(n)) = m + n
    BY <1>5, <2>2
  <2>5. \A k \in 1 .. m + n : Joined(n)[k] = (a \o s)[k]
    BY <2>1, <2>3
  <2> DEFINE p == Joined(n)   q == a \o s
  <2>6. p \in Seq(Glyph) /\ q \in Seq(Glyph) /\ Len(p) = Len(q) /\ \A k \in 1 .. Len(p) : p[k] = q[k]
    BY <2>1, <2>4, <2>5
  <2> HIDE DEF p, q
  <2>7. p = q
    BY <2>6, SeqEqual
  <2> QED
    BY <2>7 DEF p, q
<1> DEFINE S == {i \in 0 .. n : Good(F[i], Joined(i))}
<1> HIDE DEF n, Joined
<1>7. 0 \in S
  BY <1>1, <1>2, <1>3
<1>8. ASSUME NEW i \in 0 .. n - 1, i \in S PROVE i + 1 \in S
  <2>1. i + 1 \in 0 .. n /\ F[i + 1] = Putchar(F[i], s[i + 1]) /\ Joined(i) \in Seq(Glyph)
    BY <1>1, <1>2, <1>5
  <2>2. TermOK(F[i]) /\ F[i].marks = {} /\ (F[i].from # Gone => Shows(F[i], Joined(i)))
    BY <1>8 DEF Good
  <2> DEFINE u == F[i]
             c == s[i + 1]
             p == Putchar(u, c)
  <2>3. /\ TermOK(p) /\ p.marks = {} /\ p.from \in {u.from, Gone}
        /\ \A q \in Seq(Glyph) : Shows(u, q) /\ p.from # Gone => Shows(p, Append(q, c))
    <3>1. c \in Glyph /\ c \notin {NL, BS}
      BY <1>1
    <3> HIDE DEF c, u
    <3> QED
      BY <2>2, <3>1, TypedOK DEF u
  <2> HIDE DEF u, p
  <2>4. p.from # Gone => Shows(p, Append(Joined(i), c))
    BY <2>1, <2>2, <2>3 DEF u
  <2>5. Good(F[i + 1], Joined(i + 1))
    BY <1>6, <2>1, <2>3, <2>4 DEF Good, u, p
  <2> QED
    BY <2>1, <2>5
<1> HIDE DEF S
<1>9. \A i \in 0 .. n : i \in S
  BY <1>1, <1>7, <1>8, UpTo
<1>10. n \in S
  BY <1>1, <1>9
<1> QED
  BY <1>2, <1>4, <1>10 DEF S

(* Erasing what lies on the row of the cursor leaves the text before it.     *)
LEMMA ErasedGood ==
    ASSUME NEW t, NEW a \in Seq(Glyph), Good(t, a), NEW n \in Nat, n < t.x, n <= Len(a)
    PROVE  Good(Erased(t, n), SubSeq(a, 1, Len(a) - n))
<1> DEFINE s == [k \in 1 .. n |-> BS]
           m == Len(a)
           Left(i) == SubSeq(a, 1, m - i)
<1>1. /\ Len(s) = n /\ m \in Nat /\ t.x \in Nat /\ \A i \in 0 .. n - 1 : s[i + 1] = BS
      /\ s \in Seq(Glyph)
  BY ScreenSize DEF Good, TermOK, Full, Terminals
<1>2. PICK F : /\ F[0] = t /\ Printed(t, s) = F[n]
               /\ \A i \in 0 .. n - 1 : F[i + 1] = Putchar(F[i], s[i + 1])
  <2> HIDE DEF s
  <2>1. \E F : /\ F[0] = t /\ Printed(t, s) = F[Len(s)]
               /\ \A i \in 0 .. Len(s) - 1 : F[i + 1] = Putchar(F[i], s[i + 1])
    <3>1. Len(s) \in Nat
      BY <1>1
    <3> QED
      BY <3>1, PrintedIs
  <2> QED
    BY <1>1, <2>1
<1>3. \A i \in 0 .. n - 1 : F[i + 1] = Putchar(F[i], BS)
  BY <1>1, <1>2
<1>4. ASSUME NEW i \in 0 .. n
      PROVE  /\ Left(i) \in Seq(Glyph) /\ Len(Left(i)) = m - i
             /\ \A k \in 1 .. m - i : Left(i)[k] = a[k]
  <2>1. 1 \in 1 .. Len(a) + 1 /\ m - i \in 0 .. Len(a) /\ (m - i) - 1 + 1 = m - i
    BY <1>1
  <2> DEFINE l == m - i
  <2>2. l \in 0 .. Len(a) /\ l - 1 + 1 = l
    BY <2>1
  <2> HIDE DEF l
  <2>3. /\ SubSeq(a, 1, l) \in Seq(Glyph) /\ Len(SubSeq(a, 1, l)) = l
        /\ \A k \in 1 .. l : SubSeq(a, 1, l)[k] = a[k]
    BY <2>1, <2>2, SubSeqProperties
  <2> QED
    BY <2>3 DEF l
<1>5. Left(0) = a
  <2> DEFINE p == Left(0)
  <2>1. p \in Seq(Glyph) /\ Len(p) = Len(a) /\ \A k \in 1 .. Len(p) : p[k] = a[k]
    BY <1>1, <1>4
  <2> HIDE DEF p
  <2>2. p = a
    BY <2>1, SeqEqual
  <2> QED
    BY <2>2 DEF p
<1>6. ASSUME NEW i \in 0 .. n - 1
      PROVE  SubSeq(Left(i), 1, Len(Left(i)) - 1) = Left(i + 1)
  <2> DEFINE p == Left(i)   q == Left(i + 1)
  <2>1. /\ p \in Seq(Glyph) /\ Len(p) = m - i /\ \A k \in 1 .. m - i : p[k] = a[k]
        /\ q \in Seq(Glyph) /\ Len(q) = (m - i) - 1 /\ \A k \in 1 .. (m - i) - 1 : q[k] = a[k]
    <3>1. i \in 0 .. n /\ i + 1 \in 0 .. n /\ m - (i + 1) = (m - i) - 1
      BY <1>1
    <3> QED
      BY <1>4, <3>1
  <2>2. m - i \in Nat \ {0}
    BY <1>1
  <2> HIDE DEF p, q
  <2> DEFINE l == m - i
             r == SubSeq(p, 1, l - 1)
  <2> HIDE DEF l
  <2>3. l \in Nat \ {0} /\ Len(p) = l /\ 1 \in 1 .. l + 1 /\ l - 1 \in 0 .. l /\ (l - 1) - 1 + 1 = l - 1
    BY <2>1, <2>2 DEF l
  <2>4. r \in Seq(Glyph) /\ Len(r) = l - 1 /\ \A k \in 1 .. l - 1 : r[k] = p[k]
    BY <2>1, <2>3, SubSeqProperties
  <2> HIDE DEF r
  <2>5. Len(r) = Len(q) /\ \A k \in 1 .. Len(r) : r[k] = q[k]
    BY <2>1, <2>3, <2>4 DEF l
  <2>6. r = q
    BY <2>1, <2>4, <2>5, SeqEqual
  <2> QED
    BY <2>3, <2>6 DEF p, q, r
<1> DEFINE S == {i \in 0 .. n : Good(F[i], Left(i)) /\ F[i].x = t.x - i}
<1> HIDE DEF s, Left
<1>7. 0 \in S
  BY <1>1, <1>2, <1>5
<1>8. ASSUME NEW i \in 0 .. n - 1, i \in S PROVE i + 1 \in S
  <2> DEFINE u == F[i]
             p == Left(i)
             q == Left(i + 1)
  <2>1. i + 1 \in 0 .. n /\ F[i + 1] = Putchar(u, BS) /\ p \in Seq(Glyph) /\ Len(p) = m - i
    BY <1>3, <1>4
  <2>2. TermOK(u) /\ u.marks = {} /\ (u.from # Gone => Shows(u, p)) /\ u.x = t.x - i
    BY <1>8 DEF Good
  <2>3. u.x >= 2 /\ p # <<>>
    BY <1>1, <2>1, <2>2
  <2>4. F[i + 1] = Backed(u)
    BY <2>1 DEF Putchar, NL, BS
  <2>5. q = SubSeq(p, 1, Len(p) - 1)
    BY <1>6
  <2> HIDE DEF u, p, q
  <2> DEFINE v == Backed(u)
  <2>6. /\ TermOK(v) /\ v.marks = {} /\ v.from = u.from /\ v.x = u.x - 1
        /\ Shows(u, p) => Shows(v, q)
    BY <2>1, <2>2, <2>3, <2>5, BackedOK
  <2> HIDE DEF v
  <2>7. v.x = t.x - (i + 1)
    <3>1. v.x = (t.x - i) - 1 /\ t.x \in Nat
      BY <1>1, <2>2, <2>6
    <3> QED
      BY <3>1
  <2>8. Good(v, q)
    BY <2>2, <2>6 DEF Good
  <2> QED
    BY <2>1, <2>4, <2>7, <2>8 DEF v, q
<1> HIDE DEF S
<1>9. \A i \in 0 .. n : i \in S
  BY <1>7, <1>8, UpTo
<1>10. n \in S
  BY <1>9
<1> QED
  BY <1>2, <1>10 DEF S, Left, Erased, s

-----------------------------------------------------------------------------
(* The editor on the terminal.                                               *)

Lines == {l \in Seq(Char) : Len(l) <= LineMax - 1}

(* The history is a ring with as many lines as were submitted, or as it has. *)
HistoryOK ==
    /\ history \in [0 .. HistMax - 1 -> Lines]
    /\ hist_head \in Nat
    /\ hist_count = IF hist_head < HistMax THEN hist_head ELSE HistMax
    /\ reading => hist_pos \in (hist_head - hist_count) .. hist_head

KeyboardInv ==
    /\ TermOK(term)
    /\ term.marks = IF reading /\ cursor_vis THEN {At(term)} ELSE {}
    /\ ScreenShowsLine
    /\ {reading, cursor_vis, torn} \subseteq BOOLEAN
    /\ buf \in Lines
    /\ reading => Len(buf) < LineMax - 1
    /\ HistoryOK

(* What can be typed is printed as it is.                                    *)
LEMMA CharFacts ==
    /\ Char \subseteq Glyph /\ NL \notin Char /\ BS \notin Char
    /\ Prompt \in Seq(Glyph) /\ \A k \in DOMAIN Prompt : Prompt[k] \notin {NL, BS}
    /\ \A l \in Lines : l \in Seq(Glyph) /\ \A k \in DOMAIN l : l[k] \notin {NL, BS}
    /\ \A o \in Outputs : o \in Seq(Glyph)
<1>1. Char \subseteq Glyph /\ STRING \subseteq Glyph /\ NL \notin Char /\ BS \notin Char
  BY DEF Glyph, Char
<1>2. Seq(Char) \subseteq Seq(Glyph) /\ Seq(STRING) \subseteq Seq(Glyph)
  BY <1>1, SeqMonotonic
<1>3. \A l \in Lines : \A k \in DOMAIN l : l[k] \in Char
  BY DEF Lines
<1> QED
  BY <1>1, <1>2, <1>3, KeyboardAssumption DEF Lines

(* The underline at the cursor, drawn or taken off.                          *)
LEMMA CursorDrawnIs ==
    ASSUME NEW t, TermOK(t), NEW visible \in BOOLEAN, NEW u, u = CursorDrawn(t, visible)
    PROVE  /\ TermOK(u) /\ At(u) = At(t) /\ u.x = t.x /\ u.from = t.from
           /\ u.screen = t.screen /\ u.text = t.text
           /\ u.marks = IF visible THEN t.marks \cup {At(t)} ELSE t.marks \ {At(t)}
           /\ \A s : Shows(u, s) <=> Shows(t, s)
<1> DEFINE marks == IF visible THEN t.marks \cup {At(t)} ELSE t.marks \ {At(t)}
<1>1. t \in Terminals /\ t.x \in Int /\ t.y \in Int
  BY ScreenSize DEF TermOK, Full, Terminals
<1>2. marks \in SUBSET (Int \X Int)
  BY <1>1 DEF Terminals, At
<1>3. u = [t EXCEPT !.marks = marks]
  BY <1>1 DEF CursorDrawn, Terminals
<1> HIDE DEF marks
<1>4. /\ u \in Terminals /\ u.x = t.x /\ u.y = t.y /\ u.screen = t.screen
      /\ u.marks = marks /\ u.text = t.text /\ u.from = t.from
  BY <1>1, <1>2, <1>3 DEF Terminals
<1>5. TermOK(u) /\ At(u) = At(t)
  BY <1>4 DEF TermOK, Full, BlankBelow, BlankBehind, RowsInOrder, At
<1>6. \A s : Shows(u, s) <=> Shows(t, s)
  BY <1>4 DEF Shows, Place
<1> QED
  BY <1>4, <1>5, <1>6 DEF marks

(* What a scan code leads to.                                                *)
StepOK(t, line, w) ==
    /\ TermOK(t) /\ t.marks = {}
    /\ ~w /\ t.from # Gone => Shows(t, Prompt \o line)
    /\ line \in Lines
    /\ w \in BOOLEAN

(* The history takes a line.                                                 *)
LEMMA HistAddOK ==
    ASSUME HistoryOK, NEW line \in Lines, HistAdd(line), reading' = FALSE
    PROVE  HistoryOK'
<1>1. HistMax \in Nat \ {0} /\ hist_head % HistMax \in 0 .. HistMax - 1
  BY KeyboardAssumption DEF HistoryOK
<1>2. CASE line = <<>>
  BY <1>2 DEF HistAdd, HistoryOK, statics
<1>3. CASE line # <<>>
  <2>1. /\ history' = [history EXCEPT ![hist_head % HistMax] = line]
        /\ hist_head' = hist_head + 1
        /\ hist_count' = IF hist_count < HistMax THEN hist_count + 1 ELSE hist_count
    BY <1>3 DEF HistAdd
  <2>2. history' \in [0 .. HistMax - 1 -> Lines]
    BY <1>1, <2>1 DEF HistoryOK
  <2>3. hist_head' \in Nat /\ hist_count' = IF hist_head' < HistMax THEN hist_head' ELSE HistMax
    BY <1>1, <2>1 DEF HistoryOK
  <2> QED
    BY <2>2, <2>3 DEF HistoryOK
<1> QED
  BY <1>2, <1>3

(* A line is returned.                                                       *)
LEMMA ReturnOK ==
    ASSUME KeyboardInv, NEW t, TermOK(t), t.marks = {}, NEW line \in Lines, Return(t, line),
           cursor_vis' \in BOOLEAN, torn' \in BOOLEAN
    PROVE  KeyboardInv'
<1>1. /\ reading' = FALSE /\ buf' = line /\ HistAdd(line) /\ term' = CursorDrawn(t, FALSE)
  BY DEF Return
<1>2. TermOK(term') /\ term'.marks = t.marks \ {At(t)} /\ t.marks = {}
  BY <1>1, CursorDrawnIs
<1>3. term'.marks = {}
  BY <1>2
<1>4. HistoryOK'
  BY <1>1, HistAddOK DEF KeyboardInv
<1>5. ScreenShowsLine'
  BY <1>1 DEF ScreenShowsLine
<1> QED
  BY <1>1, <1>2, <1>3, <1>4, <1>5 DEF KeyboardInv

(* The next scan code is waited for, or a full line returned.                *)
LEMMA NextCodeOK ==
    ASSUME KeyboardInv, NEW t, NEW line, StepOK(t, line, torn'), NextCode(t, line), reading,
           hist_pos' \in (hist_head - hist_count) .. hist_head
    PROVE  KeyboardInv'
<1> DEFINE u == CursorDrawn(t, TRUE)
<1>1. /\ TermOK(u) /\ u.from = t.from /\ At(u) = At(t)
      /\ u.marks = t.marks \cup {At(t)} /\ \A s : Shows(u, s) <=> Shows(t, s)
  BY CursorDrawnIs DEF StepOK
<1>2. u.marks = {At(u)}
  BY <1>1 DEF StepOK
<1> HIDE DEF u
<1>3. CASE Len(line) < LineMax - 1
  <2>1. /\ cursor_vis' = TRUE /\ buf' = line /\ term' = u /\ reading' = reading
        /\ history' = history /\ hist_head' = hist_head /\ hist_count' = hist_count
    BY <1>3 DEF NextCode, u
  <2>2. HistoryOK'
    BY <2>1 DEF HistoryOK, KeyboardInv
  <2>3. ScreenShowsLine'
    BY <1>1, <2>1 DEF ScreenShowsLine, StepOK
  <2> QED
    BY <1>1, <1>2, <1>3, <2>1, <2>2, <2>3 DEF KeyboardInv, StepOK
<1>4. CASE ~(Len(line) < LineMax - 1)
  <2>1. Return(u, line) /\ cursor_vis' = TRUE
    BY <1>4 DEF NextCode, u
  <2>2. /\ reading' = FALSE /\ buf' = line /\ HistAdd(line) /\ term' = CursorDrawn(u, FALSE)
    BY <2>1 DEF Return
  <2>3. TermOK(term') /\ term'.marks = u.marks \ {At(u)}
    BY <1>1, <2>2, CursorDrawnIs
  <2>4. term'.marks = {}
    BY <1>2, <2>3
  <2>5. HistoryOK'
    BY <2>2, HistAddOK DEF KeyboardInv, StepOK
  <2>6. ScreenShowsLine'
    BY <2>2 DEF ScreenShowsLine
  <2> QED
    BY <2>1, <2>2, <2>3, <2>4, <2>5, <2>6 DEF KeyboardInv, StepOK
<1> QED
  BY <1>3, <1>4

(* The terminal when a scan code has arrived.                                *)
LEMMA HiddenOK ==
    ASSUME KeyboardInv, reading
    PROVE  /\ StepOK(Hidden, buf, torn) /\ Hidden.x = term.x
           /\ torn \in BOOLEAN /\ Prompt \o buf \in Seq(Glyph)
           /\ Len(Prompt \o buf) = Len(Prompt) + Len(buf)
           /\ Len(buf) \in Nat /\ buf \in Seq(Glyph) /\ Len(Prompt) \in Nat
<1>1. /\ TermOK(Hidden) /\ Hidden.marks = term.marks \ {At(term)} /\ Hidden.x = term.x
      /\ Hidden.from = term.from /\ \A s : Shows(Hidden, s) <=> Shows(term, s)
  BY CursorDrawnIs DEF Hidden, KeyboardInv
<1>2. Hidden.marks = {}
  BY <1>1 DEF KeyboardInv
<1>3. buf \in Lines /\ buf \in Seq(Glyph) /\ Prompt \in Seq(Glyph)
  BY CharFacts DEF KeyboardInv
<1>4. StepOK(Hidden, buf, torn)
  BY <1>1, <1>2, <1>3 DEF StepOK, KeyboardInv, ScreenShowsLine
<1> QED
  BY <1>1, <1>3, <1>4, ConcatProperties DEF KeyboardInv

(* Erasing characters of the line, with the prompt and the rest left, unless *)
(* the left edge is met.                                                     *)
LEMMA EraseOK ==
    ASSUME KeyboardInv, reading, NEW n \in Nat, n <= Len(buf)
    PROVE  StepOK(Erased(Hidden, n), SubSeq(buf, 1, Len(buf) - n), torn \/ n >= term.x)
<1> DEFINE t == Hidden
           e == Erased(t, n)
           b == SubSeq(buf, 1, Len(buf) - n)
           a == Prompt \o buf
<1>1. /\ StepOK(t, buf, torn) /\ t.x = term.x /\ torn \in BOOLEAN /\ a \in Seq(Glyph)
      /\ Len(a) = Len(Prompt) + Len(buf) /\ Len(buf) \in Nat
  BY HiddenOK
<1>2. TermOK(e) /\ e.marks = {} /\ (t.from = Gone => e.from = Gone)
  <2> DEFINE s == [k \in 1 .. n |-> BS]
  <2>1. s \in Seq(Glyph)
    BY ScreenSize
  <2> HIDE DEF s
  <2>2. TermOK(Printed(t, s)) /\ Printed(t, s).marks = {} /\ (t.from = Gone => Printed(t, s).from = Gone)
    BY <1>1, <2>1, PrintedOK DEF StepOK
  <2> QED
    BY <2>2 DEF Erased, s
<1>3. b \in Lines /\ Len(b) = Len(buf) - n /\ \A k \in 1 .. Len(buf) - n : b[k] = buf[k]
  <2> DEFINE l == Len(buf) - n
  <2>1. l \in 0 .. Len(buf) /\ l - 1 + 1 = l /\ buf \in Seq(Char) /\ l <= LineMax - 1
        /\ Len(buf) <= LineMax - 1
    BY <1>1, KeyboardAssumption DEF KeyboardInv, Lines
  <2> HIDE DEF l
  <2>2. \A k \in 1 .. l : buf[k] \in Char
    BY <2>1
  <2>3. /\ SubSeq(buf, 1, l) \in Seq(Char) /\ Len(SubSeq(buf, 1, l)) = l
        /\ \A k \in 1 .. l : SubSeq(buf, 1, l)[k] = buf[k]
    BY <2>1, <2>2, SubSeqProperties
  <2> QED
    BY <2>1, <2>3 DEF l, Lines
<1>4. ASSUME ~(torn \/ n >= term.x), e.from # Gone
      PROVE  Shows(e, Prompt \o b)
  <2>1. Good(t, a)
    BY <1>1, <1>4 DEF StepOK, Good
  <2>2. n < t.x /\ n <= Len(a)
    <3>1. Len(Prompt) \in Nat /\ t.x \in Int
      BY <1>1, HiddenOK, ScreenSize DEF StepOK, TermOK
    <3> QED
      BY <1>1, <1>4, <3>1
  <2>3. Good(e, SubSeq(a, 1, Len(a) - n))
    BY <1>1, <2>1, <2>2, ErasedGood
  <2>4. SubSeq(a, 1, Len(a) - n) = Prompt \o b
    <3> DEFINE m == Len(Prompt)
               l == Len(a) - n
               p == SubSeq(a, 1, l)
               q == Prompt \o b
    <3>1. m \in Nat /\ l = m + (Len(buf) - n) /\ l \in 0 .. Len(a) /\ l - 1 + 1 = l
          /\ Prompt \in Seq(Glyph) /\ b \in Seq(Glyph) /\ buf \in Seq(Glyph)
      BY <1>1, <1>3, HiddenOK, CharFacts
    <3>2. /\ q \in Seq(Glyph) /\ Len(q) = l
          /\ \A k \in 1 .. l : q[k] = IF k <= m THEN Prompt[k] ELSE b[k - m]
      <4> HIDE DEF b, l
      <4>1. /\ q \in Seq(Glyph) /\ Len(q) = m + Len(b)
            /\ \A k \in 1 .. m + Len(b) : q[k] = IF k <= m THEN Prompt[k] ELSE b[k - m]
        BY <3>1, ConcatProperties
      <4>2. m + Len(b) = l
        BY <1>3, <3>1
      <4> QED
        BY <4>1, <4>2
    <3>3. \A k \in 1 .. m + Len(buf) : a[k] = IF k <= m THEN Prompt[k] ELSE buf[k - m]
      <4>1. Prompt \in Seq(Glyph) /\ buf \in Seq(Glyph)
        BY <3>1
      <4> QED
        BY <4>1, ConcatProperties
    <3> HIDE DEF l, a, q, b, m
    <3>4. /\ p \in Seq(Glyph) /\ Len(p) = l /\ \A k \in 1 .. l : p[k] = a[k]
      <4>1. \A k \in 1 .. l : a[k] \in Glyph
        BY <1>1, <3>1
      <4> QED
        BY <3>1, <4>1, SubSeqProperties
    <3> HIDE DEF p
    <3>5. ASSUME NEW k \in 1 .. l PROVE p[k] = q[k]
      <4>1. k \in 1 .. m + Len(buf)
        BY <1>1, <3>1
      <4>2. CASE k <= m
        BY <3>2, <3>3, <3>4, <4>1, <4>2
      <4>3. CASE ~(k <= m)
        <5>1. k - m \in 1 .. Len(buf) - n
          BY <1>1, <3>1, <4>3
        <5>2. b[k - m] = buf[k - m]
          BY <1>3, <5>1
        <5> QED
          BY <3>2, <3>3, <3>4, <4>1, <4>3, <5>2
      <4> QED
        BY <4>2, <4>3
    <3>6. p = q
      BY <3>2, <3>4, <3>5, SeqEqual
    <3> QED
      BY <3>6 DEF p, q, l, a, b
  <2> QED
    BY <1>4, <2>3, <2>4 DEF Good
<1>5. (torn \/ n >= term.x) \in BOOLEAN
  OBVIOUS
<1> QED
  BY <1>2, <1>3, <1>4, <1>5 DEF StepOK

(* A character that is typed is the last of the line.                        *)
LEMMA TypeOne ==
    ASSUME KeyboardInv, reading, NEW c \in Char, NEW w, w = torn
    PROVE  StepOK(Putchar(Hidden, c), Append(buf, c), w)
<1> DEFINE t == Hidden
           p == Putchar(t, c)
           a == Prompt \o buf
           b == Append(buf, c)
<1>1. /\ StepOK(t, buf, torn) /\ torn \in BOOLEAN /\ a \in Seq(Glyph)
      /\ Len(a) = Len(Prompt) + Len(buf) /\ Len(buf) \in Nat /\ Len(Prompt) \in Nat
  BY HiddenOK
<1>2. c \in Glyph /\ c \notin {NL, BS} /\ Prompt \in Seq(Glyph) /\ buf \in Seq(Glyph)
  BY CharFacts, HiddenOK
<1>3. b \in Lines
  <2>1. buf \in Seq(Char) /\ Len(buf) < LineMax - 1
    BY DEF KeyboardInv, Lines
  <2>2. b \in Seq(Char) /\ Len(b) = Len(buf) + 1
    BY <2>1, AppendProperties
  <2>3. LineMax \in Nat
    BY KeyboardAssumption
  <2> HIDE DEF b
  <2> QED
    BY <1>1, <2>1, <2>2, <2>3 DEF Lines
<1> HIDE DEF t, p
<1>4. /\ TermOK(p) /\ p.marks = {} /\ p.from \in {t.from, Gone}
      /\ \A s \in Seq(Glyph) : Shows(t, s) /\ p.from # Gone => Shows(p, Append(s, c))
  BY <1>1, <1>2, TypedOK DEF p, StepOK
<1>5. Append(a, c) = Prompt \o b
  <2> DEFINE q == Append(a, c)
             r == Prompt \o b
             m == Len(Prompt)
             n == Len(buf)
  <2>1. /\ b \in Seq(Glyph) /\ Len(b) = n + 1 /\ b[n + 1] = c /\ \A k \in 1 .. n : b[k] = buf[k]
    BY <1>2, AppendProperties
  <2>2. \A k \in 1 .. m + n : a[k] = IF k <= m THEN Prompt[k] ELSE buf[k - m]
    BY <1>2, ConcatProperties
  <2> HIDE DEF a, b
  <2>3. /\ q \in Seq(Glyph) /\ Len(q) = Len(a) + 1 /\ q[Len(a) + 1] = c
        /\ \A k \in 1 .. Len(a) : q[k] = a[k]
    <3>1. a \in Seq(Glyph) /\ c \in Glyph
      BY <1>1, <1>2
    <3> QED
      BY <3>1, AppendProperties
  <2>4. /\ r \in Seq(Glyph) /\ Len(r) = m + Len(b)
        /\ \A k \in 1 .. m + Len(b) : r[k] = IF k <= m THEN Prompt[k] ELSE b[k - m]
    BY <1>2, <2>1, ConcatProperties
  <2> HIDE DEF q, r, m, n
  <2>5. m \in Nat /\ n \in Nat /\ Len(a) = m + n
    BY <1>1 DEF m, n
  <2>6. ASSUME NEW k \in 1 .. (m + n) + 1 PROVE q[k] = r[k]
    <3>1. k \in 1 .. m + (n + 1)
      BY <2>5
    <3>2. CASE k <= m
      <4>1. k \in 1 .. m + n
        BY <2>5, <3>2
      <4> QED
        BY <2>1, <2>2, <2>3, <2>4, <2>5, <3>1, <3>2, <4>1
    <3>3. CASE ~(k <= m) /\ k # (m + n) + 1
      <4>1. k \in 1 .. m + n /\ k - m \in 1 .. n
        BY <2>5, <3>3
      <4> QED
        BY <2>1, <2>2, <2>3, <2>4, <2>5, <3>1, <3>3, <4>1
    <3>4. CASE k = (m + n) + 1
      <4>1. k - m = n + 1 /\ ~(k <= m)
        BY <2>5, <3>4
      <4>2. r[k] = b[n + 1]
        BY <2>1, <2>4, <3>1, <4>1
      <4>3. q[k] = c
        BY <2>3, <2>5, <3>4
      <4> QED
        BY <2>1, <4>2, <4>3
    <3> QED
      BY <3>2, <3>3, <3>4
  <2>7. Len(q) = (m + n) + 1 /\ Len(r) = (m + n) + 1
    BY <2>1, <2>3, <2>4, <2>5
  <2>8. q = r
    BY <2>3, <2>4, <2>6, <2>7, SeqEqual
  <2> QED
    BY <2>8 DEF q, r
<1>6. ASSUME ~w, p.from # Gone PROVE Shows(p, Prompt \o b)
  <2>1. t.from # Gone
    BY <1>4, <1>6
  <2>2. Shows(t, a)
    BY <1>1, <1>6, <2>1 DEF StepOK
  <2>3. Shows(p, Append(a, c))
    BY <1>1, <1>4, <1>6, <2>2
  <2> QED
    BY <1>5, <2>3
<1> QED
  BY <1>1, <1>3, <1>4, <1>6 DEF StepOK, p, t

(* A line of the history stands where the old line stood.                    *)
LEMMA RecallOK ==
    ASSUME KeyboardInv, reading, NEW line \in Lines, NEW w, w = (torn \/ Len(buf) >= term.x)
    PROVE  StepOK(Printed(Erased(Hidden, Len(buf)), line), line, w)
<1> DEFINE n == Len(buf)
           e == Erased(Hidden, n)
           p == Printed(e, line)
<1>1. n \in Nat /\ n <= Len(buf)
  BY HiddenOK
<1>2. StepOK(e, SubSeq(buf, 1, n - n), w)
  BY <1>1, EraseOK
<1>3. SubSeq(buf, 1, n - n) = <<>>
  <2>1. n - n = 0
    BY <1>1
  <2> QED
    BY <2>1, SubSeqEmpty
<1>4. Prompt \o <<>> = Prompt /\ Prompt \in Seq(Glyph) /\ line \in Seq(Glyph)
      /\ \A k \in DOMAIN line : line[k] \notin {NL, BS}
  BY CharFacts, ConcatEmptySeq
<1>5. TermOK(e) /\ e.marks = {} /\ w \in BOOLEAN /\ (~w /\ e.from # Gone => Shows(e, Prompt))
  BY <1>2, <1>3, <1>4 DEF StepOK
<1> HIDE DEF e, n
<1>6. TermOK(p) /\ p.marks = {} /\ (e.from = Gone => p.from = Gone)
  BY <1>4, <1>5, PrintedOK
<1>7. ASSUME ~w, p.from # Gone PROVE Shows(p, Prompt \o line)
  <2>1. Good(e, Prompt)
    BY <1>5, <1>7 DEF Good
  <2>2. Good(p, Prompt \o line)
    BY <1>4, <2>1, PrintedGood
  <2> QED
    BY <1>7, <2>2 DEF Good
<1> QED
  BY <1>5, <1>6, <1>7 DEF StepOK, e, n

(* The prompt on a new line of the shell.                                    *)
LEMMA PromptedOK ==
    ASSUME NEW t, TermOK(t), t.marks = {}, NEW p, p = Prompted(t)
    PROVE  /\ TermOK(p) /\ p.marks = {At(p)} /\ (p.from # Gone => Shows(p, Prompt \o <<>>))
<1> DEFINE a == Anchored(t)
           u == Printed(a, Prompt)
<1>1. t \in Terminals /\ t.y \in Rows /\ t.x \in 0 .. Width - 2 /\ <<t.y>> \in Seq(Rows)
  BY ScreenSize DEF TermOK, Full, Terminals
<1>2. /\ a \in Terminals /\ a.x = t.x /\ a.y = t.y /\ a.screen = t.screen /\ a.marks = {}
      /\ a.text = <<t.y>> /\ a.from = t.x
  <2> DEFINE text == <<t.y>>   x == t.x
  <2>1. a = [t EXCEPT !.text = text, !.from = x]
    BY DEF Anchored
  <2>2. text \in Seq(Rows) /\ x \in 0 .. Width - 2 /\ x = t.x
    BY <1>1
  <2> HIDE DEF a, text, x
  <2>3. /\ a \in Terminals /\ a.x = t.x /\ a.y = t.y /\ a.screen = t.screen /\ a.marks = {}
        /\ a.text = text /\ a.from = x
    BY <1>1, <2>1, <2>2 DEF Terminals
  <2> QED
    BY <2>2, <2>3 DEF text
<1> HIDE DEF a
<1>3. TermOK(a)
  <2>1. RowsInOrder(a)
    BY <1>2 DEF RowsInOrder, InOrder
  <2> QED
    BY <1>2, <2>1 DEF TermOK, Full, BlankBelow, BlankBehind
<1>4. Shows(a, <<>>)
  <2>1. Place(a, 1, t.x) = 1
    <3>1. (1 - 1) * (Width - 2) = 0 /\ t.x \in Int
      BY <1>1, ScreenSize
    <3>2. Place(a, 1, t.x) = (1 - 1) * (Width - 2) + t.x - t.x + 1
      BY <1>2 DEF Place
    <3> QED
      BY <3>1, <3>2
  <2> QED
    BY <1>2, <2>1 DEF Shows
<1>5. Prompt \in Seq(Glyph) /\ <<>> \o Prompt = Prompt /\ Prompt \o <<>> = Prompt
      /\ <<>> \in Seq(Glyph) /\ \A k \in DOMAIN Prompt : Prompt[k] \notin {NL, BS}
  BY CharFacts, ConcatEmptySeq
<1>6. Good(a, <<>>)
  BY <1>2, <1>3, <1>4 DEF Good
<1>7. Good(u, Prompt)
  BY <1>5, <1>6, PrintedGood
<1> HIDE DEF u
<1>8. p = CursorDrawn(u, TRUE)
  BY DEF Prompted, u, a
<1>9. /\ TermOK(p) /\ At(p) = At(u) /\ p.from = u.from /\ p.marks = u.marks \cup {At(u)}
      /\ \A s : Shows(p, s) <=> Shows(u, s)
  BY <1>7, <1>8, CursorDrawnIs DEF Good
<1> QED
  BY <1>5, <1>7, <1>9 DEF Good

(* The shell reads the next line, on whatever a command left.                *)
LEMMA ReadLineOK ==
    ASSUME KeyboardInv, NEW t, TermOK(t), t.marks = {}, ReadLine(t)
    PROVE  KeyboardInv'
<1>1. /\ reading' = TRUE /\ buf' = <<>> /\ cursor_vis' = TRUE /\ torn' = FALSE
      /\ hist_pos' = hist_head /\ term' = Prompted(t)
      /\ history' = history /\ hist_head' = hist_head /\ hist_count' = hist_count
  BY DEF ReadLine, statics
<1>2. /\ TermOK(term') /\ term'.marks = {At(term')}
      /\ (term'.from # Gone => Shows(term', Prompt \o <<>>))
  BY <1>1, PromptedOK
<1>3. <<>> \in Lines /\ Len(<<>>) < LineMax - 1
  BY KeyboardAssumption DEF Lines
<1>4. HistoryOK'
  <2>1. hist_head \in (hist_head - hist_count) .. hist_head
    BY KeyboardAssumption DEF KeyboardInv, HistoryOK
  <2> QED
    BY <1>1, <2>1 DEF KeyboardInv, HistoryOK
<1>5. ScreenShowsLine'
  BY <1>1, <1>2 DEF ScreenShowsLine
<1> QED
  BY <1>1, <1>2, <1>3, <1>4, <1>5 DEF KeyboardInv

(* A line of the ring is a line.                                             *)
LEMMA RingLine ==
    ASSUME HistoryOK, NEW p \in Int
    PROVE  history[p % HistMax] \in Lines
<1>1. p % HistMax \in 0 .. HistMax - 1
  BY KeyboardAssumption
<1> QED
  BY <1>1 DEF HistoryOK

(* Scan codes keep the invariant.                                            *)
LEMMA IgnoreOK ==
    ASSUME KeyboardInv, reading, Ignore
    PROVE  KeyboardInv'
<1>1. StepOK(Hidden, buf, torn) /\ torn' = torn /\ NextCode(Hidden, buf) /\ hist_pos' = hist_pos
  BY HiddenOK DEF Ignore
<1>2. hist_pos' \in (hist_head - hist_count) .. hist_head
  BY <1>1 DEF KeyboardInv, HistoryOK
<1> QED
  BY <1>1, <1>2, NextCodeOK

(* A scan code, with all that the editor and the terminal make of it.        *)
LEMMA ScanOK ==
    ASSUME KeyboardInv, NEW sc, Scan(sc)
    PROVE  KeyboardInv'
<1>1. reading /\ HistoryOK /\ hist_head \in Nat /\ hist_count \in Nat /\ hist_pos \in Int
      /\ hist_pos \in (hist_head - hist_count) .. hist_head
  BY KeyboardAssumption DEF Scan, KeyboardInv, HistoryOK
<1>2. ASSUME NEW p, NEW line \in Lines, Recall(p, line), p \in (hist_head - hist_count) .. hist_head
      PROVE  KeyboardInv'
  <2>1. /\ hist_pos' = p /\ torn' = (torn \/ Len(buf) >= term.x)
        /\ NextCode(Printed(Erased(Hidden, Len(buf)), line), line)
    BY <1>2 DEF Recall, Tears
  <2>2. StepOK(Printed(Erased(Hidden, Len(buf)), line), line, torn')
    BY <1>1, <2>1, RecallOK
  <2> QED
    BY <1>1, <1>2, <2>1, <2>2, NextCodeOK
<1>3. CASE Prefix(sc) \/ OtherExtended(sc) \/ Modifier(sc) \/ KeyReleased(sc)
  <2>1. Ignore
    BY <1>3 DEF Prefix, OtherExtended, Modifier, KeyReleased
  <2> QED
    BY <1>1, <2>1, IgnoreOK
<1>4. CASE Older(sc)
  <2>1. CASE hist_pos - 1 < hist_head - hist_count
    <3>1. Ignore
      BY <1>4, <2>1 DEF Older
    <3> QED
      BY <1>1, <3>1, IgnoreOK
  <2>2. CASE ~(hist_pos - 1 < hist_head - hist_count)
    <3>1. Recall(hist_pos - 1, history[(hist_pos - 1) % HistMax])
      BY <1>4, <2>2 DEF Older
    <3>2. hist_pos - 1 \in (hist_head - hist_count) .. hist_head /\ hist_pos - 1 \in Int
      BY <1>1, <2>2
    <3>3. history[(hist_pos - 1) % HistMax] \in Lines
      BY <1>1, <3>2, RingLine
    <3> QED
      BY <1>2, <3>1, <3>2, <3>3
  <2> QED
    BY <2>1, <2>2
<1>5. CASE Newer(sc)
  <2>1. CASE hist_pos + 1 > hist_head
    <3>1. Ignore
      BY <1>5, <2>1 DEF Newer
    <3> QED
      BY <1>1, <3>1, IgnoreOK
  <2>2. CASE ~(hist_pos + 1 > hist_head)
    <3> DEFINE line == IF hist_pos + 1 = hist_head THEN <<>> ELSE history[(hist_pos + 1) % HistMax]
    <3>1. Recall(hist_pos + 1, line)
      BY <1>5, <2>2 DEF Newer
    <3>2. hist_pos + 1 \in (hist_head - hist_count) .. hist_head /\ hist_pos + 1 \in Int
      BY <1>1, <2>2
    <3>3. history[(hist_pos + 1) % HistMax] \in Lines
      BY <1>1, <3>2, RingLine
    <3>4. line \in Lines
      BY <3>3, KeyboardAssumption DEF Lines
    <3> HIDE DEF line
    <3> QED
      BY <1>2, <3>1, <3>2, <3>4
  <2> QED
    BY <2>1, <2>2
<1>6. CASE Erase(sc)
  <2>1. hist_pos' = hist_pos
    BY <1>6 DEF Erase, Key
  <2>2. CASE buf = <<>>
    <3>1. NextCode(Hidden, buf) /\ torn' = torn
      BY <1>6, <2>2 DEF Erase
    <3>2. StepOK(Hidden, buf, torn')
      BY <1>1, <3>1, HiddenOK
    <3> QED
      BY <1>1, <2>1, <3>1, <3>2, NextCodeOK
  <2>3. CASE buf # <<>>
    <3>1. /\ NextCode(Erased(Hidden, 1), SubSeq(buf, 1, Len(buf) - 1))
          /\ torn' = (torn \/ 1 >= term.x)
      BY <1>6, <2>3 DEF Erase, Tears
    <3>2. 1 \in Nat /\ 1 <= Len(buf)
      BY <1>1, <2>3, HiddenOK
    <3>3. StepOK(Erased(Hidden, 1), SubSeq(buf, 1, Len(buf) - 1), torn')
      BY <1>1, <3>1, <3>2, EraseOK
    <3> QED
      BY <1>1, <2>1, <3>1, <3>3, NextCodeOK
  <2> QED
    BY <2>2, <2>3
<1>7. CASE Nothing(sc)
  <2>1. hist_pos' = hist_pos /\ NextCode(Hidden, buf) /\ torn' = torn
    BY <1>7 DEF Nothing, Key
  <2>2. StepOK(Hidden, buf, torn')
    BY <1>1, <2>1, HiddenOK
  <2> QED
    BY <1>1, <2>1, <2>2, NextCodeOK
<1>8. CASE Enter(sc)
  <2> DEFINE t == Putchar(Hidden, NL)
  <2>1. Return(t, buf) /\ cursor_vis' = cursor_vis /\ torn' = torn
    BY <1>8 DEF Enter
  <2>2. StepOK(Hidden, buf, torn) /\ cursor_vis \in BOOLEAN /\ torn \in BOOLEAN /\ buf \in Lines
    BY <1>1, HiddenOK DEF KeyboardInv
  <2>3. TermOK(t) /\ t.marks = {}
    BY <2>2, ScreenSize, PutcharOK DEF StepOK
  <2> HIDE DEF t
  <2> QED
    BY <2>1, <2>2, <2>3, ReturnOK
<1>9. CASE Type(sc)
  <2>1. PICK c \in Char : /\ Key(sc, c) /\ torn' = torn
                          /\ NextCode(Putchar(Hidden, c), Append(buf, c))
    BY <1>9 DEF Type
  <2>2. StepOK(Putchar(Hidden, c), Append(buf, c), torn')
    BY <1>1, <2>1, TypeOne
  <2>3. hist_pos' = hist_pos
    BY <2>1 DEF Key
  <2> QED
    BY <1>1, <2>1, <2>2, <2>3, NextCodeOK
<1> QED
  BY <1>3, <1>4, <1>5, <1>6, <1>7, <1>8, <1>9 DEF Scan

(* The invariant of the editor and its terminal, for every width and height  *)
(* of the screen and every size of the line and the history.                 *)
THEOREM KeyboardInvariant == KeyboardSpec => []KeyboardInv
<1>1. KeyboardInit => KeyboardInv
  <2> SUFFICES ASSUME KeyboardInit PROVE KeyboardInv
    OBVIOUS
  <2>1. /\ TermOK(term) /\ term.marks = {At(term)}
        /\ (term.from # Gone => Shows(term, Prompt \o <<>>))
    BY OffOK, PromptedOK DEF KeyboardInit
  <2>2. <<>> \in Lines /\ Len(<<>>) < LineMax - 1
    BY KeyboardAssumption DEF Lines
  <2>3. HistoryOK
    <3>1. history \in [0 .. HistMax - 1 -> Lines]
      BY <2>2 DEF KeyboardInit
    <3>2. hist_head \in Nat /\ hist_count = IF hist_head < HistMax THEN hist_head ELSE HistMax
      BY KeyboardAssumption DEF KeyboardInit
    <3>3. hist_pos \in (hist_head - hist_count) .. hist_head
      BY DEF KeyboardInit
    <3> QED
      BY <3>1, <3>2, <3>3 DEF HistoryOK
  <2> QED
    BY <2>1, <2>2, <2>3 DEF KeyboardInv, KeyboardInit, ScreenShowsLine
<1>2. ASSUME KeyboardInv, [KeyboardNext]_keyboard_vars
      PROVE  KeyboardInv'
  <2>1. ASSUME NEW sc \in Codes, Scan(sc) PROVE KeyboardInv'
    BY <1>2, <2>1, ScanOK
  <2>2. CASE Blink
    <3>1. /\ reading /\ reading' = reading /\ cursor_vis' = ~cursor_vis
          /\ term' = CursorDrawn(term, cursor_vis') /\ UNCHANGED <<buf, torn, hist_pos>>
          /\ UNCHANGED <<history, hist_head, hist_count>>
      BY <2>2 DEF Blink
    <3>2. cursor_vis' \in BOOLEAN /\ cursor_vis \in BOOLEAN
      BY <1>2, <3>1 DEF KeyboardInv
    <3>3. /\ TermOK(term') /\ At(term') = At(term) /\ term'.from = term.from
          /\ \A s : Shows(term', s) <=> Shows(term, s)
          /\ term'.marks = IF cursor_vis' THEN term.marks \cup {At(term)} ELSE term.marks \ {At(term)}
      <4> DEFINE u == term'
                 visible == cursor_vis'
      <4>1. TermOK(term) /\ visible \in BOOLEAN /\ u = CursorDrawn(term, visible)
        BY <1>2, <3>1, <3>2 DEF KeyboardInv
      <4> HIDE DEF u, visible
      <4>2. /\ TermOK(u) /\ At(u) = At(term) /\ u.from = term.from
            /\ \A s : Shows(u, s) <=> Shows(term, s)
            /\ u.marks = IF visible THEN term.marks \cup {At(term)} ELSE term.marks \ {At(term)}
        BY <4>1, CursorDrawnIs
      <4> QED
        BY <4>2 DEF u, visible
    <3>4. term'.marks = IF reading' /\ cursor_vis' THEN {At(term')} ELSE {}
      <4>1. CASE cursor_vis
        BY <1>2, <3>1, <3>3, <4>1 DEF KeyboardInv
      <4>2. CASE ~cursor_vis
        BY <1>2, <3>1, <3>3, <4>2 DEF KeyboardInv
      <4> QED
        BY <4>1, <4>2
    <3>5. HistoryOK'
      BY <1>2, <3>1 DEF KeyboardInv, HistoryOK
    <3>6. ScreenShowsLine'
      BY <1>2, <3>1, <3>3 DEF KeyboardInv, ScreenShowsLine
    <3> QED
      BY <1>2, <3>1, <3>2, <3>3, <3>4, <3>5, <3>6 DEF KeyboardInv
  <2>3. CASE Silent \/ Prints \/ ClearScreen
    <3>1. ASSUME ~reading PROVE TermOK(term) /\ term.marks = {}
      BY <1>2, <3>1 DEF KeyboardInv
    <3>2. CASE Silent
      <4>1. ReadLine(term) /\ ~reading
        BY <3>2 DEF Silent, ReadLine
      <4> QED
        BY <1>2, <3>1, <4>1, ReadLineOK
    <3>3. CASE Prints
      <4>1. PICK s \in Outputs : ReadLine(Printed(term, s)) /\ ~reading
        BY <3>3 DEF Prints, ReadLine
      <4>2. TermOK(Printed(term, s)) /\ Printed(term, s).marks = {}
        BY <3>1, <4>1, CharFacts, PrintedOK
      <4> QED
        BY <1>2, <4>1, <4>2, ReadLineOK
    <3>4. CASE ClearScreen
      <4>1. ReadLine(Cleared) /\ Cleared = TerminalOff
        BY <3>4 DEF ClearScreen, Cleared
      <4> QED
        BY <1>2, <4>1, OffOK, ReadLineOK
    <3> QED
      BY <2>3, <3>2, <3>3, <3>4
  <2>4. CASE UNCHANGED keyboard_vars
    <3>1. /\ term' = term /\ reading' = reading /\ buf' = buf /\ hist_pos' = hist_pos
          /\ cursor_vis' = cursor_vis /\ torn' = torn /\ history' = history
          /\ hist_head' = hist_head /\ hist_count' = hist_count
      BY <2>4 DEF keyboard_vars
    <3> QED
      BY <1>2, <3>1 DEF KeyboardInv, HistoryOK, ScreenShowsLine
  <2> QED
    BY <1>2, <2>1, <2>2, <2>3, <2>4 DEF KeyboardNext
<1> QED
  BY <1>1, <1>2, PTL DEF KeyboardSpec

(* The prompt and the line stand on the screen, each character where it was  *)
(* put (keyboard_readline, keyboard.c:49; terminal_putchar,                  *)
(* terminal.c:49): for every size of the screen, every prompt and every      *)
(* length of the line, through wraps, scrolls, erasures and recalled lines,  *)
(* as long as the first row is on the screen and no erasure met the left     *)
(* edge, where the terminal does not go back to the row above.               *)
THEOREM KeyboardScreenShowsLine == KeyboardSpec => []ScreenShowsLine
<1>1. KeyboardInv => ScreenShowsLine
  BY DEF KeyboardInv
<1> QED
  BY <1>1, KeyboardInvariant, PTL

(* There is one underline, at the cursor, when keyboard_readline believes it *)
(* visible, and none otherwise; and the cursor stands on a blank, so that    *)
(* erasing it (terminal_cursor_draw, terminal.c:96) takes no bite out of a   *)
(* glyph: no key, blink, wrap, scroll or recalled line leaves one behind.    *)
THEOREM KeyboardOneCursor == KeyboardSpec => []OneCursor
<1>1. KeyboardInv => OneCursor
  <2> SUFFICES ASSUME KeyboardInv PROVE OneCursor
    OBVIOUS
  <2>1. term.screen[term.y][term.x] = Blank
    BY ScreenSize DEF KeyboardInv, TermOK, BlankBehind
  <2> QED
    BY <2>1 DEF KeyboardInv, OneCursor
<1> QED
  BY <1>1, KeyboardInvariant, PTL

-----------------------------------------------------------------------------
(* The editor implements the abstract one.                                   *)

(* Two places of the ring are different when they are less than a round apart. *)
LEMMA RingPlaces ==
    ASSUME NEW n \in Nat \ {0}, NEW p \in Int, NEW d \in 1 .. n - 1
    PROVE  (p + d) % n # p % n
<1> DEFINE q == p \div n   r == p % n
<1>1. q \in Int /\ r \in 0 .. n - 1 /\ p = n * q + r /\ n * q \in Int
  OBVIOUS
<1> HIDE DEF q, r
<1>2. CASE r + d < n
  <2>1. r + d \in 0 .. n - 1 /\ p + d = n * q + (r + d)
    BY <1>1, <1>2
  <2>2. (p + d) % n = r + d
    BY <1>1, <2>1, DivisionIs
  <2> QED
    BY <1>1, <2>2 DEF r
<1>3. CASE ~(r + d < n)
  <2> DEFINE r1 == (r + d) - n
             q1 == q + 1
  <2>1. r1 \in 0 .. n - 1 /\ q1 \in Int
    BY <1>1, <1>3
  <2>2. n * q1 = n * q + n
    BY <1>1
  <2> DEFINE x == p + d
  <2>3. x = n * q1 + r1
    BY <1>1, <2>2
  <2> HIDE DEF r1, q1, x
  <2>4. x % n = r1
    BY <2>1, <2>3, DivisionIs
  <2>5. r1 # r
    BY <1>1 DEF r1
  <2> QED
    BY <2>4, <2>5 DEF r, x
<1> QED
  BY <1>2, <1>3

(* The lines that can be recalled, oldest first.                             *)
LEMMA RecentIs ==
    ASSUME HistoryOK
    PROVE  /\ Recent \in Seq(Lines) /\ Len(Recent) = hist_count
           /\ hist_count \in 0 .. HistMax /\ hist_count \in Nat
           /\ \A k \in 1 .. hist_count :
                 Recent[k] = history[(hist_head - hist_count + k - 1) % HistMax]
<1>1. hist_head \in Nat /\ hist_count \in 0 .. HistMax /\ hist_count \in Nat
  BY KeyboardAssumption DEF HistoryOK
<1>2. ASSUME NEW k \in 1 .. hist_count
      PROVE  history[(hist_head - hist_count + k - 1) % HistMax] \in Lines
  <2>1. hist_head - hist_count + k - 1 \in Int
    BY <1>1
  <2> QED
    BY <2>1, RingLine
<1>3. Recent \in [1 .. hist_count -> Lines]
  BY <1>2 DEF Recent
<1>4. Recent \in Seq(Lines) /\ Len(Recent) = hist_count
  BY <1>1, <1>3, SeqOf
<1> QED
  BY <1>1, <1>4 DEF Recent

(* A line that is submitted is the newest, and the oldest makes room for it. *)
LEMMA RecentGrows ==
    ASSUME HistoryOK, HistoryOK', NEW line \in Lines, line # <<>>, HistAdd(line)
    PROVE  Recent' = Abstract!Newest(Append(Recent, line))
<1> DEFINE h == hist_head
           c == hist_count
           R == Recent
           A == Append(R, line)
<1>1. /\ R \in Seq(Lines) /\ Len(R) = c /\ c \in 0 .. HistMax /\ c \in Nat
      /\ \A k \in 1 .. c : R[k] = history[(h - c + k - 1) % HistMax]
  BY RecentIs
<1>2. /\ Recent' \in Seq(Lines) /\ Len(Recent') = hist_count'
      /\ \A k \in 1 .. hist_count' :
            Recent'[k] = history'[(hist_head' - hist_count' + k - 1) % HistMax]
  <2>1. hist_head' \in Nat /\ hist_count' \in Nat
    BY KeyboardAssumption DEF HistoryOK
  <2>2. ASSUME NEW k \in 1 .. hist_count'
        PROVE  history'[(hist_head' - hist_count' + k - 1) % HistMax] \in Lines
    <3>1. hist_head' - hist_count' + k - 1 \in Int
      BY <2>1
    <3> HIDE DEF HistoryOK
    <3>2. (hist_head' - hist_count' + k - 1) % HistMax \in 0 .. HistMax - 1
      BY <3>1, KeyboardAssumption
    <3> QED
      BY <3>2 DEF HistoryOK
  <2>3. Recent' \in [1 .. hist_count' -> Lines]
    BY <2>2 DEF Recent
  <2>4. Recent' \in Seq(Lines) /\ Len(Recent') = hist_count'
    BY <2>1, <2>3, SeqOf
  <2> QED
    BY <2>1, <2>4 DEF Recent
<1>3. /\ h \in Nat /\ HistMax \in Nat \ {0} /\ h % HistMax \in 0 .. HistMax - 1
      /\ c = IF h < HistMax THEN h ELSE HistMax
      /\ history \in [0 .. HistMax - 1 -> Lines]
  BY KeyboardAssumption DEF HistoryOK
<1>4. /\ history' = [history EXCEPT ![h % HistMax] = line]
      /\ hist_head' = h + 1
      /\ hist_count' = IF c < HistMax THEN c + 1 ELSE c
  BY DEF HistAdd
<1>5. /\ A \in Seq(Lines) /\ Len(A) = c + 1 /\ A[c + 1] = line /\ \A k \in 1 .. c : A[k] = R[k]
  <2> HIDE DEF R
  <2> QED
    BY <1>1, AppendProperties
<1>6. ASSUME NEW p \in Int
      PROVE  history'[p % HistMax] =
                IF p % HistMax = h % HistMax THEN line ELSE history[p % HistMax]
  <2>1. p % HistMax \in 0 .. HistMax - 1
    BY <1>3
  <2> QED
    BY <1>3, <1>4, <2>1
<1> HIDE DEF R, A
<1>7. CASE c < HistMax
  <2>1. hist_count' = c + 1 /\ h = c /\ hist_head' - hist_count' = 0
    BY <1>1, <1>3, <1>4, <1>7
  <2>2. ASSUME NEW k \in 1 .. c + 1 PROVE Recent'[k] = A[k]
    <3>1. /\ k - 1 \in Int /\ hist_head' - hist_count' + k - 1 = k - 1
          /\ Recent'[k] = history'[(k - 1) % HistMax]
      BY <1>1, <1>2, <2>1
    <3>2. k - 1 \in 0 .. HistMax - 1 /\ c \in 0 .. HistMax - 1
      BY <1>1, <1>3, <1>7
    <3>3. (k - 1) % HistMax = k - 1 /\ h % HistMax = c
      BY <1>3, <2>1, <3>2
    <3>4. CASE k = c + 1
      BY <1>1, <1>5, <1>6, <3>1, <3>3, <3>4
    <3>5. CASE k # c + 1
      <4>1. k \in 1 .. c /\ k - 1 # c /\ h - c + k - 1 = k - 1
        BY <1>1, <2>1, <3>5
      <4> QED
        BY <1>1, <1>5, <1>6, <3>1, <3>3, <4>1
    <3> QED
      BY <3>4, <3>5
  <2>3. Recent' = A
    BY <1>2, <1>5, <2>1, <2>2, SeqEqual
  <2>4. ~(Len(A) > HistMax)
    BY <1>1, <1>3, <1>5, <1>7
  <2> QED
    BY <2>3, <2>4 DEF Abstract!Newest, A, R
<1>8. CASE ~(c < HistMax)
  <2>1. c = HistMax /\ hist_count' = c /\ hist_head' - hist_count' = (h - c) + 1
    BY <1>1, <1>3, <1>4, <1>8
  <2>2. /\ Tail(A) \in Seq(Lines) /\ Len(Tail(A)) = c
        /\ \A k \in 1 .. c : Tail(A)[k] = A[k + 1]
    <3>1. A # <<>> /\ Len(A) - 1 = c
      BY <1>1, <1>5
    <3> QED
      BY <1>5, <3>1, HeadTailProperties
  <2>3. ASSUME NEW k \in 1 .. c PROVE Recent'[k] = Tail(A)[k]
    <3> DEFINE p == hist_head' - hist_count' + k - 1
    <3>0. (h - c) + k \in Int /\ p = (h - c) + k
      BY <1>1, <1>3, <2>1
    <3> HIDE DEF p
    <3>1. (h - c) + k \in Int /\ Recent'[k] = history'[((h - c) + k) % HistMax]
      <4>1. Recent'[k] = history'[p % HistMax]
        BY <1>2, <2>1 DEF p
      <4> QED
        BY <3>0, <4>1
    <3>2. CASE k = c
      <4>1. (h - c) + k = h /\ k + 1 = c + 1
        BY <1>1, <1>3, <3>2
      <4>2. history'[h % HistMax] = line
        BY <1>3, <1>4
      <4>3. Tail(A)[k] = A[c + 1]
        BY <2>2, <4>1
      <4> QED
        BY <1>5, <3>1, <4>1, <4>2, <4>3
    <3>3. CASE k # c
      <4>1. /\ k + 1 \in 1 .. c /\ (h - c) + (k + 1) - 1 = (h - c) + k /\ c - k \in 1 .. HistMax - 1
            /\ ((h - c) + k) + (c - k) = h
        BY <1>1, <1>3, <2>1, <3>3
      <4>2. h % HistMax # ((h - c) + k) % HistMax
        BY <1>3, <3>1, <4>1, RingPlaces
      <4>3. R[k + 1] = history[((h - c) + k) % HistMax]
        BY <1>1, <4>1
      <4>4. history'[((h - c) + k) % HistMax] = history[((h - c) + k) % HistMax]
        BY <1>6, <3>1, <4>2
      <4>5. Tail(A)[k] = A[k + 1] /\ A[k + 1] = R[k + 1]
        BY <1>5, <2>2, <4>1
      <4> QED
        BY <3>1, <4>3, <4>4, <4>5
    <3> QED
      BY <3>2, <3>3
  <2>4. Recent' = Tail(A)
    BY <1>2, <2>1, <2>2, <2>3, SeqEqual
  <2>5. Len(A) > HistMax
    BY <1>1, <1>3, <1>5, <2>1
  <2> QED
    BY <2>4, <2>5 DEF Abstract!Newest, A, R
<1> QED
  BY <1>7, <1>8

(* A line that is returned is submitted.                                     *)
LEMMA Submits ==
    ASSUME HistoryOK, HistoryOK', NEW l \in Lines, NEW t, Return(t, l)
    PROVE  Abstract!Submit(l)
<1>1. reading' = FALSE /\ buf' = l /\ HistAdd(l)
  BY DEF Return
<1>2. CASE l = <<>>
  <2>1. history' = history /\ hist_head' = hist_head /\ hist_count' = hist_count
    BY <1>1, <1>2 DEF HistAdd, statics
  <2>2. Recent' = Recent
    BY <2>1 DEF Recent
  <2> QED
    BY <1>1, <1>2, <2>2 DEF Abstract!Submit
<1>3. CASE l # <<>>
  <2>1. Recent' = Abstract!Newest(Append(Recent, l))
    BY <1>1, <1>3, RecentGrows
  <2> QED
    BY <1>1, <1>3, <2>1 DEF Abstract!Submit
<1> QED
  BY <1>2, <1>3

(* A line that goes on, or is full, is edited.                               *)
LEMMA Edits ==
    ASSUME HistoryOK, HistoryOK', reading, {reading} \subseteq BOOLEAN,
           NEW l \in Lines, NEW t, NextCode(t, l)
    PROVE  Abstract!Edit(l, hist_head - hist_pos')
<1>1. Len(l) \in Nat /\ LineMax \in Nat
  BY KeyboardAssumption DEF Lines
<1>2. CASE Len(l) < LineMax - 1
  <2>1. /\ buf' = l /\ reading' = reading /\ history' = history
        /\ hist_head' = hist_head /\ hist_count' = hist_count
    BY <1>2 DEF NextCode
  <2>2. Recent' = Recent
    BY <2>1 DEF Recent
  <2>3. ~(Len(l) >= LineMax - 1)
    BY <1>1, <1>2
  <2> QED
    BY <2>1, <2>2, <2>3 DEF Abstract!Edit
<1>3. CASE ~(Len(l) < LineMax - 1)
  <2>1. Return(CursorDrawn(t, TRUE), l)
    BY <1>3 DEF NextCode
  <2>2. Abstract!Submit(l)
    BY <2>1, Submits
  <2>3. Len(l) >= LineMax - 1
    BY <1>1, <1>3
  <2> QED
    BY <2>2, <2>3 DEF Abstract!Edit
<1> QED
  BY <1>2, <1>3

(* A line that stays as it is shows nothing.                                 *)
LEMMA Stays ==
    ASSUME KeyboardInv, reading, NEW t, NextCode(t, buf), hist_pos' = hist_pos
    PROVE  UNCHANGED Abstract!vars
<1>1. Len(buf) < LineMax - 1
  BY DEF KeyboardInv
<1>2. /\ buf' = buf /\ reading' = reading /\ history' = history
      /\ hist_head' = hist_head /\ hist_count' = hist_count
  BY <1>1 DEF NextCode
<1>3. Recent' = Recent
  BY <1>2 DEF Recent
<1> QED
  BY <1>2, <1>3 DEF Abstract!vars

(* The line at position p of the ring is the one that is hist_head - p back. *)
LEMMA Recalls ==
    ASSUME KeyboardInv, KeyboardInv', reading, NEW p \in (hist_head - hist_count) .. hist_head,
           NEW l, l = IF p = hist_head THEN <<>> ELSE history[p % HistMax],
           Recall(p, l)
    PROVE  Abstract!Recall(hist_head - p)
<1> DEFINE t == Printed(Erased(Hidden, Len(buf)), l)
<1>1. hist_pos' = p /\ NextCode(t, l) /\ p \in Int
  BY DEF Recall
<1>2. HistoryOK /\ HistoryOK' /\ {reading} \subseteq BOOLEAN
  BY DEF KeyboardInv
<1>3. l \in Lines
  <2>1. <<>> \in Lines
    BY KeyboardAssumption DEF Lines
  <2> QED
    BY <1>1, <1>2, <2>1, RingLine
<1> HIDE DEF t
<1>4. Abstract!Edit(l, hist_head - hist_pos')
  BY <1>1, <1>2, <1>3, Edits
<1>5. /\ Len(Recent) = hist_count /\ hist_count \in Nat /\ hist_head \in Nat
      /\ \A k \in 1 .. hist_count :
            Recent[k] = history[(hist_head - hist_count + k - 1) % HistMax]
  BY <1>2, RecentIs DEF HistoryOK
<1> DEFINE b == hist_head - p
           k == hist_count - b + 1
<1>6. b \in Nat /\ (b = 0 <=> p = hist_head)
  BY <1>5
<1>7. ASSUME b # 0 PROVE Recent[Len(Recent) - b + 1] = l
  <2>1. k \in 1 .. hist_count /\ hist_head - hist_count + k - 1 = p
    BY <1>5, <1>6, <1>7
  <2> HIDE DEF k
  <2>2. Recent[k] = history[p % HistMax]
    BY <1>5, <2>1
  <2> QED
    BY <1>5, <1>6, <1>7, <2>2 DEF k
<1> HIDE DEF b
<1>8. l = IF b = 0 THEN <<>> ELSE Recent[Len(Recent) - b + 1]
  BY <1>6, <1>7
<1>9. Abstract!Edit(l, b)
  BY <1>1, <1>4 DEF b
<1> QED
  BY <1>8, <1>9 DEF Abstract!Recall, b

(* A key is an edit, or nothing.                                             *)
LEMMA ScanRefines ==
    ASSUME KeyboardInv, KeyboardInv', NEW sc, Scan(sc)
    PROVE  Abstract!Next \/ UNCHANGED Abstract!vars
<1>1. /\ reading /\ HistoryOK /\ HistoryOK' /\ {reading} \subseteq BOOLEAN
      /\ buf \in Lines /\ Len(buf) < LineMax - 1
      /\ hist_pos \in (hist_head - hist_count) .. hist_head
      /\ hist_head \in Nat /\ hist_count \in Nat /\ LineMax \in Nat
  BY KeyboardAssumption, RecentIs DEF Scan, KeyboardInv, HistoryOK
<1>2. ASSUME Ignore PROVE UNCHANGED Abstract!vars
  BY <1>1, <1>2, Stays DEF Ignore
<1>3. CASE Prefix(sc) \/ OtherExtended(sc) \/ Modifier(sc) \/ KeyReleased(sc)
  BY <1>2, <1>3 DEF Prefix, OtherExtended, Modifier, KeyReleased
<1>4. CASE Older(sc)
  <2>1. CASE hist_pos - 1 < hist_head - hist_count
    BY <1>2, <1>4, <2>1 DEF Older
  <2>2. CASE ~(hist_pos - 1 < hist_head - hist_count)
    <3> DEFINE p == hist_pos - 1
    <3>1. Recall(p, history[p % HistMax])
      BY <1>4, <2>2 DEF Older
    <3>2. /\ p \in (hist_head - hist_count) .. hist_head /\ p # hist_head
          /\ hist_head - p = (hist_head - hist_pos) + 1 /\ hist_head - hist_pos < hist_count
      BY <1>1, <2>2
    <3> HIDE DEF p
    <3>3. Abstract!Recall(hist_head - p)
      BY <1>1, <3>1, <3>2, Recalls
    <3>4. Len(Recent) = hist_count
      BY <1>1, RecentIs
    <3>5. Abstract!Older
      BY <1>1, <3>2, <3>3, <3>4 DEF Abstract!Older
    <3> QED
      BY <1>1, <3>5 DEF Abstract!Next
  <2> QED
    BY <2>1, <2>2
<1>5. CASE Newer(sc)
  <2>1. CASE hist_pos + 1 > hist_head
    BY <1>2, <1>5, <2>1 DEF Newer
  <2>2. CASE ~(hist_pos + 1 > hist_head)
    <3> DEFINE p == hist_pos + 1
               l == IF p = hist_head THEN <<>> ELSE history[p % HistMax]
    <3>1. Recall(p, l)
      BY <1>5, <2>2 DEF Newer
    <3>2. /\ p \in (hist_head - hist_count) .. hist_head
          /\ hist_head - p = (hist_head - hist_pos) - 1 /\ hist_head - hist_pos > 0
      BY <1>1, <2>2
    <3> HIDE DEF p
    <3>3. Abstract!Recall(hist_head - p)
      BY <1>1, <3>1, <3>2, Recalls
    <3>4. Abstract!Newer
      BY <1>1, <3>2, <3>3 DEF Abstract!Newer
    <3> QED
      BY <1>1, <3>4 DEF Abstract!Next
  <2> QED
    BY <2>1, <2>2
<1>6. CASE Erase(sc)
  <2>1. hist_pos' = hist_pos
    BY <1>6 DEF Erase, Key
  <2>2. CASE buf = <<>>
    BY <1>1, <1>6, <2>1, <2>2, Stays DEF Erase
  <2>3. CASE buf # <<>>
    <3> DEFINE l == SubSeq(buf, 1, Len(buf) - 1)
               t == Erased(Hidden, 1)
    <3>1. NextCode(t, l)
      BY <1>6, <2>3 DEF Erase
    <3>2. l \in Lines
      <4> DEFINE n == Len(buf) - 1
      <4>1. buf \in Seq(Char) /\ Len(buf) \in Nat /\ Len(buf) # 0
        BY <1>1, <2>3 DEF Lines
      <4>2. 1 \in Int /\ n \in Nat /\ \A k \in 1 .. n : buf[k] \in Char
        BY <4>1
      <4> HIDE DEF n
      <4>3. /\ SubSeq(buf, 1, n) \in Seq(Char)
            /\ Len(SubSeq(buf, 1, n)) = IF 1 <= n THEN n - 1 + 1 ELSE 0
        BY <4>2, SubSeqProperties
      <4>4. Len(SubSeq(buf, 1, n)) = n
        BY <4>2, <4>3
      <4>5. l \in Seq(Char) /\ Len(l) = Len(buf) - 1
        BY <4>3, <4>4 DEF n
      <4> QED
        BY <1>1, <4>1, <4>5 DEF Lines
    <3> HIDE DEF t
    <3>3. Abstract!Edit(l, hist_head - hist_pos)
      BY <1>1, <2>1, <3>1, <3>2, Edits
    <3>4. Abstract!Erase
      BY <1>1, <2>3, <3>3 DEF Abstract!Erase
    <3> QED
      BY <1>1, <3>4 DEF Abstract!Next
  <2> QED
    BY <2>2, <2>3
<1>7. CASE Nothing(sc)
  BY <1>1, <1>7, Stays DEF Nothing, Key
<1>8. CASE Enter(sc)
  <2>1. Return(Putchar(Hidden, NL), buf)
    BY <1>8 DEF Enter
  <2>2. Abstract!Submit(buf)
    BY <1>1, <2>1, Submits
  <2> QED
    BY <1>1, <2>2 DEF Abstract!Next
<1>9. CASE Type(sc)
  <2>1. PICK ch \in Char : NextCode(Putchar(Hidden, ch), Append(buf, ch)) /\ hist_pos' = hist_pos
    BY <1>9 DEF Type, Key
  <2>2. Append(buf, ch) \in Lines
    <3>1. buf \in Seq(Char) /\ Len(buf) \in Nat
      BY <1>1 DEF Lines
    <3>2. Append(buf, ch) \in Seq(Char) /\ Len(Append(buf, ch)) = Len(buf) + 1
      BY <3>1
    <3> QED
      BY <1>1, <3>1, <3>2 DEF Lines
  <2>3. Abstract!Edit(Append(buf, ch), hist_head - hist_pos)
    BY <1>1, <2>1, <2>2, Edits
  <2>4. Abstract!Type
    BY <1>1, <2>3 DEF Abstract!Type
  <2> QED
    BY <1>1, <2>4 DEF Abstract!Next
<1> QED
  BY <1>3, <1>4, <1>5, <1>6, <1>7, <1>8, <1>9 DEF Scan

(* The editor implements the abstract one (keyboard.c:79): what it returns   *)
(* is what was typed, erased and recalled, a recalled line is the one of the *)
(* last submitted that far back, and the ring, the keys that are ignored and *)
(* the screen do not show.                                                   *)
THEOREM KeyboardRefinesLineEditor == KeyboardSpec => ImplementsLineEditor
<1>1. KeyboardInit => Abstract!Init
  <2> SUFFICES ASSUME KeyboardInit PROVE Abstract!Init
    OBVIOUS
  <2>1. Recent = <<>>
    BY DEF KeyboardInit, Recent
  <2> QED
    BY <2>1 DEF KeyboardInit, Abstract!Init
<1>2. KeyboardInv /\ KeyboardInv' /\ [KeyboardNext]_keyboard_vars => [Abstract!Next]_Abstract!vars
  <2> SUFFICES ASSUME KeyboardInv, KeyboardInv', [KeyboardNext]_keyboard_vars
               PROVE  Abstract!Next \/ UNCHANGED Abstract!vars
    OBVIOUS
  <2>1. CASE \E sc \in Codes : Scan(sc)
    BY <2>1, ScanRefines
  <2>2. CASE Blink \/ UNCHANGED keyboard_vars
    <3>1. /\ buf' = buf /\ reading' = reading /\ history' = history /\ hist_pos' = hist_pos
          /\ hist_head' = hist_head /\ hist_count' = hist_count
      BY <2>2 DEF Blink, keyboard_vars
    <3>2. Recent' = Recent
      BY <3>1 DEF Recent
    <3> QED
      BY <3>1, <3>2 DEF Abstract!vars
  <2>3. ASSUME NEW t, ReadLine(t) PROVE Abstract!Next
    <3>1. /\ ~reading /\ reading' = TRUE /\ buf' = <<>> /\ history' = history
          /\ hist_pos' = hist_head /\ hist_head' = hist_head /\ hist_count' = hist_count
      BY <2>3 DEF ReadLine, statics
    <3>2. Recent' = Recent
      BY <3>1 DEF Recent
    <3>3. hist_head' - hist_pos' = 0
      BY <3>1 DEF KeyboardInv, HistoryOK
    <3>4. Abstract!Begin
      BY <3>1, <3>2, <3>3 DEF Abstract!Begin
    <3> QED
      BY <3>4 DEF Abstract!Next
  <2>4. CASE Silent \/ Prints \/ ClearScreen
    BY <2>3, <2>4 DEF Silent, Prints, ClearScreen
  <2> QED
    BY <2>1, <2>2, <2>4 DEF KeyboardNext
<1> QED
  BY <1>1, <1>2, KeyboardInvariant, PTL DEF KeyboardSpec, ImplementsLineEditor, Abstract!Spec
=============================================================================
