-------------------------------- MODULE Ray --------------------------------
(* The game of graphics/cpu/ray.c and the key states of drivers/keyboard.c:  *)
(* keys go down and up while the game runs and while the shell does, and     *)
(* each scan code is read by whichever of the two asks the controller first. *)
EXTENDS RayOps, FiniteSets, Sequences

CONSTANTS
    Keys,        \* the keys, by the scan code of their press
    MaxDown,     \* bound on the keys down at once
    QueueMax     \* how many scan codes the controller holds

ESCAPE == 1   \* 0x01
UP     == 72  \* 0x48
DOWN   == 80  \* 0x50
LEFT   == 75  \* 0x4B
RIGHT  == 77  \* 0x4D

Open == {c \in (0 .. MAP_W - 1) \X (0 .. MAP_H - 1) : c \notin Walls}

ASSUME RayAssumption ==
    /\ FP_ONE \in Nat \ {0} /\ Quarter \in Nat \ {0}
    /\ SinTable \in [0 .. Quarter -> 0 .. FP_ONE]
    /\ MOVE_SPEED \in 0 .. FP_ONE
    /\ {TURN_SPEED, FOV, Far, MAX_STEPS} \subseteq Nat
    /\ NearAxis \in Nat \ {0}
    /\ MAP_W \in Nat /\ MAP_H \in Nat
    /\ <<StartX, StartY>> \in Open

ASSUME KeysAssumption ==
    /\ Keys \subseteq 0 .. 127
    /\ MaxDown \in Nat /\ QueueMax \in Nat

VARIABLES
    playing,     \* ray_run runs, or the shell
    cam,         \* cam_x, cam_y, cam_angle
    key_state,   \* the keys whose key_state is 1
    queue,       \* scan codes in the controller
    down         \* the keys that are down on the keyboard

vars == <<playing, cam, key_state, queue, down>>

Init ==
    /\ playing = FALSE
    /\ cam = Camera
    /\ key_state = {}
    /\ queue = <<>>
    /\ down = {}

-----------------------------------------------------------------------------
(* The keyboard.                                                             *)

Make(k) == k
Break(k) == k + 128

\* A controller that is full loses the code.
Deliver(code) ==
    /\ queue' = IF Len(queue) < QueueMax THEN Append(queue, code) ELSE queue
    /\ UNCHANGED <<playing, cam, key_state>>

\* A key goes down, or is held long enough to repeat.
Press(k) ==
    /\ Deliver(Make(k))
    /\ down' = down \cup {k}
    /\ Cardinality(down') <= MaxDown

Release(k) ==
    /\ k \in down
    /\ Deliver(Break(k))
    /\ down' = down \ {k}

-----------------------------------------------------------------------------
(* The kernel.                                                               *)

\* The line editor takes a scan code; the key states do not hear of it.
ShellReads ==
    /\ ~playing
    /\ queue # <<>>
    /\ queue' = Tail(queue)
    /\ UNCHANGED <<playing, cam, key_state, down>>

\* The command ray.
Start ==
    /\ ~playing
    /\ playing' = TRUE
    /\ cam' = Camera
    /\ UNCHANGED <<key_state, queue, down>>

\* The codes that concern a key, by their place in the queue.
CodesOf(k, codes) == {i \in DOMAIN codes : codes[i] \in {Make(k), Break(k)}}

\* Faulty variant: a release sets a state of its own, not that of the key.
HeldUnmasked(k, held, codes) == k \in held \/ \E i \in DOMAIN codes : codes[i] = Make(k)

\* The state of a key once the codes were read in order: its last one counts.
Held(k, held, codes) ==
    IF CodesOf(k, codes) = {}
    THEN k \in held
    ELSE \E i \in CodesOf(k, codes) :
            codes[i] = Make(k) /\ \A j \in CodesOf(k, codes) : j <= i

\* keyboard_update reads until the controller has no more.
Update ==
    /\ key_state' = {k \in Keys : Held(k, key_state, queue)}
    /\ queue' = <<>>

\* Faulty variant: Escape is looked up by the code of its release.
EscapedOnBreak == Break(ESCAPE) \in key_state'

\* keyboard_held(0x01), after the update.
Escaped == ESCAPE \in key_state'

Leave ==
    /\ playing
    /\ Update
    /\ Escaped
    /\ playing' = FALSE
    /\ UNCHANGED <<cam, down>>

Frame ==
    /\ playing
    /\ Update
    /\ ~Escaped
    /\ LET a == IF UP \in key_state' THEN Forward(cam) ELSE cam
           b == IF DOWN \in key_state' THEN Back(a) ELSE a
           c == IF LEFT \in key_state' THEN Turned(b, -TURN_SPEED) ELSE b
       IN  cam' = IF RIGHT \in key_state' THEN Turned(c, TURN_SPEED) ELSE c
    /\ UNCHANGED <<playing, down>>

Next ==
    \/ \E k \in Keys : Press(k) \/ Release(k)
    \/ ShellReads
    \/ Start
    \/ Leave
    \/ Frame

\* The loop of ray_run waits for nothing but the clock.
Spec == Init /\ [][Next]_vars /\ WF_vars(Leave \/ Frame)

-----------------------------------------------------------------------------
(* Properties.                                                               *)

TypeOK ==
    /\ playing \in BOOLEAN
    /\ cam \in [x : Int, y : Int, angle : 0 .. FULL - 1]
    /\ key_state \subseteq Keys /\ down \subseteq Keys
    /\ queue \in Seq(0 .. 255) /\ Len(queue) <= QueueMax

\* A room: open cells, with every open cell that shares a side with one.
Touches(c, d) ==
    \/ c[1] = d[1] /\ (c[2] - d[2]) \in -1 .. 1
    \/ c[2] = d[2] /\ (c[1] - d[1]) \in -1 .. 1

Rooms ==
    {S \in SUBSET Open :
        /\ <<StartX, StartY>> \in S
        /\ \A c \in S, d \in Open : Touches(c, d) => d \in S}

\* The cells that all of them have: those one can walk to from the start.
Reach == {c \in Open : \A S \in Rooms : c \in S}

\* The camera never enters a wall, never leaves the map and never slips between
\* two walls that meet at a corner: where it is one can walk to from the start.
StaysInRoom == CellOf(cam) \in Reach

\* The keys whose state is, or will be at the next update, not what it should.
Stale == {k \in Keys : Held(k, key_state, queue) # (k \in down)}

\* The shell takes a code of the key, or the key moves when the controller is full.
TakenByShell(k) ==
    /\ ~playing /\ queue # <<>> /\ queue' = Tail(queue)
    /\ Head(queue) \in {Make(k), Break(k)}
Overrun(k) == Len(queue) >= QueueMax /\ (k \in down') # (k \in down)

\* The state of a key goes wrong in two ways only: the shell read a code of that
\* very key (keyboard.c:150 is not told), or the controller was full when one
\* came.  A start, an end and a frame of the game set none wrong, however many
\* codes arrived between two frames.
OnlyLostCodesMakeStale == [][\A k \in Stale' \ Stale : TakenByShell(k) \/ Overrun(k)]_vars

\* A ray ends at the near face of a solid cell, and its distance says where:
\* the point that far along the ray lies on that face, within half a cell.
RayMeetsWall ==
    \A a \in ViewOf(cam) :
        LET ray == CastRay(cam, a)
            px == cam.x + FP_MUL(ray.dist, FpCos(a))
            py == cam.y + FP_MUL(ray.dist, FpSin(a))
            faceX == INT2FP(IF FpCos(a) > 0 THEN ray.mx ELSE ray.mx + 1)
            faceY == INT2FP(IF FpSin(a) > 0 THEN ray.my ELSE ray.my + 1)
            tol == FP_ONE \div 2
            on(p, face) == p - face \in -tol .. tol
            along(p, cell) == p \in INT2FP(cell) - tol .. INT2FP(cell + 1) + tol
        IN  /\ MapSolid(ray.mx, ray.my)
            /\ IF ray.alongX
               THEN on(px, faceX) /\ along(py, ray.my)
               ELSE on(py, faceY) /\ along(px, ray.mx)

\* Escape held down in the game leads back to the shell, unless it is let go.
EscapeLeaves ==
    (playing /\ ESCAPE \in down /\ Held(ESCAPE, key_state, queue)) ~> (~playing \/ ESCAPE \notin down)
=============================================================================
