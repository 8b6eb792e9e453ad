------------------------------- MODULE RayOps -------------------------------
(* The arithmetic of graphics/cpu/ray.c: the map, the camera in fixed point, *)
(* what one frame does to it and the walk of a ray through the map.  A full  *)
(* turn has 4 * Quarter degrees.                                             *)
EXTENDS Integers

CONSTANTS
    FP_ONE,        \* 1 in fixed point, 2^16
    Quarter,       \* 90
    SinTable,      \* the sines of 0 .. Quarter, times FP_ONE
    MOVE_SPEED,    \* INT2FP(1) / 10
    TURN_SPEED,    \* 3
    FOV,           \* 60
    MAP_W, MAP_H,  \* 16, 16
    Walls,         \* the cells <<x, y>> of the map that are solid
    StartX, StartY,\* the cell ray_run starts at, 8, 8
    NearAxis,      \* 10: a smaller component of a direction counts as none
    Far,           \* 1000: how far away the next border is then
    MAX_STEPS      \* 64: borders a ray crosses at most

FULL == 4 * Quarter

FP_MUL(a, b) == (a * b) \div FP_ONE
INT2FP(n) == n * FP_ONE
FP2INT(v) == v \div FP_ONE

\* fp_sin; the C remainder of a negative angle is made positive there as well.
FpSin(degrees) ==
    LET d == degrees % FULL
    IN  IF d <= Quarter THEN SinTable[d]
        ELSE IF d <= 2 * Quarter THEN SinTable[2 * Quarter - d]
        ELSE IF d <= 3 * Quarter THEN -SinTable[d - 2 * Quarter]
        ELSE -SinTable[FULL - d]

FpCos(degrees) == FpSin(degrees + Quarter)

\* map_solid.
MapSolid(x, y) ==
    \/ x < 0 \/ x >= MAP_W \/ y < 0 \/ y >= MAP_H
    \/ <<x, y>> \in Walls

-----------------------------------------------------------------------------
(* The camera: [x, y, angle].                                                *)

Camera == [x |-> INT2FP(StartX), y |-> INT2FP(StartY), angle |-> 0]

CellOf(cam) == <<FP2INT(cam.x), FP2INT(cam.y)>>

\* Faulty variant: both coordinates are tested from the old position.
MovedAtOnce(cam, dx, dy) ==
    LET nx == cam.x + dx
        ny == cam.y + dy
    IN  [cam EXCEPT !.x = IF MapSolid(FP2INT(nx), FP2INT(cam.y)) THEN @ ELSE nx,
                    !.y = IF MapSolid(FP2INT(cam.x), FP2INT(ny)) THEN @ ELSE ny]

\* A step in each direction that is free: x first, then y from there.
Moved(cam, dx, dy) ==
    LET nx == cam.x + dx
        ny == cam.y + dy
        c  == [cam EXCEPT !.x = IF MapSolid(FP2INT(nx), FP2INT(cam.y)) THEN @ ELSE nx]
    IN  [c EXCEPT !.y = IF MapSolid(FP2INT(c.x), FP2INT(ny)) THEN @ ELSE ny]

StepX(cam) == FP_MUL(FpCos(cam.angle), MOVE_SPEED)
StepY(cam) == FP_MUL(FpSin(cam.angle), MOVE_SPEED)

Forward(cam) == Moved(cam, StepX(cam), StepY(cam))
Back(cam) == Moved(cam, -StepX(cam), -StepY(cam))

\* Faulty variant: the angle is not brought back into a turn.
TurnedOn(cam, by) == [cam EXCEPT !.angle = @ + by]

Turned(cam, by) == [cam EXCEPT !.angle = (@ + by) % FULL]

-----------------------------------------------------------------------------
(* cast_ray: from border to border of the cells, until one is solid.         *)

\* How far apart two borders are along a direction with component r.
Delta(r) ==
    IF r \in (-NearAxis + 1) .. (NearAxis - 1)
    THEN INT2FP(Far)
    ELSE (FP_ONE * FP_ONE) \div (IF r > 0 THEN r ELSE -r)

\* Faulty variant: the near border, whichever way the ray goes.
NextBorderNear(p, r) ==
    IF r \in (-NearAxis + 1) .. (NearAxis - 1)
    THEN INT2FP(Far)
    ELSE FP_MUL(p % FP_ONE, Delta(r))

\* How far the first border is from position p.
NextBorder(p, r) ==
    IF r \in (-NearAxis + 1) .. (NearAxis - 1)
    THEN INT2FP(Far)
    ELSE FP_MUL(IF r > 0 THEN INT2FP(FP2INT(p) + 1) - p ELSE p - INT2FP(FP2INT(p)),
                Delta(r))

Way(r) == IF r > 0 THEN 1 ELSE -1

\* Where the ray starts; nothing is crossed yet.
FromCamera(cam, rx, ry) ==
    [mx |-> FP2INT(cam.x), my |-> FP2INT(cam.y), dist |-> 0, alongX |-> FALSE,
     tx |-> NextBorder(cam.x, rx), ty |-> NextBorder(cam.y, ry), hit |-> FALSE]

\* The nearer border is crossed.
Crossed(s, rx, ry) ==
    LET t == IF s.tx < s.ty
             THEN [s EXCEPT !.dist = s.tx, !.tx = @ + Delta(rx), !.mx = @ + Way(rx), !.alongX = TRUE]
             ELSE [s EXCEPT !.dist = s.ty, !.ty = @ + Delta(ry), !.my = @ + Way(ry), !.alongX = FALSE]
    IN  [t EXCEPT !.hit = MapSolid(t.mx, t.my)]

\* The cell the ray ends at, how far away, and whether it came in along x.
CastRay(cam, angle) ==
    LET rx == FpCos(angle)
        ry == FpSin(angle)
        walk[n \in 0 .. MAX_STEPS] ==
            IF n = 0 THEN FromCamera(cam, rx, ry)
            ELSE LET s == walk[n - 1] IN IF s.hit THEN s ELSE Crossed(s, rx, ry)
    IN  walk[MAX_STEPS]

\* The angles of the columns ray_render draws.
ViewOf(cam) == {cam.angle + k - FOV \div 2 : k \in 0 .. FOV - 1}
=============================================================================
