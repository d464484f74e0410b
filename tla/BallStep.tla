------------------------------- MODULE BallStep -------------------------------
(***************************************************************************)
(* One call of ball_advance (src/common/cpong_logic.c) with the geometry   *)
(* of src/lib/engine.c and src/lib/vector.c.                               *)
(*                                                                         *)
(* Lengths are whole numbers of a grid with PX of them to a pixel, and a   *)
(* ball moves along a diagonal: the grid then holds every place at which   *)
(* it touches something, and nothing is rounded but what the code rounds   *)
(* itself, the edges and times it passes as `int'.  A time of impact (toi) *)
(* is a fraction of the step, [n, d] with d > 0; where the code divides by *)
(* zero it is an infinity or no number, invalid like any other outside of  *)
(* (0, 1].  An object keeps half of its size.                              *)
(***************************************************************************)
EXTENDS Integers, Sequences

CONSTANTS
  PX,          \* grid steps to a pixel
  SpeedUp,     \* what a bounce adds to each component of the velocity
  SpeedCap,    \* the component above which it adds nothing
  MaxBounces   \* bound: turns of the loop of ball_advance

ASSUME GridAssumption ==
  /\ PX \in Nat \ {0} /\ SpeedUp \in Nat /\ SpeedCap \in Nat
  /\ MaxBounces \in Nat \ {0}

Zero == [x |-> 0, y |-> 0]

\* `struct game_obj ball_upd = { 0 }'.
Blank == [pos |-> Zero, velocity |-> Zero, half |-> Zero]

Plus(u, v) == [x |-> u.x + v.x, y |-> u.y + v.y]
Times(v, k) == [x |-> v.x * k, y |-> v.y * k]
Abs(a) == IF a < 0 THEN -a ELSE a
Sign(a) == IF a > 0 THEN 1 ELSE IF a < 0 THEN -1 ELSE 0

\* a / b towards zero for b > 0, as C divides and converts to int.
Quotient(a, b) == Sign(a) * (Abs(a) \div b)
ToInt(a) == PX * Quotient(a, PX)

\* Fractions.
Never == [n |-> -1, d |-> 1]
Ratio(a, b) == IF b = 0 THEN Never ELSE [n |-> Sign(b) * a, d |-> Abs(b)]
Less(r, s) == r.n * s.d < s.n * r.d
Same(r, s) == r.n * s.d = s.n * r.d
Sum2(r, s) ==
  IF r.d % s.d = 0 THEN [n |-> r.n + s.n * (r.d \div s.d), d |-> r.d]
  ELSE [n |-> r.n * s.d + s.n * r.d, d |-> r.d * s.d]
\* (int)(k - r), for a number k and a fraction r not above it.
IntLeft(k, r) == (k * r.d - r.n) \div r.d

\* Mutant of is_valid_toi: a ball that touches collides with what it touches.
ValidWhenTouching(toi) == 0 <= toi.n /\ toi.n <= toi.d

is_valid_toi(toi) == 0 < toi.n /\ toi.n <= toi.d

linear_move(obj, delta_time) ==
  [obj EXCEPT !.pos = Plus(@, Times(obj.velocity, delta_time))]

linear_interpolate(pos, way, toi) ==
  Plus(pos, [x |-> (toi.n * way.x) \div toi.d, y |-> (toi.n * way.y) \div toi.d])

AABB_get_boundaries(obj) ==
  [up |-> obj.pos.y + obj.half.y, down |-> obj.pos.y - obj.half.y,
   left |-> obj.pos.x - obj.half.x, right |-> obj.pos.x + obj.half.x]

NoCollision == [toi |-> Never, normal |-> Zero, pos |-> Zero]

\* Mutant of get_first_collision: the first of the list that is valid.
FirstOfList(collisions) ==
  LET hits == {i \in DOMAIN collisions : is_valid_toi(collisions[i].toi)}
  IN IF hits = {} THEN NoCollision
     ELSE collisions[CHOOSE i \in hits : \A j \in hits : i <= j]

\* The smallest valid toi, the first of equals.
get_first_collision(collisions) ==
  LET hits == {i \in DOMAIN collisions : is_valid_toi(collisions[i].toi)}
  IN IF hits = {} THEN NoCollision
     ELSE collisions[CHOOSE i \in hits : \A j \in hits :
            \/ Less(collisions[i].toi, collisions[j].toi)
            \/ Same(collisions[i].toi, collisions[j].toi) /\ i <= j]

Hit(collision) == is_valid_toi(collision.toi)

\* What a ball on its way meets at toi, if that is in time.
Reached(ball, way, toi, normal) ==
  IF ~is_valid_toi(toi) THEN NoCollision
  ELSE [toi |-> toi, normal |-> normal, pos |-> linear_interpolate(ball.pos, way, toi)]

\* Does the ball's leading side get to the edge at x, or at y, in this time?
ball_x_collide(ball, x, delta_time) ==
  LET dir == IF ball.velocity.x > 0 THEN 1 ELSE -1
      way == Times(ball.velocity, delta_time)
  IN Reached(ball, way, Ratio(x - dir * ball.half.x - ball.pos.x, way.x),
             [x |-> -dir, y |-> 0])

ball_y_collide(ball, y, delta_time) ==
  LET dir == IF ball.velocity.y > 0 THEN 1 ELSE -1
      way == Times(ball.velocity, delta_time)
  IN Reached(ball, way, Ratio(y - dir * ball.half.y - ball.pos.y, way.y),
             [x |-> 0, y |-> -dir])

\* Mutant of Beside: touching corners do not collide.
BesideOrTouching(b1, b2) == b1.up <= b2.down \/ b1.down >= b2.up

Beside(b1, b2) == b1.up < b2.down \/ b1.down > b2.up
Above(b1, b2) == b1.right < b2.left \/ b1.left > b2.right
BoundariesAt(ball, coll) == AABB_get_boundaries([ball EXCEPT !.pos = coll.pos])
UnlessBeside(coll, ball, edge) ==
  IF Beside(BoundariesAt(ball, coll), edge) THEN NoCollision ELSE coll
UnlessAbove(coll, ball, edge) ==
  IF Above(BoundariesAt(ball, coll), edge) THEN NoCollision ELSE coll

\* The ball against a paddle where that was when the tick began: the place at the
\* time of impact is computed from a toi that is still 0.
AABB_collide(ball, paddle, delta_time) ==
  LET edge == AABB_get_boundaries(paddle)
      x_coll == get_first_collision(<<ball_x_collide(ball, ToInt(edge.left), delta_time),
                                      ball_x_collide(ball, ToInt(edge.right), delta_time)>>)
      y_coll == get_first_collision(<<ball_y_collide(ball, ToInt(edge.up), delta_time),
                                      ball_y_collide(ball, ToInt(edge.down), delta_time)>>)
  IN get_first_collision(<<UnlessBeside(x_coll, ball, edge), UnlessAbove(y_coll, ball, edge)>>)

ball_wall_collide(wall, ball, delta_time) ==
  get_first_collision(<<ball_y_collide(ball, wall.up, delta_time),
                        ball_y_collide(ball, wall.down, delta_time)>>)

\* The side the ball gets to, and the index of the player who scores there: the
\* first player's paddle is at the right.
OrElse(coll, other) == IF Hit(coll) THEN coll ELSE other
ball_score_collide(wall, ball, delta_time) ==
  OrElse(ball_x_collide(ball, wall.left, delta_time),
         ball_x_collide(ball, wall.right, delta_time))
ScoredIndex(coll) == IF coll.normal.x > 0 THEN 0 ELSE 1

reflect_orthogonal(v, normal) ==
  IF normal.x = 0 THEN [v EXCEPT !.y = -@] ELSE [v EXCEPT !.x = -@]

\* Mutant of Faster: the speed-up works against the ball.
Slower(v, more) == [x |-> v.x - more * Sign(v.x), y |-> v.y - more * Sign(v.y)]

Faster(v, more) == [x |-> v.x + more * Sign(v.x), y |-> v.y + more * Sign(v.y)]

ball_bounce_on_collision(ball, normal) ==
  LET v == reflect_orthogonal(ball.velocity, normal)
      more == IF Abs(v.x) > SpeedCap THEN 0 ELSE SpeedUp
  IN [ball EXCEPT !.velocity = Faster(v, more)]

\* What a ball would meet: the paddles and the walls are tested over the whole
\* step, the sides over the time left of it.
Collisions(wall, paddle1, paddle2, ball, delta_time, left) ==
  <<AABB_collide(ball, paddle1, delta_time), AABB_collide(ball, paddle2, delta_time),
    ball_wall_collide(wall, ball, delta_time), ball_score_collide(wall, ball, left)>>

\* The ball after the first of its collisions, coll.  passed_time is in milliseconds
\* and grows by the fraction toi.  A ball that gets to a side by then has scored:
\* ball_upd stays blank.
AfterFirst(s, delta_time, left, score, coll) ==
  LET scored == Hit(score) /\ Same(coll.toi, score.toi)
      passed == Sum2(s.passed, coll.toi)
  IN IF ~Hit(coll) THEN
       [s EXCEPT !.ball = linear_move(@, left), !.done = TRUE]
     ELSE IF scored THEN
       [s EXCEPT !.ball = Blank, !.scored_index = ScoredIndex(score), !.done = TRUE]
     ELSE
       [s EXCEPT !.ball = ball_bounce_on_collision([@ EXCEPT !.pos = coll.pos], coll.normal),
                 !.passed = passed,
                 !.hits = Append(@, coll),
                 !.done = delta_time * passed.d <= passed.n]
AfterAll(s, delta_time, left, collisions) ==
  AfterFirst(s, delta_time, left, collisions[4], get_first_collision(collisions))

\* One turn of the loop.
Turn(wall, paddle1, paddle2, delta_time, s) ==
  LET left == IntLeft(delta_time, s.passed)
  IN AfterAll(s, delta_time, left,
              Collisions(wall, paddle1, paddle2, s.ball, delta_time, left))

\* The ball after the step, the player who has scored or -1, the collisions
\* on the way, and whether the loop has ended within MaxBounces turns.
ball_advance(wall, paddle1, paddle2, ball, delta_time) ==
  LET turns[k \in 0..MaxBounces] ==
        IF k = 0
        THEN [ball |-> ball, scored_index |-> -1, passed |-> Ratio(0, 1),
              hits |-> <<>>, done |-> FALSE]
        ELSE LET s == turns[k - 1]
             IN IF s.done THEN s ELSE Turn(wall, paddle1, paddle2, delta_time, s)
  IN turns[MaxBounces]
=============================================================================
