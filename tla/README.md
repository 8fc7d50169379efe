# BoomEd in TLA+

A verification development for BoomEd, "an editor for a BBC Micro portal
engine" (C++23, one thread, GLFW and OpenGL). It holds models of the program's
own logic, TLC configurations that check them on small instances, and theorems
that the TLA+ proof system checks for every instance. Paths below are relative
to the repository's root; the program's own code is in `src/src`.

## Inventory

| Component | State it keeps | Operations | What makes it hard | What makes it correct |
|---|---|---|---|---|
| `commands/cmd.h`: `cmd_factory`, `deleter`, `unique_cmd`; `cmd_sentinel.h`, `cmd_add_vertex.h` | memory in a pmr pool; a pointer and a deleter per handle | `make`, the deleter, `reset`, destruction and move assignment of handles | exceptions between allocation and construction; the type is erased, so only the deleter remembers it; move assignment deletes with the old deleter before it copies the new one; `sentinel`'s name is a second allocation | one owner per command; the right `destroy<T>` and pool at deletion; no leak, no double free |
| `app/app.cpp`: `app` | locals of the constructor: pool, factory, two commands | constructor, (empty) `render` | the order of locals; exceptions at each of them, with the base class already built | the pool outlives its commands; unwinding undoes everything |
| `platform_glfw/platform`: `platform::app`, `main` | the window pointer; through GLFW and glad: the library, the window, its context, the GL function pointers | constructor, `run`, destructor | every call may fail, half of the results are ignored; exceptions out of the constructor; close requests arrive asynchronously | GLFW used only between init and terminate, GL only with loaded functions and a current 3.3 context; everything given back; a close request ends the loop |
| GLFW 3.4, glad 2.0.8 (vendored) | see above | the dozen calls `platform::app` makes | | (environment of the program; modelled as far as it is used) |
| `math/vec2.h` | pure | arithmetic, `dot`, `cross`, `lensqr`, `len`, `distancesqr`, `distance`, `min`, `max`, `make_sincos`, `normalised`, conversion between types | promotion, wrap-around, undefined overflow, widened results, a square root through `double`, silent narrowing, 0/0 | which results are exact, and for which arguments; narrowing commutes with arithmetic |
| `math/box2.h` | pure | constructors, conversion, `empty`, `center`, `contains`, `intersects`, `contains_point`, `make_union` | half-open boundaries, empty boxes, overflow, corners that narrowing put out of order, NaN | agreement with the sets of points the boxes stand for |
| `math/mat22.h`, `mat23.h` | pure | matrix algebra, `make_rot` | order of factors, direction of angles, singular matrices, rounding | composition, inverse, determinant, rotations adding up |
| `commands/history.h` | list of commands, cursor | declared, no bodies | | |
| `world/quadtree.h` | nodes | `add` is a stub, `remove` has no body | | |
| `app/document.h`, `world/world.h`, `utils/overloaded.h` | none | none | | |

How they interact: `main` constructs an `app`, whose base `platform::app` opens
GLFW and a window; `app`'s constructor then makes two commands with a
`cmd_factory` over a local pool and lets them go; `run` polls GLFW and clears
the window until GLFW has seen a close request; destructors undo the base.
Nothing is shared between threads and nothing is persisted, so there is no
concurrency and no recovery to model; the hazards are exceptions, lifetimes,
order, ignored failures and integer edges. `PROJECT.json` lists each with its
line.

## Modules

* `CmdFactory` models `cmd_factory` and the `std::unique_ptr` operations on its
  handles. `heap` maps addresses to what the pool handed out there (the kind of
  thing the block is sized for, the pool, whether an object lives in it, its
  name's buffer), `handle` maps each `unique_cmd` to pointer and deleter, and
  `frame` is the one call in progress with its place in the source. `make` is
  `MakeAllocate`, then `Construct`, `ConstructNamed` (a name too long for the
  string's inline buffer) or `ConstructThrows`, then `Return` or `Catch`; the
  deleter is `DestroyAt` and `Deallocate`; `Reset` and `MoveAssign` run it, and
  `AssignDeleter` ends a move assignment. `raised` records that the last `make`
  threw. Factories differ only in their pool.
* `CmdOwner` is the abstract specification: what a handle owns, and nothing
  else. `CmdFactory!ImplementsOwner` maps `owned[h]` to the kind of the block
  `h` points to; the linearisation points are `Return`, `Reset` and
  `MoveAssign`.
* `Glfw` has one operator per GLFW or glad call the program makes, translated
  from the vendored sources: `_GLFW_REQUIRE_INIT`, the list of windows, the
  context slot, the version check of a new context, the loader that does
  nothing without a current context. All of a call's failures in the window
  system or the driver are one error code, `PLATFORM_ERROR`.
* `BoomEd` is the program: `pc` names the next call, and each action is one
  call of `platform::app`, `app` or `main`, with its success and its failure.
  The commands are made by the actions of `CmdFactory` (as an instance with one
  pool and the handles `c` and `s`), so that a bad_alloc can come at each of
  them. An exception nobody catches either unwinds the stack or does not
  (`Throw`): the C++ standard leaves the choice to the implementation.
* `ScopedResources` is the abstract specification of the program's lifetimes:
  resources acquired in a fixed order and given back in the reverse order.
* `Vec2`, `Box2` are `vec2<T>` and `box2<T>` for a signed integral T as
  operators. T has the values `-Half..Half-1`; arithmetic is done in the
  promoted type (`OpHalf`), converting back wraps, and an operation that
  overflows the promoted type, or divides by zero, is undefined: operators
  return the set of results, all of T in that case. `scalar_result` is
  `ResultHalf`. Two's complement widths are given by their half ranges, so that
  the proofs need no powers of two.
* `Vec2Length` is `len` and `distance` for an integral T: the square becomes a
  `double`, whose significand counts up to `Exact`, a power of two (2^53 for the
  real one), its
  root another, and the fraction is dropped; both roundings are modelled.
* `VecNarrow` keeps a vector of a wide type and its conversion to a narrow one
  (`Load`) and applies every wrapping operation to both.
* `BoxCalls!NarrowAndBack` sends a box through a narrower type: the one way to a
  box whose corners are out of order. (Where a module both extends `Box2` and
  instantiates it for another width, TLC computes a constant set that is defined
  by another one, like `Vectors`, for the first width only; `BoxCalls` therefore
  takes nothing but `Narrow!Scalars` and operators from the instance.)
* `FloatBox` is `box2<T>` for a floating-point T as far as comparisons go: the
  values are numbered in their order between two infinities, and NaN is beside
  them. Its inputs are points and what `normalised` makes of them; as
  magnitudes are abstracted from, the length of a vector that is not zero may
  underflow to zero or overflow.
* `Mat22` is `mat22<T>` and `mat23<T>` on values that a floating-point T holds
  exactly: integers, and sines and cosines of quarter turns. `inverse` is for
  determinants 1 and -1, whose reciprocal is exact.
* `MatCalls` composes one transform of moves and turns, in front of or behind
  what is there, with the three products that `mat23.h` offers, and undoes the
  last by composing its inverse. `steps` is a history of what a point goes
  through, the meaning that `view` must have.
* `VecCalls` and `BoxCalls` are programs that compute with two vectors or two
  boxes, one call at a time: their reachable states are the vectors and boxes
  the library's own operations make, and their invariants say what the library
  answers about them.
* `MC_*` give the constants their values for TLC; `*Proofs` hold the theorems.
* A definition whose comment calls it another one with a mistake in it
  (`NoHint`, `ContainsOpen`, ...) is used by no specification: it is a mutation
  under which a named property is expected to fail.

## Runs

| Run | Instance | Shows |
|---|---|---|
| `cmd_factory` | 4 blocks, 2 pools, 2 handles, 27 786 states | every sequence of calls with every exception: deleters match, single ownership, no leak, names in their pool, memory given back as taken, and that it implements `CmdOwner` |
| `boomed` | drivers of OpenGL 2.1, 3.3 and 4.6, 3 blocks, 2 035 states | the whole program with every failure: library calls in order, drawing only in the window's current 3.3 context and, where an ignored refusal left none, a crash in the first call into GL, nothing dangling, the pool outlives its commands, nothing left behind, stack order (`ScopedResources`), correct use of the factory, and `CloseEnds` under fairness |
| `terminate` | as above | violated: a failed `glfwCreateWindow` leaves GLFW initialised |
| `vec2` | T of 3 bits, promoted to 6, all 4 096 pairs | `cross` exact, `dot` exact but for one pair, `distancesqr` exact exactly as long as no component is more than half of T's range apart and the sum fits, `distance` the same both ways, `len` (through a `double` of 3 significant bits) the root rounded down below half of `Exact`, at most one too much above and never less, `+` and `-` undo each other despite wrapping, remainder of division, and which quotients wrap, or, in a T that is not promoted, are undefined |
| `vec2_distance` | T = int of 3 bits | violated: `distancesqr` overflows before it widens, for pairs whose exact distance fits `scalar_result` |
| `vec2_narrow` | types of 5 and 3 bits, 7 operands, 1 024 states | after any sums, differences, negations and multiples, wrapping or not, the narrow vector is still the conversion of the wide one |
| `box2` | T = int of 3 bits, corners from 3 coordinates and what narrowing to 2 bits makes of them, 6 561 pairs of boxes, all 64 points | queries are the set operations they are named for, also of boxes out of order; union is least, without the added point unless that lies below the upper corner; bounds do not depend on the order they are grown in but on the origin, if begun with the default box; centre inside, narrowing adds no point |
| `box2_point` | as above | violated: the union of a box and a point need not contain the point |
| `box2_center` | as above | violated: the centre of a wide box overflows |
| `float_box` | coordinates 0 and 1, two infinities, NaN; 1 357 states, all 36 points | `contains` and `intersects` answer for the points of boxes with NaN, too; a union has the NaN of its first argument only, and always that one's points |
| `float_empty` | as above | violated: a box of NaN has no point and is not `empty` |
| `matrices` | up to 4 factors: half and quarter turns, a shear, a mirror, 2 moves; 1 555 states | a transform, however composed and undone, acts as its steps in turn; never singular; inverse on both sides; rigid if made of rotations, which then add up and are subtracted from the angle of a `make_sincos` vector; transposes; linearity |

Why the bounds are enough. Four blocks hold two named commands, the most two
handles can own, with one more block needed only by a `make` that both handles
exclude; two pools and two handles are what a move between different deleters
takes. The program has two commands that allocate one block each; the third
block leaves the allocator a choice. In the arithmetic modules the small width
keeps all the relations that matter: 6 bits are twice 3, so products fit the
promoted type exactly as 16-bit products fit 32, and the square of the least
value is half of `ResultHalf`, as with 32 and 64 bits. Squares go to four times
`Exact`, so that roots that are exact, rounded up, and of a rounded square all
occur. The coordinates of `box2` are both ends of the range and the default's
zero, and narrowing adds a fourth next to it; regions are compared over all
points of T. In `float_box` two finite coordinates, the infinities and NaN are
the classes that a comparison can tell apart in a box; `normalised` reaches all
of them. Four factors are two on each side of a view; three points that are not
on a line settle an affine map. What the instances show of safety, the theorems
show for all sizes, under the assumptions named with the proofs; `CloseEnds`
rests on the instance alone, whose three drivers take each of the branches a
context's version decides on.

Fairness. `BoomEd!Spec` assumes weak fairness of `Main`, the program's one
thread: it is scheduled, and each library call it makes returns. Nothing is
assumed of the environment; it may never ask the window to close. `Stopped`
is the stutter of a process that has ended, so TLC checks for deadlock
everywhere.

Findings. The five violated runs are disagreements between a text in the
repository and the code, listed with their lines in `PROJECT.json`. Besides
them, four things were met that no run shows: `mat22`'s converting constructor
reads members `x` and `y` that `mat22` does not have, `mat23::inverse` negates a
`mat22`, for which no operator exists, `mat22::make_rot`, under "Named
constructors", is not static and needs a matrix to be called on, and
`box2::center` divides a `vec2<T>` by the int 2, which only compiles for T =
int.

## Proofs

All proofs are of safety; `tlapm` checks them with Z3, Zenon and LS4.

* `CmdFactoryProofs`. The invariants of `CmdFactory` are not inductive: that a
  block is freed once depends on what the call in progress knows. `IInv` adds
  `FrameInv` (what `frame` guarantees at each place of `make` and the deleter:
  its block is of type `frame.T`, from pool `frame.mr`, alive exactly between
  construction and destruction, and during a move assignment the target's new
  command fits the source's deleter), `BlockInv` (a block is free or fully
  described, only a living sentinel has a name) and `Reachable` (each block is
  the call's, a handle's, or a name). One lemma per action shows that `IInv` is
  kept; `TypeOK`, `DeleterMatches`, `OneOwner`, `NameInPool`, `NoLeak` and
  `GivenBackAsTaken` follow, and with `OwnerStep`, which maps each step to an
  abstract one or a stutter, `Spec => ImplementsOwner`. The only assumption is
  that `NULL` is none of the other values; the sets of addresses, pools and
  handles are arbitrary, infinite ones included.
* `BoomEdProofs`. The invariants of `BoomEd` are not inductive: that the loop's
  window is open, say, depends on what every call before it did. `IInv` says, by
  the place the thread is at (`pc`), what the state must be: an exception that
  unwinds passes through destructors only (`UnwindingInv`), the library is
  initialized and the hint given (`LibraryInv`), the one open window is
  `window`, with the version hinted at (`WindowInv`), its context is current and
  the functions loaded unless the driver refused something, and after a refusal
  either both or neither, with an error nobody looks at (`ContextInv`), the
  pool is alive (`PoolInv`), which handle owns a command and which call of the
  factory is under way (`CommandInv`), and the memory in use is what the handles
  and that call hold (`HeapInv`). One lemma per call shows that `IInv` is kept,
  and the six safety invariants follow. For the refinements, `FactoryStep` maps
  each step to a step of `CmdFactory` or a stutter (the handles are given
  commands only when they are empty, and no call starts while another runs), and
  `HeldStep` maps it to an acquisition or release in stack order (`HeldByPlace`:
  what is held at each place). `FactoryPromises` then carries the theorems of
  `CmdFactoryProofs` over to the program, as an instance. Windows, addresses and
  versions are arbitrary sets; the assumptions are that `NULL` is none of their
  values and versions are numbers.
* `IntegerLemmas` has the facts about remainders that all proofs of wrapping and
  of rotations rest on, and about the powers of two. Its `LeastNatural`, that a
  set of numbers has a least one (from the library's well-foundedness of `<` on
  the naturals), stands for induction: the library's induction theorems take an
  operator as a parameter, which the installed provers cannot instantiate, but a
  set can be. `IntervalInduction` and `IntervalRecursion` (a function defined
  along an interval exists) follow from it.
* `BoxProofs`. The constructors and unions keep corners in order and a narrowed
  box keeps to the narrower type's values (`TypeOK`); a non-empty box contains
  its least and its last point, from which inclusion and overlap of point sets
  follow; the union is the least upper bound. `NarrowingAddsNoPoint` works one
  coordinate at a time (`NarrowInterval`): the ends of an interval wrap by
  multiples of the type's size of which the upper end's is not the lesser.
  `CentreInBox` is half of a positive size, truncated, from the lower corner.
  The assumptions are those of `Vec2` on widths, and for the last theorem that
  arithmetic is done in T itself (`OpHalf = Half`), as in int, the only T for
  which `center` compiles.
* `FloatBoxProofs`. All three invariants, for any number of finite values: a
  comparison that holds is one of numbers (`Comparisons`), so a box with a point
  has numbers for corners (`ProperBoxes`), and the first argument of `std::min`
  and `std::max` decides about NaN (`AxisOfCorners`). The assumption is that NaN
  is none of the numbers.
* `VecNarrowProofs`. Wrapping changes a number by a multiple of the narrow
  type's size, in the wide type as well, as its size is a multiple of it
  (`WrapParts`); such multiples disappear in sums, differences and products
  (`WrapSums`, `WrapProducts`). `NarrowTracksWide` is inductive with the wide
  vector's type. The assumption is that int holds every product of wide values,
  as it does for types of up to half its width.
* `VecProofs`. `TypeOK` from the range of a cast; `cross` and `dot` from bounds
  on a product of two values of T, for a `scalar_result` of at least, or
  exactly, twice T's width. Where T is narrower than int (`OpHalf >= 2 * Half`;
  nothing overflows there and every result is the wrapped one), a sum or a
  difference wraps once at most (`WrapNear`), so it wraps back (`Undoes`), and
  a difference that wraps has a smaller square unless it wraps to its opposite
  (`WrappedSquare`, for `DistanceNear`). `DivisionLoses` splits the one quotient
  that wraps, -Half / -1, from the others, and shows of a T that is not promoted
  (the instance `Unpromoted`) that this one alone, and division by zero, is
  undefined. For T = int the overflow of sums and differences is undefined, and
  `RoundTrips` and `DistanceExactIfNear` are not claimed. `LengthFloor` is about both roundings of `len`:
  `PowerAbove` is the least power of two from its argument on
  (`PowerAboveLeast`), the double of a square is within half an ulp, on the same
  side of the powers of two (`DoubleIs`), and that is no more than the root
  (`DoubleNear`); a root that rounds up to an integer is of a number near its
  square (`UpIsNear`), one that does not is not (`NearIsUp`), and below half of
  `Exact` no number is near enough (`SmallRootExact`). It assumes a
  `scalar_result` of at least twice T's width and that a double holds every
  value of T (`Exact >= 2 * Half`), as it does for 8, 16 and 32 bits;
  `scalar_result` is of 64 bits for all of them. `DotExact` is about 32 bits,
  exactly half of that.
* `MatProofs`. The entries of a product are polynomials in the factors'; the
  lemmas on integers (`ComposeEntry`, `DeterminantEntry`, `InverseEntry`,
  `LinearEntry`) are what the solver is asked, and the others lift them to
  matrices. Determinants multiply, so those of determinant 1 or -1 are closed
  under all a view is made of (`TypeCorrect`), and the inverse divides by no
  zero (`Inverts`). `ViewFollows` says of *every* point of the plane what
  `AppliesStepsInTurn` says of the given ones, and is inductive
  (`ViewAlwaysFollows`): composing in front of a view asks about the images of
  the points, and undoing needs that a factor's images are apart.
  `ProductsActInTurn` is its step; the points a point passes through exist by
  `IntervalRecursion`. `RotationsAddUp` composes the same points' rotations: the
  angle of a rotation is the remainder modulo 4 (`AngleOfRotation`), angles add
  up along the steps (`AnglesAddUp`), and a view that ends where rotations do
  has their matrix (`SameImages`). The assumption is that the given matrices
  have determinant 1 or -1; `MaxSteps` is any number.

Only model-checked: the liveness property `CloseEnds` of `BoomEd`, which is
beyond the prover. Every other property of a passing run is a theorem. The five
violated properties are refuted on their instances and nothing is proved of
them.

## Plan

1. `CmdFactory`, `CmdOwner`, their proofs: done.
2. `Glfw`, `BoomEd`, `ScopedResources`: modelled, checked, and their safety and
   both refinements proved; `CloseEnds` stays with TLC.
3. `Vec2`, `Vec2Length`, `VecNarrow`, `Box2`, `FloatBox`: modelled, checked and
   proved.
4. `Mat22`: modelled, checked and proved.
5. Next: what holds of T of 64 bits, as wide as `scalar_result`, for which only
   types are proved; and the two halves of `LengthIsFloor` for squares from half
   of `Exact` on, where the length may be one too great, with the exact set of
   squares for which it is.

## Not modelled

`history` is declared and has no bodies, so what it would do is nowhere to be
translated from; `document` and `world` have no members, `overloaded` no state.
`quadtree::add` ignores its arguments, stores nothing and returns false, and
`remove` has no body: its tree never leaves the state it was constructed in, so
any property of it holds, or fails, at once. Rounding of floating-point
arithmetic is out of TLC's reach: floating-point T appears in `Mat22` on values
that are exact and in `FloatBox` by its order, and inverses that are not exact
are left out. Converting a box or a vector between floating-point types, or
from one to an integral type, is rounding and not modelled either.
Of GLFW only the X11 back end's behaviour is followed where back ends differ;
if the driver refuses to let go of a context while a failed `glfwCreateWindow`
cleans up, the slot's value is not tracked further, because the program makes
no call after it.
