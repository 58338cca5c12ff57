------------------------------- MODULE Version -------------------------------
(***************************************************************************)
(* Version::isAtLeast (src/src/version.cpp): whether the library that was  *)
(* built is of the version a program asks for, or of a later one.          *)
(***************************************************************************)
EXTENDS Integers

(* <<major, minor, patch>> *)
Versions == Int \X Int \X Int

IsAtLeast(built, asked) ==
    /\ built[1] >= asked[1]
    /\ built[1] > asked[1] \/ built[2] >= asked[2]
    /\ built[1] > asked[1] \/ built[2] > asked[2] \/ built[3] >= asked[3]

(***************************************************************************)
(* The order of versions: the first number that differs decides.           *)
(***************************************************************************)
DiffersFirst(v, w, i) == v[i] # w[i] /\ \A j \in 1..(i - 1) : v[j] = w[j]

AtOrAfter(v, w) == v = w \/ \E i \in 1..3 : DiffersFirst(v, w, i) /\ v[i] > w[i]

(***************************************************************************)
(* isAtLeast answers by that order: a later major or minor number decides, *)
(* whatever smaller numbers follow it.                                     *)
(***************************************************************************)
VersionOrder ==
    \A built, asked \in Versions : IsAtLeast(built, asked) <=> AtOrAfter(built, asked)

(***************************************************************************)
(* So it is for all numbers.                                                *)
(***************************************************************************)
THEOREM IsAtLeastIsTheOrder == VersionOrder
<1> SUFFICES ASSUME NEW built \in Versions, NEW asked \in Versions
             PROVE  IsAtLeast(built, asked) <=> AtOrAfter(built, asked)
  BY DEF VersionOrder
<1>1. /\ built[1] \in Int /\ built[2] \in Int /\ built[3] \in Int
      /\ asked[1] \in Int /\ asked[2] \in Int /\ asked[3] \in Int
      /\ built = <<built[1], built[2], built[3]>>
      /\ asked = <<asked[1], asked[2], asked[3]>>
  BY DEF Versions
<1>2. /\ DiffersFirst(built, asked, 1) <=> built[1] # asked[1]
      /\ DiffersFirst(built, asked, 2) <=> built[1] = asked[1] /\ built[2] # asked[2]
      /\ DiffersFirst(built, asked, 3) <=>
            built[1] = asked[1] /\ built[2] = asked[2] /\ built[3] # asked[3]
  BY DEF DiffersFirst
<1>3. built = asked <=> built[1] = asked[1] /\ built[2] = asked[2] /\ built[3] = asked[3]
  BY <1>1
<1>4. AtOrAfter(built, asked) <=>
         \/ built = asked
         \/ DiffersFirst(built, asked, 1) /\ built[1] > asked[1]
         \/ DiffersFirst(built, asked, 2) /\ built[2] > asked[2]
         \/ DiffersFirst(built, asked, 3) /\ built[3] > asked[3]
  BY DEF AtOrAfter
<1>5. QED
  BY <1>1, <1>2, <1>3, <1>4 DEF IsAtLeast
=============================================================================
