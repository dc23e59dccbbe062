------------------------------ MODULE GuessProofs ------------------------------
(***************************************************************************)
(* A counter of wrong guesses with a lock, as Logins and MailCodes keep    *)
(* them: the lock is looked up before the guess, the counter is raised     *)
(* after it, and the lock is written last, by the value the counter had.   *)
(* Many requests do this at once.  Of those under way, some are ahead of   *)
(* their guess, some have guessed wrong and are not counted yet, and some  *)
(* are about to write the lock; Limited relates their numbers to the       *)
(* counter, and the lemmas say that every step a request can take keeps    *)
(* it.                                                                     *)
(***************************************************************************)
EXTENDS Integers, FiniteSets, FiniteSetTheorems, TLAPS

Limited(all, top, tried, fails, locked, ahead, uncounted, locking) ==
    /\ tried <= fails + Cardinality(uncounted)
    /\ tried + Cardinality(ahead) <= top - 1 + Cardinality(all)
    /\ locked \/ fails <= top - 1 + Cardinality(locking)

LEMMA Sizes ==
  ASSUME NEW all, IsFiniteSet(all), NEW S, S \subseteq all
  PROVE  IsFiniteSet(S) /\ Cardinality(S) \in Nat /\ Cardinality(S) <= Cardinality(all)
         /\ Cardinality(all) \in Nat
  BY FS_Subset, FS_CardinalityType

LEMMA Grown ==
  ASSUME NEW all, IsFiniteSet(all), NEW S, S \subseteq all, NEW r \in all, r \notin S
  PROVE  Cardinality(S \cup {r}) = Cardinality(S) + 1
  BY Sizes, FS_AddElement

LEMMA Shrunk ==
  ASSUME NEW all, IsFiniteSet(all), NEW S, S \subseteq all, NEW r \in S
  PROVE  Cardinality(S \ {r}) = Cardinality(S) - 1
  BY Sizes, FS_RemoveElement

LEMMA NoMore ==
  ASSUME NEW all, IsFiniteSet(all), NEW T, T \subseteq all, NEW S, S \subseteq T
  PROVE  Cardinality(S) <= Cardinality(T) /\ Cardinality(S) \in Nat /\ Cardinality(T) \in Nat
  BY Sizes, FS_Subset, FS_CardinalityType

LEMMA Disjoint ==
  ASSUME NEW all, IsFiniteSet(all), NEW S, S \subseteq all, NEW T, T \subseteq all, S \cap T = {}
  PROVE  Cardinality(S \cup T) = Cardinality(S) + Cardinality(T)
<1>1. /\ IsFiniteSet(S) /\ IsFiniteSet(T) /\ Cardinality(S) \in Nat /\ Cardinality(T) \in Nat
  BY Sizes
<1>2. Cardinality(S \cup T) = Cardinality(S) + Cardinality(T) - Cardinality(S \cap T)
  BY <1>1, FS_Union
<1>3. Cardinality(S \cap T) = 0
  BY FS_EmptySet
<1> QED BY <1>1, <1>2, <1>3

\* Three sets of requests that have nothing in common, and one request that is in none.
LEMMA ThreeAndOne ==
  ASSUME NEW all, IsFiniteSet(all),
         NEW A, A \subseteq all, NEW B, B \subseteq all, NEW C, C \subseteq all,
         A \cap B = {}, A \cap C = {}, B \cap C = {}, NEW r \in all, r \notin A \cup B \cup C
  PROVE  Cardinality(A) + Cardinality(B) + Cardinality(C) + 1 <= Cardinality(all)
<1>1. Cardinality(A) \in Nat /\ Cardinality(B) \in Nat /\ Cardinality(C) \in Nat
  BY Sizes
<1>2. Cardinality(A \cup B) = Cardinality(A) + Cardinality(B)
  BY Disjoint
<1>3. PICK D : D = A \cup B
  OBVIOUS
<1>4. Cardinality(D \cup C) = Cardinality(D) + Cardinality(C)
  <2>1. D \subseteq all /\ D \cap C = {}
    BY <1>3
  <2> QED BY <2>1, Disjoint
<1>5. PICK E : E = D \cup C
  OBVIOUS
<1>6. E \subseteq all /\ r \notin E /\ E \cup {r} \subseteq all
  BY <1>3, <1>5
<1>7. Cardinality(E \cup {r}) = Cardinality(E) + 1
  BY <1>6, Grown
<1>8. Cardinality(E \cup {r}) <= Cardinality(all) /\ Cardinality(all) \in Nat
  BY <1>6, Sizes
<1>9. Cardinality(E) = Cardinality(A) + Cardinality(B) + Cardinality(C)
  <2>1. Cardinality(D) = Cardinality(A) + Cardinality(B)
    BY <1>2, <1>3
  <2>2. Cardinality(E) = Cardinality(D) + Cardinality(C)
    BY <1>4, <1>5
  <2> QED BY <1>1, <2>1, <2>2
<1> QED BY <1>1, <1>7, <1>8, <1>9

-----------------------------------------------------------------------------

\* A request that leaves, or goes on at no cost.
LEMMA LimitedKeeps ==
  ASSUME NEW all, IsFiniteSet(all), NEW top \in Nat, NEW tried \in Nat, NEW fails \in Nat,
         NEW locked \in BOOLEAN,
         NEW A, A \subseteq all, NEW U, NEW L,
         NEW A2, A2 \subseteq A, NEW U2, U \subseteq U2, U2 \subseteq all,
         NEW L2, L \subseteq L2, L2 \subseteq all,
         Limited(all, top, tried, fails, locked, A, U, L)
  PROVE  Limited(all, top, tried, fails, locked, A2, U2, L2)
<1>1. /\ Cardinality(A2) <= Cardinality(A) /\ Cardinality(U) <= Cardinality(U2)
      /\ Cardinality(L) <= Cardinality(L2) /\ Cardinality(all) \in Nat
      /\ Cardinality(A2) \in Nat /\ Cardinality(A) \in Nat /\ Cardinality(U) \in Nat
      /\ Cardinality(U2) \in Nat /\ Cardinality(L) \in Nat /\ Cardinality(L2) \in Nat
  BY NoMore, Sizes
<1>2. locked \/ fails <= top - 1 + Cardinality(L2)
  BY <1>1 DEF Limited
<1> QED BY <1>1, <1>2 DEF Limited

\* A request finds no lock.
LEMMA LimitedEnters ==
  ASSUME NEW all, IsFiniteSet(all), NEW top \in Nat, NEW tried \in Nat, NEW fails \in Nat,
         NEW A, A \subseteq all, NEW U, U \subseteq all, NEW L, L \subseteq all,
         A \cap U = {}, A \cap L = {}, U \cap L = {}, NEW r \in all, r \notin A \cup U \cup L,
         Limited(all, top, tried, fails, FALSE, A, U, L)
  PROVE  Limited(all, top, tried, fails, FALSE, A \cup {r}, U, L)
<1>1. /\ Cardinality(A) \in Nat /\ Cardinality(U) \in Nat /\ Cardinality(L) \in Nat
      /\ Cardinality(all) \in Nat /\ Cardinality(A \cup {r}) = Cardinality(A) + 1
  BY Sizes, Grown
<1>2. Cardinality(A) + Cardinality(U) + Cardinality(L) + 1 <= Cardinality(all)
  BY ThreeAndOne
<1> QED BY <1>1, <1>2 DEF Limited

\* It guesses wrong.
LEMMA LimitedGuesses ==
  ASSUME NEW all, IsFiniteSet(all), NEW top \in Nat, NEW tried \in Nat, NEW fails \in Nat,
         NEW locked \in BOOLEAN,
         NEW A, A \subseteq all, NEW U, U \subseteq all, NEW L, NEW r \in A, r \notin U,
         Limited(all, top, tried, fails, locked, A, U, L)
  PROVE  Limited(all, top, tried + 1, fails, locked, A \ {r}, U \cup {r}, L)
<1>1. /\ Cardinality(A) \in Nat /\ Cardinality(U) \in Nat /\ Cardinality(all) \in Nat
      /\ Cardinality(A \ {r}) = Cardinality(A) - 1 /\ Cardinality(U \cup {r}) = Cardinality(U) + 1
  BY Sizes, Grown, Shrunk
<1>2. locked \/ fails <= top - 1 + Cardinality(L)
  BY DEF Limited
<1> QED BY <1>1, <1>2 DEF Limited

\* It is counted, and below the limit that is all.
LEMMA LimitedCounts ==
  ASSUME NEW all, IsFiniteSet(all), NEW top \in Nat, NEW tried \in Nat, NEW fails \in Nat,
         NEW locked \in BOOLEAN,
         NEW A, A \subseteq all, NEW U, U \subseteq all, NEW L, L \subseteq all, NEW r \in U,
         Limited(all, top, tried, fails, locked, A, U, L), fails + 1 < top
  PROVE  Limited(all, top, tried, fails + 1, locked, A, U \ {r}, L)
<1>1. /\ Cardinality(A) \in Nat /\ Cardinality(U) \in Nat /\ Cardinality(L) \in Nat
      /\ Cardinality(all) \in Nat /\ Cardinality(U \ {r}) = Cardinality(U) - 1
  BY Sizes, Shrunk
<1>2. fails + 1 <= top - 1 + Cardinality(L)
  BY <1>1
<1> QED BY <1>1, <1>2 DEF Limited

\* At the limit it is about to write the lock.
LEMMA LimitedReaches ==
  ASSUME NEW all, IsFiniteSet(all), NEW top \in Nat, NEW tried \in Nat, NEW fails \in Nat,
         NEW locked \in BOOLEAN,
         NEW A, A \subseteq all, NEW U, U \subseteq all, NEW L, L \subseteq all,
         NEW r \in U, r \notin L,
         Limited(all, top, tried, fails, locked, A, U, L)
  PROVE  Limited(all, top, tried, fails + 1, locked, A, U \ {r}, L \cup {r})
<1>1. /\ Cardinality(A) \in Nat /\ Cardinality(U) \in Nat /\ Cardinality(L) \in Nat
      /\ Cardinality(all) \in Nat /\ Cardinality(U \ {r}) = Cardinality(U) - 1
      /\ Cardinality(L \cup {r}) = Cardinality(L) + 1
  BY Sizes, Shrunk, Grown
<1>2. locked \/ fails + 1 <= top - 1 + Cardinality(L \cup {r})
  BY <1>1 DEF Limited
<1> QED BY <1>1, <1>2 DEF Limited

\* It writes the lock.
LEMMA LimitedLocks ==
  ASSUME NEW all, NEW top, NEW tried, NEW fails, NEW locked \in BOOLEAN,
         NEW A, NEW U, NEW L, NEW L2,
         Limited(all, top, tried, fails, locked, A, U, L)
  PROVE  Limited(all, top, tried, fails, TRUE, A, U, L2)
  BY DEF Limited

\* The lock lapses after the counter did.
LEMMA LimitedUnlocks ==
  ASSUME NEW all, IsFiniteSet(all), NEW top \in Nat, NEW tried, NEW fails \in Nat, fails < top,
         NEW locked \in BOOLEAN, NEW A, NEW U, NEW L, L \subseteq all,
         Limited(all, top, tried, fails, locked, A, U, L)
  PROVE  Limited(all, top, tried, fails, FALSE, A, U, L)
<1>1. Cardinality(L) \in Nat
  BY Sizes
<1>2. fails <= top - 1 + Cardinality(L)
  BY <1>1
<1> QED BY <1>2 DEF Limited

\* The counter is cleared or lapses.
LEMMA LimitedClears ==
  ASSUME NEW all, IsFiniteSet(all), NEW top \in Nat \ {0}, NEW locked \in BOOLEAN,
         NEW A, A \subseteq all, NEW U, U \subseteq all, NEW L, L \subseteq all
  PROVE  Limited(all, top, 0, 0, locked, A, U, L)
<1>1. /\ Cardinality(A) \in Nat /\ Cardinality(U) \in Nat /\ Cardinality(L) \in Nat
      /\ Cardinality(all) \in Nat /\ Cardinality(A) <= Cardinality(all)
      /\ top \in Nat /\ top >= 1
  BY Sizes
<1>2. 0 <= top - 1 + Cardinality(L)
  BY <1>1
<1> QED BY <1>1, <1>2 DEF Limited

\* What is promised.
LEMMA LimitedBounds ==
  ASSUME NEW all, IsFiniteSet(all), NEW top \in Nat, NEW tried \in Nat, NEW fails, NEW locked,
         NEW A, A \subseteq all, NEW U, NEW L,
         Limited(all, top, tried, fails, locked, A, U, L)
  PROVE  tried <= top + Cardinality(all) - 1
<1>1. Cardinality(A) \in Nat /\ Cardinality(all) \in Nat
  BY Sizes
<1> QED BY <1>1 DEF Limited
=============================================================================
