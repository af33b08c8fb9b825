---------------------------- MODULE StreamProofs ----------------------------
(***************************************************************************)
(* What follows from the promise of Stream alone: whoever implements it    *)
(* announces only what is stored, and nothing twice.                       *)
(***************************************************************************)
EXTENDS Stream, Naturals, TLAPS

Told == {announced[n] : n \in DOMAIN announced}

\* What is announced is stored and not owed, and is announced in one place.
OnceEach ==
    /\ Told \subseteq stored \ owed
    /\ \A m, n \in DOMAIN announced : announced[m] = announced[n] => m = n

StreamInv ==
    /\ stored \subseteq Item
    /\ announced \in Seq(Item)
    /\ owed \subseteq stored
    /\ OnceEach

\* One more announcement of something new keeps announcements distinct.
LEMMA AppendNew ==
    ASSUME announced \in Seq(Item), NEW i \in Item, i \notin Told,
           \A m, n \in DOMAIN announced : announced[m] = announced[n] => m = n,
           announced' = Append(announced, i)
    PROVE  /\ announced' \in Seq(Item)
           /\ Told' = Told \cup {i}
           /\ \A m, n \in DOMAIN announced' : announced'[m] = announced'[n] => m = n
<1>1. /\ DOMAIN announced = 1..Len(announced)
      /\ Len(announced) \in Nat
      /\ announced' \in Seq(Item)
      /\ DOMAIN announced' = 1..(Len(announced) + 1)
  OBVIOUS
<1>2. \A n \in 1..Len(announced) : announced'[n] = announced[n]
  OBVIOUS
<1>3. announced'[Len(announced) + 1] = i
  OBVIOUS
<1>4. DOMAIN announced' = DOMAIN announced \cup {Len(announced) + 1}
  BY <1>1
<1>5. Told' = Told \cup {i}
  BY <1>1, <1>2, <1>3, <1>4 DEF Told
<1>6. \A n \in DOMAIN announced : announced'[n] # i
  BY <1>1, <1>2 DEF Told
<1>7. ASSUME NEW m \in DOMAIN announced', NEW n \in DOMAIN announced',
             announced'[m] = announced'[n]
      PROVE  m = n
  <2>1. CASE m \in DOMAIN announced /\ n \in DOMAIN announced
    BY <1>1, <1>2, <1>7, <2>1
  <2>2. CASE m = Len(announced) + 1 \/ n = Len(announced) + 1
    BY <1>3, <1>4, <1>6, <1>7, <2>2
  <2> QED
    BY <1>4, <2>1, <2>2
<1> QED
  BY <1>1, <1>5, <1>7

\* A reader of the stream sees every item once and can look it up.
THEOREM ListenersHearOnce == StreamSpec => []OnceEach
<1>1. StreamInit => StreamInv
  BY DEF StreamInit, StreamInv, OnceEach, Told
<1>2. StreamInv /\ [StreamNext]_streamVars => StreamInv'
  <2> SUFFICES ASSUME StreamInv, [StreamNext]_streamVars PROVE StreamInv'
    OBVIOUS
  <2>1. ASSUME NEW i \in stored', Store(i) PROVE StreamInv'
    <3>1. /\ i \in Item /\ i \notin Told
          /\ stored' = stored \cup {i}
          /\ owed = {}
      BY <2>1 DEF Store, StreamInv, OnceEach
    <3>2. CASE UNCHANGED announced
      BY <2>1, <3>1, <3>2 DEF Store, StreamInv, OnceEach, Told
    <3>3. CASE announced' = Append(announced, i) /\ UNCHANGED owed
      BY <3>1, <3>3, AppendNew DEF StreamInv, OnceEach
    <3> QED
      BY <2>1, <3>2, <3>3 DEF Store
  <2>2. ASSUME NEW i \in owed, Tell(i) PROVE StreamInv'
    <3>1. i \in Item /\ i \in stored /\ i \notin Told
      BY <2>2 DEF StreamInv, OnceEach
    <3> QED
      BY <2>2, <3>1, AppendNew DEF Tell, StreamInv, OnceEach
  <2>3. CASE Forgive
    BY <2>3 DEF Forgive, StreamInv, OnceEach, Told
  <2>4. CASE GoLive
    BY <2>4 DEF GoLive, StreamInv, OnceEach, Told
  <2>5. CASE Begin
    BY <2>5 DEF Begin, StreamInv, OnceEach, Told
  <2>6. CASE UNCHANGED streamVars
    BY <2>6 DEF streamVars, StreamInv, OnceEach, Told
  <2> QED
    BY <2>1, <2>2, <2>3, <2>4, <2>5, <2>6 DEF StreamNext
<1>3. StreamInv => OnceEach
  BY DEF StreamInv, OnceEach
<1> QED
  BY <1>1, <1>2, <1>3, PTL DEF StreamSpec
=============================================================================
