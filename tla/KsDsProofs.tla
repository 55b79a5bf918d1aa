----------------------------- MODULE KsDsProofs -----------------------------
(***************************************************************************)
(* The safety of ks_ds for every set of keys, every hash function, every   *)
(* initial capacity and every sequence of calls.                           *)
(***************************************************************************)
EXTENDS KsDs, TLAPS, FiniteSetTheorems

-----------------------------------------------------------------------------
(* Arithmetic of the probe sequence.                                       *)

\* Min (of FiniteSetsExt) is the least element of a set of naturals.
LEMMA MinIsLeast ==
  ASSUME NEW S \in SUBSET Nat, S # {}
  PROVE  Min(S) \in S /\ \A y \in S : Min(S) <= y
<1> DEFINE R == OpToRel(<, Nat)
<1>1. \A x, y \in Nat : y < x => <<y, x>> \in R
  BY DEF OpToRel
<1>2. IsWellFoundedOn(R, Nat)
  BY NatLessThanWellFounded
<1> HIDE DEF R
<1>3. PICK x \in S : \A y \in S : ~(<<y, x>> \in R)
  BY <1>2, WFMin
<1>4. ASSUME NEW y \in S
      PROVE  x <= y
  <2>1. ~(<<y, x>> \in R)
    BY <1>3
  <2>2. ~(y < x)
    BY <1>1, <2>1
  <2> QED BY <2>2
<1> QED BY <1>4 DEF Min

\* ks_ds_index returns a slot of the table.
LEMMA IndexInRange ==
  ASSUME NEW cap \in Nat \ {0}, NEW k \in Keys
  PROVE  Index(k, cap) \in 0 .. cap - 1
BY HashAssumption DEF Index

\* Probe and Distance are inverse to each other.
LEMMA ProbeDistance ==
  ASSUME NEW cap \in Nat \ {0}, NEW h \in 0 .. cap - 1
  PROVE  /\ \A d \in 0 .. cap - 1 : /\ Probe(h, d, cap) \in 0 .. cap - 1
                                    /\ Distance(h, Probe(h, d, cap), cap) = d
         /\ \A s \in 0 .. cap - 1 : /\ Distance(h, s, cap) \in 0 .. cap - 1
                                    /\ Probe(h, Distance(h, s, cap), cap) = s
BY DEF Probe, Distance

\* A slot passed on the way from a key's home slot to slot s is in range.
LEMMA PassedInRange ==
  ASSUME NEW cap \in Nat \ {0}, NEW k \in Keys, NEW s \in 0 .. cap - 1,
         NEW d \in 0 .. Distance(Index(k, cap), s, cap) - 1
  PROVE  Probe(Index(k, cap), d, cap) \in 0 .. cap - 1
<1>1. Index(k, cap) \in 0 .. cap - 1
  BY IndexInRange
<1>2. Distance(Index(k, cap), s, cap) \in 0 .. cap - 1
  BY <1>1, ProbeDistance
<1>3. d \in 0 .. cap - 1
  BY <1>2
<1> QED BY <1>1, <1>3, ProbeDistance

-----------------------------------------------------------------------------
(* What ks_ds_find returns on an array with an EMPTY slot.                 *)

HasEmpty(tab)   == \E s \in DOMAIN tab : tab[s].state = "EMPTY"
WellFormed(tab) == \A s \in OccupiedSlots(tab) : /\ tab[s].key \in Keys
                                                 /\ tab[s].value \in Values
Absent(tab, k)  == \A s \in OccupiedSlots(tab) : tab[s].key # k

\* The search stops, and at the first slot where it may.
LEMMA FindStops ==
  ASSUME NEW cap \in Nat \ {0}, NEW tab \in [0 .. cap - 1 -> Entries],
         HasEmpty(tab), NEW k \in Keys
  PROVE  /\ StopDistance(tab, cap, k) \in 0 .. cap - 1
         /\ Stops(tab[Probe(Index(k, cap), StopDistance(tab, cap, k), cap)], k)
         /\ \A d \in 0 .. cap - 1 :
              Stops(tab[Probe(Index(k, cap), d, cap)], k) => StopDistance(tab, cap, k) <= d
<1> DEFINE h == Index(k, cap)
           D == StopDistances(tab, cap, k)
<1>1. h \in 0 .. cap - 1
  BY IndexInRange
<1>2. PICK s \in 0 .. cap - 1 : tab[s].state = "EMPTY"
  BY DEF HasEmpty
<1>3. /\ Distance(h, s, cap) \in 0 .. cap - 1
      /\ Probe(h, Distance(h, s, cap), cap) = s
  BY <1>1, ProbeDistance
<1>4. Distance(h, s, cap) \in D
  BY <1>2, <1>3 DEF StopDistances, Stops
<1>5. D \in SUBSET Nat /\ D # {}
  BY <1>4 DEF StopDistances
<1>6. Min(D) \in D /\ \A y \in D : Min(D) <= y
  BY <1>5, MinIsLeast
<1> QED BY <1>6 DEF StopDistance, StopDistances

\* A search that finds the key returns the slot that holds it.  One that does
\* not returns a slot that is not OCCUPIED, behind no EMPTY slot.
LEMMA FindSlot ==
  ASSUME NEW cap \in Nat \ {0}, NEW tab \in [0 .. cap - 1 -> Entries],
         HasEmpty(tab), NEW k \in Keys
  PROVE  LET h == Index(k, cap)
             s == FindIndex(tab, cap, k)
         IN  /\ s \in 0 .. cap - 1
             /\ Found(tab, cap, k) => tab[s].state = "OCCUPIED" /\ tab[s].key = k
             /\ ~Found(tab, cap, k) =>
                  /\ tab[s].state # "OCCUPIED"
                  /\ \A d \in 0 .. Distance(h, s, cap) - 1 :
                       tab[Probe(h, d, cap)].state # "EMPTY"
<1> DEFINE h == Index(k, cap)
           n == StopDistance(tab, cap, k)
           U == TombstonesBefore(tab, cap, k, n)
           m == IF Found(tab, cap, k) \/ U = {} THEN n ELSE Min(U)
<1>1. h \in 0 .. cap - 1
  BY IndexInRange
<1>2. /\ n \in 0 .. cap - 1
      /\ Stops(tab[Probe(h, n, cap)], k)
      /\ \A d \in 0 .. cap - 1 : Stops(tab[Probe(h, d, cap)], k) => n <= d
  BY FindStops
<1>3. FindIndex(tab, cap, k) = Probe(h, m, cap)
  BY DEF FindIndex
<1>4. U # {} => Min(U) \in U
  <2>1. U \in SUBSET Nat
    BY <1>2 DEF TombstonesBefore
  <2> QED BY <2>1, MinIsLeast
<1>5. /\ m \in 0 .. n
      /\ m \in 0 .. cap - 1
  BY <1>2, <1>4 DEF TombstonesBefore
<1>6. /\ Probe(h, m, cap) \in 0 .. cap - 1
      /\ Distance(h, Probe(h, m, cap), cap) = m
  BY <1>1, <1>5, ProbeDistance
<1>7. CASE Found(tab, cap, k)
  <2>1. m = n
    BY <1>7
  <2>2. tab[Probe(h, n, cap)].state = "OCCUPIED"
    BY <1>7 DEF Found
  <2>3. tab[Probe(h, n, cap)].key = k
    BY <1>2, <2>2 DEF Stops
  <2> QED BY <1>3, <1>6, <1>7, <2>1, <2>2, <2>3
<1>8. CASE ~Found(tab, cap, k)
  <2>1. tab[Probe(h, m, cap)].state # "OCCUPIED"
    <3>1. CASE U = {}
      BY <1>8, <3>1 DEF Found
    <3>2. CASE U # {}
      BY <1>4, <1>8, <3>2 DEF TombstonesBefore
    <3> QED BY <3>1, <3>2
  <2>2. ASSUME NEW d \in 0 .. m - 1
        PROVE  tab[Probe(h, d, cap)].state # "EMPTY"
    <3>1. d \in 0 .. cap - 1 /\ ~(n <= d)
      BY <1>2, <1>5
    <3> QED BY <1>2, <3>1 DEF Stops
  <2> QED BY <1>3, <1>6, <1>8, <2>1, <2>2
<1> QED BY <1>7, <1>8

\* On a chained array a search finds every key that is stored.
LEMMA NotFoundAbsent ==
  ASSUME NEW cap \in Nat \ {0}, NEW tab \in [0 .. cap - 1 -> Entries],
         HasEmpty(tab), Chained(tab, cap), NEW k \in Keys, ~Found(tab, cap, k)
  PROVE  Absent(tab, k)
<1> SUFFICES ASSUME NEW s \in OccupiedSlots(tab), tab[s].key = k
             PROVE  FALSE
  BY DEF Absent
<1> DEFINE h == Index(k, cap)
           n == StopDistance(tab, cap, k)
<1>1. h \in 0 .. cap - 1
  BY IndexInRange
<1>2. s \in 0 .. cap - 1 /\ tab[s].state = "OCCUPIED"
  BY DEF OccupiedSlots
<1>3. /\ Distance(h, s, cap) \in 0 .. cap - 1
      /\ Probe(h, Distance(h, s, cap), cap) = s
  BY <1>1, <1>2, ProbeDistance
<1>4. /\ n \in 0 .. cap - 1
      /\ Stops(tab[Probe(h, n, cap)], k)
      /\ n <= Distance(h, s, cap)
  BY <1>2, <1>3, FindStops DEF Stops
<1>5. tab[Probe(h, n, cap)].state = "EMPTY"
  BY <1>4 DEF Found, Stops
<1>6. n \in 0 .. Distance(h, s, cap) - 1
  BY <1>2, <1>3, <1>4, <1>5
<1>7. tab[Probe(h, n, cap)].state # "EMPTY"
  BY <1>6 DEF Chained
<1> QED BY <1>5, <1>7

-----------------------------------------------------------------------------
(* What a change of one slot does to an array.                             *)

Tabled(tab, cap) == /\ tab \in [0 .. cap - 1 -> Entries]
                    /\ WellFormed(tab)
                    /\ Distinct(tab)
                    /\ Chained(tab, cap)

\* The array with entry e in slot s.
Updated(tab, s, e) == [tab EXCEPT ![s] = e]

\* A search for an absent key returns a slot in which the key can be stored.
LEMMA StoreKeepsTable ==
  ASSUME NEW cap \in Nat \ {0}, NEW tab, Tabled(tab, cap), HasEmpty(tab),
         NEW k \in Keys, NEW v \in Values, ~Found(tab, cap, k),
         NEW s, s = FindIndex(tab, cap, k),
         NEW new, new = Updated(tab, s, Entry("OCCUPIED", k, v))
  PROVE  /\ Tabled(new, cap)
         /\ s \in DOMAIN tab /\ s \notin OccupiedSlots(tab)
         /\ OccupiedSlots(new) = OccupiedSlots(tab) \cup {s}
         /\ UsedSlots(new) = UsedSlots(tab) \cup {s}
<1>1. tab \in [0 .. cap - 1 -> Entries]
  BY DEF Tabled
<1>2. /\ s \in 0 .. cap - 1
      /\ tab[s].state # "OCCUPIED"
      /\ \A d \in 0 .. Distance(Index(k, cap), s, cap) - 1 :
           tab[Probe(Index(k, cap), d, cap)].state # "EMPTY"
  BY <1>1, FindSlot
<1>3. Absent(tab, k)
  BY <1>1, NotFoundAbsent DEF Tabled
<1>4. /\ Entry("OCCUPIED", k, v) \in Entries
      /\ Entry("OCCUPIED", k, v).state = "OCCUPIED"
      /\ Entry("OCCUPIED", k, v).key = k
      /\ Entry("OCCUPIED", k, v).value = v
  BY DEF Entry, Entries, States
<1>5. /\ new \in [0 .. cap - 1 -> Entries]
      /\ new[s] = Entry("OCCUPIED", k, v)
      /\ \A t \in 0 .. cap - 1 : t # s => new[t] = tab[t]
  BY <1>1, <1>2, <1>4 DEF Updated
<1>6. /\ OccupiedSlots(new) = OccupiedSlots(tab) \cup {s}
      /\ UsedSlots(new) = UsedSlots(tab) \cup {s}
  BY <1>1, <1>2, <1>4, <1>5 DEF OccupiedSlots, UsedSlots
<1>7. s \in DOMAIN tab /\ s \notin OccupiedSlots(tab)
  BY <1>1, <1>2 DEF OccupiedSlots
<1>8. WellFormed(new)
  BY <1>4, <1>5, <1>6, <1>7 DEF Tabled, WellFormed, OccupiedSlots
<1>9. Distinct(new)
  BY <1>3, <1>4, <1>5, <1>6, <1>7 DEF Tabled, Distinct, Absent, OccupiedSlots
<1>10. \A t \in 0 .. cap - 1 : tab[t].state # "EMPTY" => new[t].state # "EMPTY"
  BY <1>4, <1>5
<1>11. Chained(new, cap)
  <2> SUFFICES ASSUME NEW t \in OccupiedSlots(new),
                      NEW d \in 0 .. Distance(Index(new[t].key, cap), t, cap) - 1
               PROVE  new[Probe(Index(new[t].key, cap), d, cap)].state # "EMPTY"
    BY DEF Chained
  <2> DEFINE h == Index(new[t].key, cap)
  <2>1. t \in 0 .. cap - 1 /\ new[t].key \in Keys
    BY <1>5, <1>8 DEF OccupiedSlots, WellFormed
  <2>3. Probe(h, d, cap) \in 0 .. cap - 1
    BY <2>1, PassedInRange
  <2>4. tab[Probe(h, d, cap)].state # "EMPTY"
    <3>1. CASE t = s
      BY <1>2, <1>4, <1>5, <3>1
    <3>2. CASE t # s
      <4>1. t \in OccupiedSlots(tab) /\ new[t] = tab[t]
        BY <1>5, <1>6, <2>1, <3>2
      <4> QED BY <4>1 DEF Tabled, Chained
    <3> QED BY <3>1, <3>2
  <2> QED BY <1>10, <2>3, <2>4
<1> QED BY <1>5, <1>6, <1>7, <1>8, <1>9, <1>11 DEF Tabled

\* Replacing the value of a stored key moves nothing.
LEMMA ReplaceKeepsTable ==
  ASSUME NEW cap \in Nat \ {0}, NEW tab, Tabled(tab, cap), HasEmpty(tab),
         NEW k \in Keys, NEW v \in Values, Found(tab, cap, k),
         NEW s, s = FindIndex(tab, cap, k),
         NEW new, new = Updated(tab, s, Entry("OCCUPIED", k, v))
  PROVE  /\ Tabled(new, cap)
         /\ OccupiedSlots(new) = OccupiedSlots(tab)
         /\ UsedSlots(new) = UsedSlots(tab)
<1>1. tab \in [0 .. cap - 1 -> Entries]
  BY DEF Tabled
<1>2. s \in 0 .. cap - 1 /\ tab[s].state = "OCCUPIED" /\ tab[s].key = k
  BY <1>1, FindSlot
<1>3. /\ Entry("OCCUPIED", k, v) \in Entries
      /\ Entry("OCCUPIED", k, v).state = "OCCUPIED"
      /\ Entry("OCCUPIED", k, v).key = k
      /\ Entry("OCCUPIED", k, v).value = v
  BY DEF Entry, Entries, States
<1>4. /\ new \in [0 .. cap - 1 -> Entries]
      /\ new[s] = Entry("OCCUPIED", k, v)
      /\ \A t \in 0 .. cap - 1 : t # s => new[t] = tab[t]
  BY <1>1, <1>2, <1>3 DEF Updated
<1>5. \A t \in 0 .. cap - 1 : new[t].state = tab[t].state /\ new[t].key = tab[t].key
  BY <1>2, <1>3, <1>4
<1>6. /\ OccupiedSlots(new) = OccupiedSlots(tab)
      /\ UsedSlots(new) = UsedSlots(tab)
  BY <1>1, <1>4, <1>5 DEF OccupiedSlots, UsedSlots
<1>7. WellFormed(new)
  BY <1>3, <1>4, <1>6 DEF Tabled, WellFormed, OccupiedSlots
<1>8. Distinct(new)
  BY <1>1, <1>5, <1>6 DEF Tabled, Distinct, OccupiedSlots
<1>9. Chained(new, cap)
  <2> SUFFICES ASSUME NEW t \in OccupiedSlots(new),
                      NEW d \in 0 .. Distance(Index(new[t].key, cap), t, cap) - 1
               PROVE  new[Probe(Index(new[t].key, cap), d, cap)].state # "EMPTY"
    BY DEF Chained
  <2>1. t \in OccupiedSlots(tab) /\ t \in 0 .. cap - 1 /\ new[t].key = tab[t].key
    BY <1>4, <1>5, <1>6 DEF OccupiedSlots
  <2>2. new[t].key \in Keys
    BY <2>1 DEF Tabled, WellFormed
  <2>3. Probe(Index(new[t].key, cap), d, cap) \in 0 .. cap - 1
    BY <2>1, <2>2, PassedInRange
  <2>4. tab[Probe(Index(new[t].key, cap), d, cap)].state # "EMPTY"
    BY <2>1 DEF Tabled, Chained
  <2> QED BY <1>5, <2>3, <2>4
<1> QED BY <1>4, <1>6, <1>7, <1>8, <1>9 DEF Tabled

\* A tombstone in the place of a stored key breaks no probe sequence.
LEMMA RemoveKeepsTable ==
  ASSUME NEW cap \in Nat \ {0}, NEW tab, Tabled(tab, cap), HasEmpty(tab),
         NEW k \in Keys, Found(tab, cap, k),
         NEW s, s = FindIndex(tab, cap, k),
         NEW new, new = Updated(tab, s, TombstoneEntry)
  PROVE  /\ Tabled(new, cap)
         /\ s \in OccupiedSlots(tab)
         /\ OccupiedSlots(new) = OccupiedSlots(tab) \ {s}
         /\ UsedSlots(new) = UsedSlots(tab)
<1>1. tab \in [0 .. cap - 1 -> Entries]
  BY DEF Tabled
<1>2. s \in 0 .. cap - 1 /\ tab[s].state = "OCCUPIED"
  BY <1>1, FindSlot
<1>3. TombstoneEntry \in Entries /\ TombstoneEntry.state = "TOMBSTONE"
  BY DEF TombstoneEntry, Entry, Entries, States
<1>4. /\ new \in [0 .. cap - 1 -> Entries]
      /\ new[s] = TombstoneEntry
      /\ \A t \in 0 .. cap - 1 : t # s => new[t] = tab[t]
  BY <1>1, <1>2, <1>3 DEF Updated
<1>5. /\ s \in OccupiedSlots(tab)
      /\ OccupiedSlots(new) = OccupiedSlots(tab) \ {s}
      /\ UsedSlots(new) = UsedSlots(tab)
  BY <1>1, <1>2, <1>3, <1>4 DEF OccupiedSlots, UsedSlots
<1>6. \A t \in OccupiedSlots(new) : t \in OccupiedSlots(tab) /\ new[t] = tab[t]
  BY <1>4, <1>5 DEF OccupiedSlots
<1>7. WellFormed(new) /\ Distinct(new)
  <2>1. WellFormed(new)
    BY <1>6 DEF Tabled, WellFormed
  <2>2. \A t, u \in OccupiedSlots(tab) : tab[t].key = tab[u].key => t = u
    BY DEF Tabled, Distinct
  <2>3. \A t, u \in OccupiedSlots(new) : new[t].key = new[u].key => t = u
    BY <1>6, <2>2
  <2> QED BY <2>1, <2>3 DEF Distinct
<1>8. \A t \in 0 .. cap - 1 : tab[t].state # "EMPTY" => new[t].state # "EMPTY"
  BY <1>3, <1>4
<1>9. Chained(new, cap)
  <2> SUFFICES ASSUME NEW t \in OccupiedSlots(new),
                      NEW d \in 0 .. Distance(Index(new[t].key, cap), t, cap) - 1
               PROVE  new[Probe(Index(new[t].key, cap), d, cap)].state # "EMPTY"
    BY DEF Chained
  <2>1. t \in OccupiedSlots(tab) /\ t \in 0 .. cap - 1 /\ new[t] = tab[t]
    BY <1>4, <1>6 DEF OccupiedSlots
  <2>2. new[t].key \in Keys
    BY <2>1 DEF Tabled, WellFormed
  <2>3. Probe(Index(new[t].key, cap), d, cap) \in 0 .. cap - 1
    BY <2>1, <2>2, PassedInRange
  <2>4. tab[Probe(Index(new[t].key, cap), d, cap)].state # "EMPTY"
    BY <2>1 DEF Tabled, Chained
  <2> QED BY <1>8, <2>3, <2>4
<1> QED BY <1>4, <1>5, <1>7, <1>9 DEF Tabled

-----------------------------------------------------------------------------
(* Counting slots.                                                         *)

\* The slots of an array can be counted, and no more are OCCUPIED than used.
LEMMA SlotCounts ==
  ASSUME NEW cap \in Nat, NEW tab \in [0 .. cap - 1 -> Entries]
  PROVE  /\ IsFiniteSet(UsedSlots(tab)) /\ IsFiniteSet(OccupiedSlots(tab))
         /\ Cardinality(UsedSlots(tab)) \in Nat
         /\ Cardinality(OccupiedSlots(tab)) \in Nat
         /\ Cardinality(OccupiedSlots(tab)) <= Cardinality(UsedSlots(tab))
<1>1. IsFiniteSet(0 .. cap - 1)
  BY FS_Interval
<1>2. /\ UsedSlots(tab) \in SUBSET (0 .. cap - 1)
      /\ OccupiedSlots(tab) \in SUBSET UsedSlots(tab)
  BY DEF UsedSlots, OccupiedSlots
<1>3. IsFiniteSet(UsedSlots(tab))
  BY <1>1, <1>2, FS_Subset
<1>4. /\ IsFiniteSet(OccupiedSlots(tab))
      /\ Cardinality(OccupiedSlots(tab)) <= Cardinality(UsedSlots(tab))
  BY <1>2, <1>3, FS_Subset
<1> QED BY <1>3, <1>4, FS_CardinalityType

\* An array that is at most 70% full has an EMPTY slot.
LEMMA LoadLeavesEmpty ==
  ASSUME NEW cap \in Nat \ {0}, NEW tab \in [0 .. cap - 1 -> Entries],
         Cardinality(UsedSlots(tab)) * 10 <= cap * 7
  PROVE  HasEmpty(tab)
<1> SUFFICES ASSUME ~HasEmpty(tab)
             PROVE  FALSE
  OBVIOUS
<1>1. UsedSlots(tab) = 0 .. cap - 1
  BY DEF HasEmpty, UsedSlots
<1>2. Cardinality(0 .. cap - 1) = cap
  BY FS_Interval
<1> QED BY <1>1, <1>2

-----------------------------------------------------------------------------
(* The inductive invariant.                                                *)

\* Outside ks_ds_destroy's aftermath the array is a table with room left.
ArrayInv ==
  pc # "destroyed" =>
    /\ capacity >= 2
    /\ Tabled(entries, capacity)
    /\ Cardinality(UsedSlots(entries)) * 10 <= capacity * 7

\* The slots of the old array ks_ds_rebuild's loop has moved.
Passed == {t \in OccupiedSlots(old) : t < i}

\* While ks_ds_rebuild's loop runs: the old array holds every key once and not
\* the one being put, the new array has no tombstone and as many entries as
\* the loop has moved, and the entry being put will fit.
RebuildInv ==
  pc = "rebuild" =>
    /\ WellFormed(old) /\ Distinct(old) /\ Absent(old, pending.key)
    /\ UsedSlots(entries) = OccupiedSlots(entries)
    /\ Cardinality(UsedSlots(entries)) = Cardinality(Passed)
    /\ (size + 1) * 10 <= capacity * 7

Inv == TypeOK /\ ArrayInv /\ CountsExact /\ RebuildInv /\ RebuildExact

\* In every state of the invariant but the destroyed one a search ends.
LEMMA InvHasEmpty ==
  ASSUME Inv, pc # "destroyed"
  PROVE  /\ capacity \in Nat \ {0}
         /\ entries \in [0 .. capacity - 1 -> Entries]
         /\ Tabled(entries, capacity)
         /\ HasEmpty(entries)
<1>1. /\ capacity \in Nat \ {0}
      /\ entries \in [0 .. capacity - 1 -> Entries]
      /\ Tabled(entries, capacity)
      /\ Cardinality(UsedSlots(entries)) * 10 <= capacity * 7
  BY DEF Inv, TypeOK, ArrayInv
<1> QED BY <1>1, LoadLeavesEmpty

\* An array of EMPTY slots is a table without used slots.
LEMMA FreshTable ==
  ASSUME NEW cap \in Nat, NEW tab, tab = [s \in 0 .. cap - 1 |-> EmptyEntry]
  PROVE  /\ Tabled(tab, cap)
         /\ UsedSlots(tab) = {} /\ OccupiedSlots(tab) = {}
         /\ Cardinality(UsedSlots(tab)) = 0 /\ Cardinality(OccupiedSlots(tab)) = 0
<1>1. EmptyEntry \in Entries /\ EmptyEntry.state = "EMPTY"
  BY DEF EmptyEntry, Entry, Entries, States
<1>2. tab \in [0 .. cap - 1 -> Entries]
  BY <1>1
<1>3. UsedSlots(tab) = {} /\ OccupiedSlots(tab) = {}
  BY <1>1 DEF UsedSlots, OccupiedSlots
<1>4. WellFormed(tab) /\ Distinct(tab) /\ Chained(tab, cap)
  BY <1>3 DEF WellFormed, Distinct, Chained
<1> QED BY <1>2, <1>3, <1>4, FS_EmptySet DEF Tabled

\* ks_ds_init establishes the invariant.
LEMMA InitInv == Init => Inv
<1> SUFFICES ASSUME Init
             PROVE  Inv
  OBVIOUS
<1>1. /\ InitialCapacity \in Nat /\ InitialCapacity >= 2
      /\ capacity = InitialCapacity /\ size = 0 /\ occupied = 0
      /\ pc = "ready" /\ live = {} /\ i = 0 /\ old = NoEntries /\ pending = NoPut
  BY CapacityAssumption DEF Init
<1>2. /\ Tabled(entries, capacity)
      /\ Cardinality(UsedSlots(entries)) = 0
      /\ Cardinality(OccupiedSlots(entries)) = 0
  BY <1>1, FreshTable DEF Init
<1>3. TypeOK
  BY <1>1, <1>2 DEF TypeOK, Tabled, NoEntries
<1>4. ArrayInv
  BY <1>1, <1>2 DEF ArrayInv
<1>5. CountsExact
  BY <1>1, <1>2 DEF CountsExact
<1> QED BY <1>1, <1>3, <1>4, <1>5 DEF Inv, RebuildInv, RebuildExact

-----------------------------------------------------------------------------
(* One lemma per kind of step.                                             *)

\* The calls that change no field of the table.
LEMMA StutterInv ==
  ASSUME Inv, UNCHANGED <<table, locals, pc, live>>
  PROVE  Inv'
<1> USE DEF table, locals
<1>1. TypeOK'
  BY DEF Inv, TypeOK
<1>2. ArrayInv' /\ CountsExact'
  BY DEF Inv, ArrayInv, CountsExact
<1>3. RebuildInv' /\ RebuildExact'
  BY DEF Inv, RebuildInv, RebuildExact, Passed
<1> QED BY <1>1, <1>2, <1>3 DEF Inv

\* ks_ds_put of a key that is stored.
LEMMA PutReplaceInv ==
  ASSUME Inv, NEW k \in Keys, NEW v \in Values, PutReplace(k, v)
  PROVE  Inv'
<1> USE DEF locals
<1>1. /\ pc = "ready" /\ pc' = "ready"
      /\ capacity' = capacity /\ size' = size /\ occupied' = occupied
      /\ old' = old /\ i' = i /\ pending' = pending
  BY DEF PutReplace
<1>2. /\ capacity \in Nat \ {0} /\ Tabled(entries, capacity) /\ HasEmpty(entries)
  BY <1>1, InvHasEmpty
<1>3. /\ Tabled(entries', capacity)
      /\ OccupiedSlots(entries') = OccupiedSlots(entries)
      /\ UsedSlots(entries') = UsedSlots(entries)
  <2>1. /\ Found(entries, capacity, k)
        /\ entries' = Updated(entries, FindIndex(entries, capacity, k),
                              Entry("OCCUPIED", k, v))
    BY DEF PutReplace, Updated
  <2> QED BY <1>2, <2>1, ReplaceKeepsTable
<1>4. live' \in SUBSET Values
  BY DEF Inv, TypeOK, PutReplace, Release
<1>5. TypeOK'
  BY <1>1, <1>3, <1>4 DEF Inv, TypeOK, Tabled
<1>6. ArrayInv' /\ CountsExact'
  BY <1>1, <1>3 DEF Inv, ArrayInv, CountsExact
<1> QED BY <1>1, <1>5, <1>6 DEF Inv, RebuildInv, RebuildExact

\* ks_ds_put of a new key into a table that has room for it.
LEMMA PutInsertInv ==
  ASSUME Inv, NEW k \in Keys, NEW v \in Values, PutInsert(k, v)
  PROVE  Inv'
<1> USE DEF locals
<1> DEFINE s == FindIndex(entries, capacity, k)
<1>1. /\ pc = "ready" /\ pc' = "ready"
      /\ capacity' = capacity /\ size' = size + 1
      /\ occupied' = occupied + NewlyUsed(s)
      /\ (occupied + 1) * 10 <= capacity * 7
      /\ old' = old /\ i' = i /\ pending' = pending
  BY DEF PutInsert, Store, HasRoom
<1>2. /\ capacity \in Nat \ {0} /\ Tabled(entries, capacity) /\ HasEmpty(entries)
      /\ entries \in [0 .. capacity - 1 -> Entries]
  BY <1>1, InvHasEmpty
<1>3. /\ Tabled(entries', capacity)
      /\ s \in DOMAIN entries /\ s \notin OccupiedSlots(entries)
      /\ OccupiedSlots(entries') = OccupiedSlots(entries) \cup {s}
      /\ UsedSlots(entries') = UsedSlots(entries) \cup {s}
  <2>1. /\ ~Found(entries, capacity, k)
        /\ entries' = Updated(entries, s, Entry("OCCUPIED", k, v))
    BY DEF PutInsert, Store, Updated
  <2> QED BY <1>2, <2>1, StoreKeepsTable
<1>4. /\ size = Cardinality(OccupiedSlots(entries))
      /\ occupied = Cardinality(UsedSlots(entries))
      /\ size \in Nat /\ occupied \in Nat
  BY <1>1 DEF Inv, CountsExact, TypeOK
<1>5. /\ IsFiniteSet(OccupiedSlots(entries)) /\ IsFiniteSet(UsedSlots(entries))
  BY <1>2, SlotCounts
<1>6. size' = Cardinality(OccupiedSlots(entries'))
  BY <1>1, <1>3, <1>4, <1>5, FS_AddElement
<1>7. /\ occupied' = Cardinality(UsedSlots(entries'))
      /\ occupied' \in Nat /\ occupied' <= occupied + 1
  <2>1. Cardinality(UsedSlots(entries'))
          = IF s \in UsedSlots(entries) THEN occupied ELSE occupied + 1
    BY <1>3, <1>4, <1>5, FS_AddElement
  <2>2. s \in UsedSlots(entries) <=> entries[s].state # "EMPTY"
    BY <1>3 DEF UsedSlots
  <2> QED BY <1>1, <1>4, <2>1, <2>2 DEF NewlyUsed
<1>8. occupied' * 10 <= capacity * 7
  BY <1>1, <1>2, <1>4, <1>7
<1>9. live' \in SUBSET Values
  BY DEF Inv, TypeOK, PutInsert
<1>10. TypeOK'
  BY <1>1, <1>3, <1>4, <1>7, <1>9 DEF Inv, TypeOK, Tabled
<1>11. ArrayInv' /\ CountsExact'
  BY <1>1, <1>3, <1>6, <1>7, <1>8 DEF Inv, ArrayInv, CountsExact
<1> QED BY <1>1, <1>10, <1>11 DEF Inv, RebuildInv, RebuildExact

\* ks_ds_remove of a key that is stored.
LEMMA RemoveInv ==
  ASSUME Inv, NEW k \in Keys, Remove(k)
  PROVE  Inv'
<1> USE DEF locals
<1> DEFINE s == FindIndex(entries, capacity, k)
<1>1. /\ pc = "ready" /\ pc' = "ready"
      /\ capacity' = capacity /\ size' = size - 1 /\ occupied' = occupied
      /\ old' = old /\ i' = i /\ pending' = pending
  BY DEF Remove
<1>2. /\ capacity \in Nat \ {0} /\ Tabled(entries, capacity) /\ HasEmpty(entries)
      /\ entries \in [0 .. capacity - 1 -> Entries]
  BY <1>1, InvHasEmpty
<1>3. /\ Tabled(entries', capacity)
      /\ s \in OccupiedSlots(entries)
      /\ OccupiedSlots(entries') = OccupiedSlots(entries) \ {s}
      /\ UsedSlots(entries') = UsedSlots(entries)
  <2>1. Found(entries, capacity, k) /\ entries' = Updated(entries, s, TombstoneEntry)
    BY DEF Remove, Updated
  <2> QED BY <1>2, <2>1, RemoveKeepsTable
<1>4. size = Cardinality(OccupiedSlots(entries)) /\ size \in Nat
  BY <1>1 DEF Inv, CountsExact, TypeOK
<1>5. IsFiniteSet(OccupiedSlots(entries))
  BY <1>2, SlotCounts
<1>6. IsFiniteSet(OccupiedSlots(entries')) /\ size' = Cardinality(OccupiedSlots(entries'))
  BY <1>1, <1>3, <1>4, <1>5, FS_RemoveElement
<1>7. size' \in Nat
  BY <1>6, FS_CardinalityType
<1>8. live' \in SUBSET Values
  BY DEF Inv, TypeOK, Remove, Release
<1>9. TypeOK'
  BY <1>1, <1>3, <1>7, <1>8 DEF Inv, TypeOK, Tabled
<1>10. ArrayInv' /\ CountsExact'
  BY <1>1, <1>3, <1>6 DEF Inv, ArrayInv, CountsExact
<1> QED BY <1>1, <1>9, <1>10 DEF Inv, RebuildInv, RebuildExact

\* ks_ds_destroy.
LEMMA DestroyInv ==
  ASSUME Inv, Destroy
  PROVE  Inv'
<1> USE DEF locals
<1>1. /\ pc # "rebuild" /\ pc' = "destroyed"
      /\ capacity' = 0 /\ size' = 0 /\ occupied' = 0 /\ entries' = NoEntries
      /\ old' = old /\ i' = i /\ pending' = pending
  BY DEF Destroy
<1>2. UsedSlots(entries') = {} /\ OccupiedSlots(entries') = {}
  BY <1>1 DEF NoEntries, UsedSlots, OccupiedSlots
<1>3. Cardinality(UsedSlots(entries')) = 0 /\ Cardinality(OccupiedSlots(entries')) = 0
  BY <1>2, FS_EmptySet
<1>4. live' \in SUBSET Values
  BY DEF Inv, TypeOK, Destroy
<1>5. entries' \in [0 .. capacity' - 1 -> Entries]
  BY <1>1 DEF NoEntries
<1>6. TypeOK'
  BY <1>1, <1>4, <1>5 DEF Inv, TypeOK
<1>7. CountsExact'
  BY <1>1, <1>3 DEF CountsExact
<1> QED BY <1>1, <1>6, <1>7 DEF Inv, ArrayInv, RebuildInv, RebuildExact

\* ks_ds_put of a new key into a table without room: ks_ds_rebuild starts.
LEMMA PutRebuildInv ==
  ASSUME Inv, NEW k \in Keys, NEW v \in Values, PutRebuild(k, v)
  PROVE  Inv'
<1>1. /\ pc = "ready" /\ pc' = "rebuild" /\ ~Found(entries, capacity, k)
      /\ old' = entries /\ entries' = [s \in 0 .. capacity' - 1 |-> EmptyEntry]
      /\ capacity' = NewCapacity /\ size' = size /\ occupied' = size /\ i' = 0
      /\ pending' = [key |-> k, value |-> v]
  BY DEF PutRebuild
<1>2. /\ capacity \in Nat \ {0} /\ Tabled(entries, capacity) /\ HasEmpty(entries)
      /\ entries \in [0 .. capacity - 1 -> Entries]
  BY <1>1, InvHasEmpty
<1>3. /\ size = Cardinality(OccupiedSlots(entries)) /\ size \in Nat
      /\ occupied = Cardinality(UsedSlots(entries)) /\ occupied \in Nat
      /\ occupied * 10 <= capacity * 7 /\ capacity >= 2
  BY <1>1 DEF Inv, CountsExact, ArrayInv, TypeOK
<1>4. size <= occupied
  BY <1>2, <1>3, SlotCounts
<1>5. /\ capacity' \in Nat \ {0} /\ capacity <= capacity'
      /\ (size + 1) * 10 <= capacity' * 7
  BY <1>1, <1>2, <1>3, <1>4 DEF NewCapacity, MustDouble
<1>6. /\ Tabled(entries', capacity')
      /\ UsedSlots(entries') = {} /\ OccupiedSlots(entries') = {}
      /\ Cardinality(UsedSlots(entries')) = 0
  BY <1>1, <1>5, FreshTable
<1>7. Passed' = {} /\ Cardinality(Passed') = 0
  <2>1. \A t \in OccupiedSlots(entries) : ~(t < 0)
    BY <1>2 DEF OccupiedSlots
  <2>2. Passed' = {}
    BY <1>1, <2>1 DEF Passed
  <2> QED BY <2>2, FS_EmptySet
<1>8. Absent(entries, k)
  BY <1>1, <1>2, NotFoundAbsent DEF Tabled
<1>9. live' \in SUBSET Values
  BY DEF Inv, TypeOK, PutRebuild
<1>10. TypeOK'
  <2>1. /\ DOMAIN old' = 0 .. capacity - 1 /\ i' \in 0 .. capacity
        /\ capacity \in 2 .. capacity'
        /\ old' \in [DOMAIN old' -> Entries]
    BY <1>1, <1>2, <1>3, <1>5
  <2>2. pending' \in [key : Keys, value : Values]
    BY <1>1
  <2> QED BY <1>1, <1>3, <1>5, <1>6, <1>9, <2>1, <2>2 DEF TypeOK, Tabled
<1>11. ArrayInv'
  BY <1>3, <1>5, <1>6 DEF ArrayInv
<1>12. CountsExact'
  BY <1>1, <1>3 DEF CountsExact
<1>13. RebuildInv'
  BY <1>1, <1>2, <1>5, <1>6, <1>7, <1>8 DEF RebuildInv, Tabled
<1>14. RebuildExact'
  BY <1>6, <1>7 DEF RebuildExact, Passed
<1> QED BY <1>10, <1>11, <1>12, <1>13, <1>14 DEF Inv

\* An iteration of ks_ds_rebuild's loop that moves an entry.
LEMMA RebuildMoveInv ==
  ASSUME Inv, RebuildStep, old[i].state = "OCCUPIED"
  PROVE  Inv'
<1> DEFINE e == old[i]
           s == FindIndex(entries, capacity, e.key)
<1>1. /\ pc = "rebuild" /\ pc' = "rebuild" /\ i \in DOMAIN old /\ i' = i + 1
      /\ entries' = Updated(entries, s, e)
      /\ UNCHANGED <<capacity, size, occupied, old, pending, live>>
  BY DEF RebuildStep, ReinsertIndex, Updated
<1>2. /\ capacity \in Nat \ {0} /\ Tabled(entries, capacity) /\ HasEmpty(entries)
      /\ entries \in [0 .. capacity - 1 -> Entries]
  BY <1>1, InvHasEmpty
<1>3. PICK n \in 2 .. capacity : DOMAIN old = 0 .. n - 1 /\ i \in 0 .. n
  BY <1>1 DEF Inv, TypeOK
<1>4. /\ WellFormed(old) /\ Distinct(old)
      /\ UsedSlots(entries) = OccupiedSlots(entries)
      /\ Cardinality(UsedSlots(entries)) = Cardinality(Passed)
      /\ (size + 1) * 10 <= capacity * 7
      /\ size = Cardinality(OccupiedSlots(old)) /\ size \in Nat
      /\ {entries[x] : x \in UsedSlots(entries)} = {old[x] : x \in Passed}
      /\ old \in [0 .. n - 1 -> Entries]
  BY <1>1, <1>3 DEF Inv, RebuildInv, RebuildExact, CountsExact, TypeOK, Passed
<1>5. /\ i \in OccupiedSlots(old) /\ e.key \in Keys /\ e.value \in Values
      /\ e = Entry("OCCUPIED", e.key, e.value)
  <2>1. i \in OccupiedSlots(old)
    BY <1>1 DEF OccupiedSlots
  <2>2. e.key \in Keys /\ e.value \in Values
    BY <1>4, <2>1 DEF WellFormed
  <2>3. e \in Entries
    BY <1>1, <1>3, <1>4
  <2> QED BY <2>1, <2>2, <2>3 DEF Entries, Entry
<1>6. ~Found(entries, capacity, e.key)
  <2> SUFFICES ASSUME Found(entries, capacity, e.key)
               PROVE  FALSE
    OBVIOUS
  <2>1. s \in 0 .. capacity - 1 /\ entries[s].state = "OCCUPIED" /\ entries[s].key = e.key
    BY <1>2, <1>5, FindSlot
  <2>2. s \in UsedSlots(entries)
    BY <1>2, <2>1 DEF UsedSlots
  <2>3. PICK t \in Passed : old[t] = entries[s]
    BY <1>4, <2>2
  <2>4. t \in OccupiedSlots(old) /\ t < i /\ old[t].key = old[i].key
    BY <2>1, <2>3 DEF Passed
  <2>5. t = i
    BY <1>4, <1>5, <2>4 DEF Distinct
  <2> QED BY <1>3, <2>4, <2>5
<1>7. /\ Tabled(entries', capacity)
      /\ s \in DOMAIN entries /\ s \notin UsedSlots(entries)
      /\ OccupiedSlots(entries') = OccupiedSlots(entries) \cup {s}
      /\ UsedSlots(entries') = UsedSlots(entries) \cup {s}
  <2>1. entries' = Updated(entries, s, Entry("OCCUPIED", e.key, e.value))
    BY <1>1, <1>5
  <2> QED BY <1>2, <1>4, <1>5, <1>6, <2>1, StoreKeepsTable
<1>8. Passed' = Passed \cup {i} /\ i \notin Passed
  BY <1>1, <1>3, <1>5 DEF Passed, OccupiedSlots
<1>9. /\ Cardinality(UsedSlots(entries')) = Cardinality(Passed')
      /\ Cardinality(UsedSlots(entries')) \in Nat
      /\ Cardinality(UsedSlots(entries')) <= size
  <2>1. IsFiniteSet(UsedSlots(entries)) /\ IsFiniteSet(OccupiedSlots(old))
    BY <1>2, <1>4, SlotCounts
  <2>2. Passed \in SUBSET OccupiedSlots(old) /\ Passed' \in SUBSET OccupiedSlots(old)
    BY <1>5, <1>8 DEF Passed
  <2>3. /\ IsFiniteSet(Passed) /\ IsFiniteSet(Passed')
        /\ Cardinality(Passed') <= size
    BY <1>4, <2>1, <2>2, FS_Subset
  <2>4. /\ Cardinality(Passed') = Cardinality(Passed) + 1
        /\ Cardinality(Passed') \in Nat
    BY <1>8, <2>3, FS_AddElement, FS_CardinalityType
  <2>5. Cardinality(UsedSlots(entries')) = Cardinality(UsedSlots(entries)) + 1
    BY <1>7, <2>1, FS_AddElement
  <2> QED BY <1>4, <2>3, <2>4, <2>5
<1>10. Cardinality(UsedSlots(entries')) * 10 <= capacity * 7
  BY <1>2, <1>4, <1>9
<1>11. TypeOK'
  <2>1. i' \in 0 .. n /\ i' \in Nat
    BY <1>1, <1>3
  <2> QED BY <1>1, <1>3, <1>7, <2>1 DEF Inv, TypeOK, Tabled
<1>12. ArrayInv' /\ CountsExact'
  BY <1>1, <1>7, <1>10 DEF Inv, ArrayInv, CountsExact
<1>13. RebuildInv'
  BY <1>1, <1>4, <1>7, <1>9 DEF Inv, RebuildInv
<1>14. RebuildExact'
  <2>1. entries'[s] = e /\ \A x \in UsedSlots(entries) : entries'[x] = entries[x]
    BY <1>1, <1>2, <1>7 DEF Updated, UsedSlots
  <2>2. {entries'[x] : x \in UsedSlots(entries')} = {entries[x] : x \in UsedSlots(entries)} \cup {e}
    BY <1>7, <2>1
  <2>3. {old[x] : x \in Passed'} = {old[x] : x \in Passed} \cup {e}
    BY <1>8
  <2>4. {entries'[x] : x \in UsedSlots(entries')} = {old'[x] : x \in Passed'}
    BY <1>1, <1>4, <2>2, <2>3
  <2> QED BY <2>4 DEF RebuildExact, Passed
<1> QED BY <1>11, <1>12, <1>13, <1>14 DEF Inv

\* An iteration of ks_ds_rebuild's loop over an EMPTY slot or a tombstone.
LEMMA RebuildSkipInv ==
  ASSUME Inv, RebuildStep, old[i].state # "OCCUPIED"
  PROVE  Inv'
<1>1. /\ pc = "rebuild" /\ pc' = "rebuild" /\ i \in DOMAIN old /\ i' = i + 1
      /\ UNCHANGED <<entries, capacity, size, occupied, old, pending, live>>
  BY DEF RebuildStep
<1>2. PICK n \in 2 .. capacity : DOMAIN old = 0 .. n - 1 /\ i \in 0 .. n
  BY <1>1 DEF Inv, TypeOK
<1>3. Passed' = Passed
  BY <1>1, <1>2 DEF Passed, OccupiedSlots
<1>4. TypeOK'
  <2>1. i' \in 0 .. n /\ i' \in Nat
    BY <1>1, <1>2
  <2> QED BY <1>1, <1>2, <2>1 DEF Inv, TypeOK
<1>5. ArrayInv' /\ CountsExact'
  BY <1>1 DEF Inv, ArrayInv, CountsExact
<1>6. RebuildInv'
  BY <1>1, <1>3 DEF Inv, RebuildInv
<1>7. RebuildExact'
  BY <1>1, <1>3 DEF Inv, RebuildExact, Passed
<1> QED BY <1>4, <1>5, <1>6, <1>7 DEF Inv

\* The end of ks_ds_rebuild and of the put that called it.
LEMMA RebuildDoneInv ==
  ASSUME Inv, RebuildDone
  PROVE  Inv'
<1> DEFINE k == pending.key
           v == pending.value
           s == FindIndex(entries, capacity, k)
<1>1. /\ pc = "rebuild" /\ pc' = "ready" /\ i \notin DOMAIN old
      /\ entries' = Updated(entries, s, Entry("OCCUPIED", k, v))
      /\ capacity' = capacity /\ size' = size + 1 /\ live' = live
      /\ occupied' = occupied + NewlyUsed(s)
      /\ old' = NoEntries /\ i' = 0 /\ pending' = NoPut
  BY DEF RebuildDone, Store, Updated
<1>2. /\ capacity \in Nat \ {0} /\ Tabled(entries, capacity) /\ HasEmpty(entries)
      /\ entries \in [0 .. capacity - 1 -> Entries]
  BY <1>1, InvHasEmpty
<1>3. PICK n \in 2 .. capacity : DOMAIN old = 0 .. n - 1 /\ i \in 0 .. n
  BY <1>1 DEF Inv, TypeOK
<1>4. /\ Absent(old, k)
      /\ UsedSlots(entries) = OccupiedSlots(entries)
      /\ Cardinality(UsedSlots(entries)) = Cardinality(Passed)
      /\ (size + 1) * 10 <= capacity * 7
      /\ size = Cardinality(OccupiedSlots(old)) /\ size \in Nat /\ occupied = size
      /\ {entries[x] : x \in UsedSlots(entries)} = {old[x] : x \in Passed}
      /\ k \in Keys /\ v \in Values
  BY <1>1 DEF Inv, RebuildInv, RebuildExact, CountsExact, TypeOK, Passed
<1>5. Passed = OccupiedSlots(old)
  BY <1>1, <1>3 DEF Passed, OccupiedSlots
<1>6. ~Found(entries, capacity, k)
  <2> SUFFICES ASSUME Found(entries, capacity, k)
               PROVE  FALSE
    OBVIOUS
  <2>1. s \in 0 .. capacity - 1 /\ entries[s].state = "OCCUPIED" /\ entries[s].key = k
    BY <1>2, <1>4, FindSlot
  <2>2. s \in UsedSlots(entries)
    BY <1>2, <2>1 DEF UsedSlots
  <2>3. PICK t \in Passed : old[t] = entries[s]
    BY <1>4, <2>2
  <2> QED BY <1>4, <1>5, <2>1, <2>3 DEF Absent
<1>7. /\ Tabled(entries', capacity)
      /\ s \in DOMAIN entries /\ s \notin UsedSlots(entries)
      /\ OccupiedSlots(entries') = OccupiedSlots(entries) \cup {s}
      /\ UsedSlots(entries') = UsedSlots(entries) \cup {s}
  BY <1>1, <1>2, <1>4, <1>6, StoreKeepsTable
<1>8. NewlyUsed(s) = 1
  BY <1>7 DEF NewlyUsed, UsedSlots
<1>9. /\ Cardinality(UsedSlots(entries')) = size + 1
      /\ Cardinality(OccupiedSlots(entries')) = size + 1
  <2>1. IsFiniteSet(UsedSlots(entries))
    BY <1>2, SlotCounts
  <2>2. Cardinality(UsedSlots(entries) \cup {s}) = Cardinality(UsedSlots(entries)) + 1
    BY <1>7, <2>1, FS_AddElement
  <2> QED BY <1>4, <1>5, <1>7, <2>2
<1>10. TypeOK'
  BY <1>1, <1>4, <1>7, <1>8 DEF Inv, TypeOK, Tabled, NoEntries
<1>11. ArrayInv' /\ CountsExact'
  BY <1>1, <1>4, <1>7, <1>8, <1>9 DEF Inv, ArrayInv, CountsExact
<1> QED BY <1>1, <1>10, <1>11 DEF Inv, RebuildInv, RebuildExact

-----------------------------------------------------------------------------
(* The theorems.                                                           *)

\* Every step of every call keeps the invariant.
LEMMA NextInv == Inv /\ [Next]_vars => Inv'
<1> SUFFICES ASSUME Inv, [Next]_vars
             PROVE  Inv'
  OBVIOUS
<1>1. ASSUME NEW k \in Keys, NEW v \in Values \ live,
             PutReplace(k, v) \/ PutInsert(k, v) \/ PutRebuild(k, v)
      PROVE  Inv'
  BY <1>1, PutReplaceInv, PutInsertInv, PutRebuildInv
<1>2. ASSUME NEW k \in Keys,
             PutFails(k) \/ Get(k) \/ Contains(k) \/ Remove(k) \/ RemoveMissing(k)
      PROVE  Inv'
  BY <1>2, RemoveInv, StutterInv DEF PutFails, Get, Contains, RemoveMissing
<1>3. CASE RebuildStep
  BY <1>3, RebuildMoveInv, RebuildSkipInv
<1>4. CASE RebuildDone
  BY <1>4, RebuildDoneInv
<1>5. CASE Size
  BY <1>5, StutterInv DEF Size
<1>6. CASE Destroy
  BY <1>6, DestroyInv
<1>7. CASE UNCHANGED vars
  BY <1>7, StutterInv DEF vars
<1> QED BY <1>1, <1>2, <1>3, <1>4, <1>5, <1>6, <1>7 DEF Next

\* The invariant holds in every reachable state of ks_ds.
THEOREM Invariance == Spec => []Inv
<1>1. Init => Inv
  BY InitInv
<1>2. Inv /\ [Next]_vars => Inv'
  BY NextInv
<1> QED BY <1>1, <1>2, PTL DEF Spec

\* The fields of the table and the locals of a put keep their types, and the
\* arrays span exactly their capacity.
THEOREM TypeCorrect == Spec => []TypeOK
<1>1. Inv => TypeOK
  BY DEF Inv
<1> QED BY <1>1, Invariance, PTL

\* The loop of ks_ds_find always has an EMPTY slot to end at, whatever was
\* put, removed and rebuilt before, the half-built array included.
THEOREM SearchesEnd == Spec => []FindTerminates
<1>1. Inv => FindTerminates
  BY InvHasEmpty DEF HasEmpty, FindTerminates
<1> QED BY <1>1, Invariance, PTL

\* size and occupied count exactly what they stand for.
THEOREM CountersCorrect == Spec => []CountsExact
<1>1. Inv => CountsExact
  BY DEF Inv
<1> QED BY <1>1, Invariance, PTL

\* No put and no rebuild stores a key twice.
THEOREM KeysUnique == Spec => []UniqueKeys
<1>1. Inv => UniqueKeys
  <2> SUFFICES ASSUME Inv
               PROVE  UniqueKeys
    OBVIOUS
  <2>1. Distinct(entries)
    <3>1. CASE pc = "destroyed"
      <4>1. capacity = 0 /\ entries \in [0 .. capacity - 1 -> Entries]
        BY <3>1 DEF Inv, TypeOK
      <4>2. OccupiedSlots(entries) = {}
        BY <4>1 DEF OccupiedSlots
      <4> QED BY <4>2 DEF Distinct
    <3>2. CASE pc # "destroyed"
      BY <3>2 DEF Inv, ArrayInv, Tabled
    <3> QED BY <3>1, <3>2
  <2>2. Distinct(old)
    <3>1. CASE pc = "rebuild"
      BY <3>1 DEF Inv, RebuildInv
    <3>2. CASE pc # "rebuild"
      <4>1. old = NoEntries
        BY <3>2 DEF Inv, TypeOK
      <4>2. OccupiedSlots(old) = {}
        BY <4>1 DEF OccupiedSlots, NoEntries
      <4> QED BY <4>2 DEF Distinct
    <3> QED BY <3>1, <3>2
  <2> QED BY <2>1, <2>2 DEF UniqueKeys
<1> QED BY <1>1, Invariance, PTL

\* No EMPTY slot ever cuts the probe sequence of a stored key.
THEOREM EntriesReachable == Spec => []Reachable
<1>1. Inv => Reachable
  <2> SUFFICES ASSUME Inv
               PROVE  Reachable
    OBVIOUS
  <2>1. CASE pc = "destroyed"
    <3>1. capacity = 0 /\ entries \in [0 .. capacity - 1 -> Entries]
      BY <2>1 DEF Inv, TypeOK
    <3>2. OccupiedSlots(entries) = {}
      BY <3>1 DEF OccupiedSlots
    <3> QED BY <3>2 DEF Reachable, Chained
  <2>2. CASE pc # "destroyed"
    BY <2>2 DEF Inv, ArrayInv, Tabled, Reachable
  <2> QED BY <2>1, <2>2
<1> QED BY <1>1, Invariance, PTL

\* ks_ds_rebuild moves exactly the entries its loop has passed.
THEOREM RebuildCorrect == Spec => []RebuildExact
<1>1. Inv => RebuildExact
  BY DEF Inv
<1> QED BY <1>1, Invariance, PTL

\* A search finds a key exactly when some slot holds it.
THEOREM FindCorrect ==
  ASSUME Inv, pc # "destroyed", NEW k \in Keys
  PROVE  Found(entries, capacity, k) <=> ~Absent(entries, k)
<1>1. /\ capacity \in Nat \ {0} /\ entries \in [0 .. capacity - 1 -> Entries]
      /\ HasEmpty(entries) /\ Chained(entries, capacity)
  BY InvHasEmpty DEF Tabled
<1>2. ~Found(entries, capacity, k) => Absent(entries, k)
  BY <1>1, NotFoundAbsent
<1>3. Found(entries, capacity, k) => ~Absent(entries, k)
  BY <1>1, FindSlot DEF Absent, OccupiedSlots
<1> QED BY <1>2, <1>3

-----------------------------------------------------------------------------
(* Who owns the heap objects.                                              *)

ValuesOf(tab) == {tab[s].value : s \in OccupiedSlots(tab)}
OneOwner(tab) == \A s, t \in OccupiedSlots(tab) : tab[s].value = tab[t].value => s = t

\* The array new is tab with the pair k, v in slot s, or without slot s.
Puts(tab, new, s, k, v) ==
  /\ OccupiedSlots(new) = OccupiedSlots(tab) \cup {s}
  /\ new[s].key = k /\ new[s].value = v
  /\ \A t \in OccupiedSlots(tab) : t # s => new[t] = tab[t]

Drops(tab, new, s) ==
  /\ s \in OccupiedSlots(tab)
  /\ OccupiedSlots(new) = OccupiedSlots(tab) \ {s}
  /\ \A t \in OccupiedSlots(new) : new[t] = tab[t]

\* The objects are owned by the slots of the current array and by the put in
\* progress, each by one of them; and a rebuild doubles the capacity when the
\* entries alone need it and not otherwise.
Owning ==
  /\ live = Owned
  /\ OneOwner(Current)
  /\ pc = "rebuild" => pending.value \notin ValuesOf(old)

Growing ==
  pc = "rebuild" =>
    capacity = IF (size + 1) * 10 > CurrentCapacity * 7 THEN 2 * CurrentCapacity
               ELSE CurrentCapacity

FullInv == Inv /\ Owning /\ Growing

\* What the calls that store and remove a pair do to the slots.
LEMMA ReplaceEffect ==
  ASSUME Inv, NEW k \in Keys, NEW v \in Values, PutReplace(k, v),
         NEW s, s = FindIndex(entries, capacity, k)
  PROVE  /\ s \in OccupiedSlots(entries) /\ entries[s].key = k
         /\ Puts(entries, entries', s, k, v)
<1>1. /\ pc = "ready" /\ Found(entries, capacity, k)
      /\ entries' = Updated(entries, s, Entry("OCCUPIED", k, v))
  BY DEF PutReplace, Updated
<1>2. /\ capacity \in Nat \ {0} /\ Tabled(entries, capacity) /\ HasEmpty(entries)
      /\ entries \in [0 .. capacity - 1 -> Entries]
  BY <1>1, InvHasEmpty
<1>3. s \in 0 .. capacity - 1 /\ entries[s].state = "OCCUPIED" /\ entries[s].key = k
  BY <1>1, <1>2, FindSlot
<1>4. OccupiedSlots(entries') = OccupiedSlots(entries)
  BY <1>1, <1>2, ReplaceKeepsTable
<1>5. s \in OccupiedSlots(entries)
  BY <1>2, <1>3 DEF OccupiedSlots
<1>6. /\ entries'[s].key = k /\ entries'[s].value = v
      /\ \A t \in OccupiedSlots(entries) : t # s => entries'[t] = entries[t]
  BY <1>1, <1>2, <1>3 DEF Updated, Entry, OccupiedSlots
<1> QED BY <1>3, <1>4, <1>5, <1>6 DEF Puts

LEMMA InsertEffect ==
  ASSUME Inv, NEW k \in Keys, NEW v \in Values, PutInsert(k, v),
         NEW s, s = FindIndex(entries, capacity, k)
  PROVE  /\ s \in DOMAIN entries /\ s \notin OccupiedSlots(entries) /\ Absent(entries, k)
         /\ Puts(entries, entries', s, k, v)
<1>1. /\ pc = "ready" /\ ~Found(entries, capacity, k)
      /\ entries' = Updated(entries, s, Entry("OCCUPIED", k, v))
  BY DEF PutInsert, Store, Updated
<1>2. /\ capacity \in Nat \ {0} /\ Tabled(entries, capacity) /\ HasEmpty(entries)
      /\ entries \in [0 .. capacity - 1 -> Entries] /\ Chained(entries, capacity)
  BY <1>1, InvHasEmpty DEF Tabled
<1>3. /\ s \in DOMAIN entries /\ s \notin OccupiedSlots(entries)
      /\ OccupiedSlots(entries') = OccupiedSlots(entries) \cup {s}
  BY <1>1, <1>2, StoreKeepsTable
<1>4. Absent(entries, k)
  BY <1>1, <1>2, NotFoundAbsent
<1>5. /\ entries'[s].key = k /\ entries'[s].value = v
      /\ \A t \in OccupiedSlots(entries) : t # s => entries'[t] = entries[t]
  BY <1>1, <1>2, <1>3 DEF Updated, Entry, OccupiedSlots
<1> QED BY <1>3, <1>4, <1>5 DEF Puts

LEMMA RemoveEffect ==
  ASSUME Inv, NEW k \in Keys, Remove(k), NEW s, s = FindIndex(entries, capacity, k)
  PROVE  entries[s].key = k /\ Drops(entries, entries', s)
<1>1. /\ pc = "ready" /\ Found(entries, capacity, k)
      /\ entries' = Updated(entries, s, TombstoneEntry)
  BY DEF Remove, Updated
<1>2. /\ capacity \in Nat \ {0} /\ Tabled(entries, capacity) /\ HasEmpty(entries)
      /\ entries \in [0 .. capacity - 1 -> Entries]
  BY <1>1, InvHasEmpty
<1>3. s \in 0 .. capacity - 1 /\ entries[s].key = k
  BY <1>1, <1>2, FindSlot
<1>4. s \in OccupiedSlots(entries) /\ OccupiedSlots(entries') = OccupiedSlots(entries) \ {s}
  BY <1>1, <1>2, RemoveKeepsTable
<1>5. \A t \in OccupiedSlots(entries') : entries'[t] = entries[t]
  BY <1>1, <1>2, <1>4 DEF Updated, OccupiedSlots
<1> QED BY <1>3, <1>4, <1>5 DEF Drops

\* The end of a rebuild: the new array holds what the old one held, and the
\* pair of the put goes into a free slot.
LEMMA DoneEffect ==
  ASSUME Inv, RebuildDone, NEW s, s = FindIndex(entries, capacity, pending.key)
  PROVE  /\ {entries[x] : x \in OccupiedSlots(entries)} = {old[x] : x \in OccupiedSlots(old)}
         /\ pending.key \in Keys /\ pending.value \in Values
         /\ Absent(old, pending.key)
         /\ s \in DOMAIN entries /\ s \notin OccupiedSlots(entries)
         /\ Puts(entries, entries', s, pending.key, pending.value)
<1> DEFINE k == pending.key
           v == pending.value
<1>1. /\ pc = "rebuild" /\ i \notin DOMAIN old
      /\ entries' = Updated(entries, s, Entry("OCCUPIED", k, v))
  BY DEF RebuildDone, Store, Updated
<1>2. /\ capacity \in Nat \ {0} /\ Tabled(entries, capacity) /\ HasEmpty(entries)
      /\ entries \in [0 .. capacity - 1 -> Entries]
  BY <1>1, InvHasEmpty
<1>3. PICK n \in 2 .. capacity : DOMAIN old = 0 .. n - 1 /\ i \in 0 .. n
  BY <1>1 DEF Inv, TypeOK
<1>4. Passed = OccupiedSlots(old)
  BY <1>1, <1>3 DEF Passed, OccupiedSlots
<1>5. /\ Absent(old, k) /\ k \in Keys /\ v \in Values
      /\ UsedSlots(entries) = OccupiedSlots(entries)
      /\ {entries[x] : x \in UsedSlots(entries)} = {old[x] : x \in Passed}
  BY <1>1 DEF Inv, RebuildInv, RebuildExact, TypeOK, Passed
<1>6. {entries[x] : x \in OccupiedSlots(entries)} = {old[x] : x \in OccupiedSlots(old)}
  BY <1>4, <1>5
<1>7. ~Found(entries, capacity, k)
  <2> SUFFICES ASSUME Found(entries, capacity, k)
               PROVE  FALSE
    OBVIOUS
  <2>1. s \in 0 .. capacity - 1 /\ entries[s].state = "OCCUPIED" /\ entries[s].key = k
    BY <1>2, <1>5, FindSlot
  <2>2. s \in OccupiedSlots(entries)
    BY <1>2, <2>1 DEF OccupiedSlots
  <2>3. PICK t \in OccupiedSlots(old) : old[t] = entries[s]
    BY <1>6, <2>2
  <2> QED BY <1>5, <2>1, <2>3 DEF Absent
<1>8. /\ s \in DOMAIN entries /\ s \notin OccupiedSlots(entries)
      /\ OccupiedSlots(entries') = OccupiedSlots(entries) \cup {s}
  BY <1>1, <1>2, <1>5, <1>7, StoreKeepsTable
<1>9. /\ entries'[s].key = k /\ entries'[s].value = v
      /\ \A t \in OccupiedSlots(entries) : t # s => entries'[t] = entries[t]
  BY <1>1, <1>2, <1>8 DEF Updated, Entry, OccupiedSlots
<1> QED BY <1>5, <1>6, <1>8, <1>9 DEF Puts

\* Values after a change of one slot.
LEMMA PutsOwner ==
  ASSUME NEW tab, NEW new, NEW s, NEW k, NEW v, Puts(tab, new, s, k, v),
         OneOwner(tab), v \notin ValuesOf(tab)
  PROVE  /\ OneOwner(new)
         /\ s \notin OccupiedSlots(tab) => ValuesOf(new) = ValuesOf(tab) \cup {v}
         /\ s \in OccupiedSlots(tab) =>
              ValuesOf(new) = (ValuesOf(tab) \ {tab[s].value}) \cup {v}
<1>1. \A t \in OccupiedSlots(tab) : tab[t].value # v
  BY DEF ValuesOf
<1>2. /\ OccupiedSlots(new) = OccupiedSlots(tab) \cup {s} /\ new[s].value = v
      /\ \A t \in OccupiedSlots(tab) : t # s => new[t].value = tab[t].value
  BY DEF Puts
<1>3. \A t, u \in OccupiedSlots(tab) : tab[t].value = tab[u].value => t = u
  BY DEF OneOwner
<1>4. OneOwner(new)
  BY <1>1, <1>2, <1>3 DEF OneOwner
<1>5. s \notin OccupiedSlots(tab) => ValuesOf(new) = ValuesOf(tab) \cup {v}
  BY <1>2 DEF ValuesOf
<1>6. s \in OccupiedSlots(tab) => ValuesOf(new) = (ValuesOf(tab) \ {tab[s].value}) \cup {v}
  BY <1>1, <1>2, <1>3 DEF ValuesOf
<1> QED BY <1>4, <1>5, <1>6

LEMMA DropsOwner ==
  ASSUME NEW tab, NEW new, NEW s, Drops(tab, new, s), OneOwner(tab)
  PROVE  OneOwner(new) /\ ValuesOf(new) = ValuesOf(tab) \ {tab[s].value}
<1>1. /\ s \in OccupiedSlots(tab) /\ OccupiedSlots(new) = OccupiedSlots(tab) \ {s}
      /\ \A t \in OccupiedSlots(new) : new[t].value = tab[t].value
  BY DEF Drops
<1>2. \A t, u \in OccupiedSlots(tab) : tab[t].value = tab[u].value => t = u
  BY DEF OneOwner
<1>3. OneOwner(new)
  BY <1>1, <1>2 DEF OneOwner
<1>4. ValuesOf(new) = ValuesOf(tab) \ {tab[s].value}
  BY <1>1, <1>2 DEF ValuesOf
<1> QED BY <1>3, <1>4

\* An array without duplicate keys that holds the same entries as another one
\* in which every value has one owner is such an array too.
LEMMA SameOwners ==
  ASSUME NEW tab, NEW new, Distinct(new), OneOwner(tab),
         {new[x] : x \in OccupiedSlots(new)} = {tab[x] : x \in OccupiedSlots(tab)}
  PROVE  OneOwner(new) /\ ValuesOf(new) = ValuesOf(tab)
<1>1. ASSUME NEW x \in OccupiedSlots(new)
      PROVE  \E y \in OccupiedSlots(tab) : tab[y] = new[x]
  OBVIOUS
<1>2. ASSUME NEW y \in OccupiedSlots(tab)
      PROVE  \E x \in OccupiedSlots(new) : tab[y] = new[x]
  OBVIOUS
<1>3. ASSUME NEW s \in OccupiedSlots(new), NEW t \in OccupiedSlots(new), new[s].value = new[t].value
      PROVE  s = t
  <2>1. PICK a \in OccupiedSlots(tab) : tab[a] = new[s]
    BY <1>1
  <2>2. PICK b \in OccupiedSlots(tab) : tab[b] = new[t]
    BY <1>1
  <2>3. a = b
    BY <1>3, <2>1, <2>2 DEF OneOwner
  <2> QED BY <2>1, <2>2, <2>3 DEF Distinct
<1>4. ValuesOf(new) = ValuesOf(tab)
  BY <1>1, <1>2 DEF ValuesOf
<1> QED BY <1>3, <1>4 DEF OneOwner


\* The current array is the old one while a rebuild runs.
LEMMA OwnedIs ==
  /\ pc # "rebuild" => Owned = ValuesOf(entries) /\ Current = entries
  /\ pc = "rebuild" => Owned = ValuesOf(old) \cup {pending.value} /\ Current = old
  /\ pc' # "rebuild" => Owned' = ValuesOf(entries') /\ Current' = entries'
  /\ pc' = "rebuild" => Owned' = ValuesOf(old') \cup {pending'.value} /\ Current' = old'
BY DEF Owned, ValuesOf, Current

\* Every step keeps the ownership of the objects.
LEMMA OwningNext ==
  ASSUME Inv, Owning, [Next]_vars
  PROVE  Owning'
<1>1. /\ pc # "rebuild" => live = ValuesOf(entries) /\ OneOwner(entries)
      /\ pc = "rebuild" => /\ live = ValuesOf(old) \cup {pending.value} /\ OneOwner(old)
                           /\ pending.value \notin ValuesOf(old)
  BY OwnedIs DEF Owning
<1>2. ASSUME pc' # "rebuild", live' = ValuesOf(entries'), OneOwner(entries')
      PROVE  Owning'
  BY <1>2, OwnedIs DEF Owning
<1>3. ASSUME NEW k \in Keys, NEW v \in Values \ live, PutReplace(k, v)
      PROVE  Owning'
  <2> DEFINE s == FindIndex(entries, capacity, k)
  <2>1. pc = "ready" /\ pc' = "ready" /\ live' = (live \ {entries[s].value}) \cup {v}
    BY <1>3 DEF PutReplace, Release
  <2>2. s \in OccupiedSlots(entries) /\ Puts(entries, entries', s, k, v)
    BY <1>3, ReplaceEffect
  <2> HIDE DEF s
  <2>3. /\ OneOwner(entries')
        /\ ValuesOf(entries') = (ValuesOf(entries) \ {entries[s].value}) \cup {v}
    BY <1>1, <2>1, <2>2, PutsOwner
  <2> QED BY <1>1, <1>2, <2>1, <2>3
<1>4. ASSUME NEW k \in Keys, NEW v \in Values \ live, PutInsert(k, v)
      PROVE  Owning'
  <2> DEFINE s == FindIndex(entries, capacity, k)
  <2>1. pc = "ready" /\ pc' = "ready" /\ live' = live \cup {v}
    BY <1>4 DEF PutInsert
  <2>2. s \notin OccupiedSlots(entries) /\ Puts(entries, entries', s, k, v)
    BY <1>4, InsertEffect
  <2> HIDE DEF s
  <2>3. OneOwner(entries') /\ ValuesOf(entries') = ValuesOf(entries) \cup {v}
    BY <1>1, <2>1, <2>2, PutsOwner
  <2> QED BY <1>1, <1>2, <2>1, <2>3
<1>5. ASSUME NEW k \in Keys, NEW v \in Values \ live, PutRebuild(k, v)
      PROVE  Owning'
  <2>1. /\ pc = "ready" /\ pc' = "rebuild" /\ live' = live \cup {v}
        /\ old' = entries /\ pending' = [key |-> k, value |-> v]
    BY <1>5 DEF PutRebuild
  <2>2. pending'.value = v
    BY <2>1
  <2> QED BY <1>1, <2>1, <2>2, OwnedIs DEF Owning
<1>6. ASSUME NEW k \in Keys, Remove(k)
      PROVE  Owning'
  <2> DEFINE s == FindIndex(entries, capacity, k)
  <2>1. pc = "ready" /\ pc' = "ready" /\ live' = live \ {entries[s].value}
    BY <1>6 DEF Remove, Release
  <2>2. Drops(entries, entries', s)
    BY <1>6, RemoveEffect
  <2> HIDE DEF s
  <2>3. OneOwner(entries') /\ ValuesOf(entries') = ValuesOf(entries) \ {entries[s].value}
    BY <1>1, <2>1, <2>2, DropsOwner
  <2> QED BY <1>1, <1>2, <2>1, <2>3
<1>7. CASE RebuildStep
  <2>1. pc = "rebuild" /\ pc' = "rebuild" /\ old' = old /\ pending' = pending /\ live' = live
    BY <1>7 DEF RebuildStep
  <2> QED BY <1>1, <2>1, OwnedIs DEF Owning
<1>8. CASE RebuildDone
  <2> DEFINE s == FindIndex(entries, capacity, pending.key)
  <2>1. pc = "rebuild" /\ pc' = "ready" /\ live' = live
    BY <1>8 DEF RebuildDone
  <2>2. /\ {entries[x] : x \in OccupiedSlots(entries)} = {old[x] : x \in OccupiedSlots(old)}
        /\ s \notin OccupiedSlots(entries)
        /\ Puts(entries, entries', s, pending.key, pending.value)
    BY <1>8, DoneEffect
  <2>3. Distinct(entries)
    BY <2>1, InvHasEmpty DEF Tabled
  <2> HIDE DEF s
  <2>4. OneOwner(entries) /\ ValuesOf(entries) = ValuesOf(old)
    BY <1>1, <2>1, <2>2, <2>3, SameOwners
  <2>5. OneOwner(entries') /\ ValuesOf(entries') = ValuesOf(entries) \cup {pending.value}
    BY <1>1, <2>1, <2>2, <2>4, PutsOwner
  <2> QED BY <1>1, <1>2, <2>1, <2>4, <2>5
<1>9. CASE Destroy
  <2>1. /\ pc # "rebuild" /\ pc' = "destroyed" /\ entries' = NoEntries
        /\ live' = live \ ValuesOf(entries)
    BY <1>9 DEF Destroy, ValuesOf
  <2>2. OccupiedSlots(entries') = {}
    BY <2>1 DEF OccupiedSlots, NoEntries
  <2>3. ValuesOf(entries') = {} /\ OneOwner(entries')
    BY <2>2 DEF ValuesOf, OneOwner
  <2> QED BY <1>1, <1>2, <2>1, <2>3
<1>10. ASSUME UNCHANGED <<table, locals, pc, live>>
       PROVE  Owning'
  <2>1. UNCHANGED <<entries, old, pending, pc, live>>
    BY <1>10 DEF table, locals
  <2>2. pc = "rebuild" \/ pc # "rebuild"
    OBVIOUS
  <2> QED BY <1>1, <2>1, <2>2, OwnedIs DEF Owning
<1>11. ASSUME NEW k \in Keys, PutFails(k) \/ Get(k) \/ Contains(k) \/ RemoveMissing(k)
       PROVE  Owning'
  BY <1>10, <1>11 DEF PutFails, Get, Contains, RemoveMissing
<1>12. CASE Size
  BY <1>10, <1>12 DEF Size
<1>13. CASE UNCHANGED vars
  BY <1>10, <1>13 DEF vars
<1> QED BY <1>3, <1>4, <1>5, <1>6, <1>7, <1>8, <1>9, <1>11, <1>12, <1>13 DEF Next

\* The old array has as many slots as the capacity was.
LEMMA CapacityIs ==
  ASSUME Inv
  PROVE  /\ pc # "rebuild" => CurrentCapacity = capacity
         /\ pc = "rebuild" => /\ CurrentCapacity \in Nat /\ CurrentCapacity >= 2
                              /\ DOMAIN old = 0 .. CurrentCapacity - 1
<1>1. CASE pc = "rebuild"
  <2>1. PICK n \in 2 .. capacity : DOMAIN old = 0 .. n - 1
    BY <1>1 DEF Inv, TypeOK
  <2>2. capacity \in Nat
    BY DEF Inv, TypeOK
  <2>3. n \in Nat /\ n >= 2
    BY <2>2
  <2>4. Cardinality(0 .. n - 1) = n
    BY <2>3, FS_Interval
  <2>5. CurrentCapacity = n
    BY <1>1, <2>1, <2>4 DEF CurrentCapacity
  <2> QED BY <1>1, <2>1, <2>3, <2>5
<1>2. CASE pc # "rebuild"
  BY <1>2 DEF CurrentCapacity
<1> QED BY <1>1, <1>2

\* Every step keeps the capacity a rebuild has chosen.
LEMMA GrowingNext ==
  ASSUME Inv, Growing, [Next]_vars
  PROVE  Growing'
<1> SUFFICES ASSUME pc' = "rebuild" PROVE Growing'
  BY DEF Growing
<1>1. CASE pc = "rebuild"
  <2>1. old' = old /\ size' = size /\ capacity' = capacity
    <3>1. CASE Next
      BY <1>1, <3>1 DEF Next, PutReplace, PutInsert, PutRebuild, PutFails, Get, Contains,
                        Remove, RemoveMissing, Size, Destroy, RebuildStep, RebuildDone, table, locals
    <3>2. CASE UNCHANGED vars
      BY <3>2 DEF vars, table, locals
    <3> QED BY <3>1, <3>2
  <2>2. CurrentCapacity' = CurrentCapacity
    BY <1>1, <2>1 DEF CurrentCapacity
  <2> QED BY <1>1, <2>1, <2>2 DEF Growing
<1>2. CASE pc # "rebuild"
  <2>1. PICK k \in Keys, v \in Values : PutRebuild(k, v)
    BY <1>2 DEF Next, PutReplace, PutInsert, PutFails, Get, Contains, Remove,
                RemoveMissing, Size, Destroy, RebuildStep, RebuildDone, vars
  <2>2. /\ pc = "ready" /\ old' = entries /\ size' = size /\ capacity' = NewCapacity
    BY <2>1 DEF PutRebuild
  <2>3. capacity \in Nat \ {0} /\ entries \in [0 .. capacity - 1 -> Entries]
    BY <2>2, InvHasEmpty
  <2>4. Cardinality(0 .. capacity - 1) = capacity
    BY <2>3, FS_Interval
  <2>5. CurrentCapacity' = capacity
    BY <2>2, <2>3, <2>4 DEF CurrentCapacity
  <2> QED BY <2>2, <2>5 DEF Growing, NewCapacity, MustDouble
<1> QED BY <1>1, <1>2

\* All parts of the invariant hold in every reachable state.
THEOREM FullInvariance == Spec => []FullInv
<1>1. Init => Owning /\ Growing
  <2> SUFFICES ASSUME Init PROVE Owning /\ Growing
    OBVIOUS
  <2>1. pc = "ready" /\ live = {} /\ entries = [s \in 0 .. InitialCapacity - 1 |-> EmptyEntry]
    BY DEF Init
  <2>2. OccupiedSlots(entries) = {}
    BY <2>1, CapacityAssumption, FreshTable
  <2>3. ValuesOf(entries) = {} /\ OneOwner(entries)
    BY <2>2 DEF ValuesOf, OneOwner
  <2> QED BY <2>1, <2>3, OwnedIs DEF Owning, Growing
<1>2. Inv /\ Owning /\ [Next]_vars => Owning'
  BY OwningNext
<1>3. Inv /\ Growing /\ [Next]_vars => Growing'
  BY GrowingNext
<1> QED BY <1>1, <1>2, <1>3, Invariance, PTL DEF Spec, FullInv

\* As many values as slots that own one.
LEMMA ValuesCounted ==
  ASSUME NEW n \in Nat, NEW tab \in [0 .. n - 1 -> Entries], OneOwner(tab)
  PROVE  /\ IsFiniteSet(ValuesOf(tab))
         /\ Cardinality(ValuesOf(tab)) = Cardinality(OccupiedSlots(tab))
<1> DEFINE f == [s \in OccupiedSlots(tab) |-> tab[s].value]
<1>1. f \in Bijection(OccupiedSlots(tab), ValuesOf(tab))
  BY DEF Bijection, Injection, Surjection, IsInjective, OneOwner, ValuesOf
<1>2. IsFiniteSet(OccupiedSlots(tab))
  BY SlotCounts
<1> HIDE DEF f
<1> QED BY <1>1, <1>2, FS_Bijection DEF ExistsBijection

\* The table owns exactly the objects its slots and a put in progress point to,
\* each from one place: nothing leaks, nothing is freed twice.
THEOREM ObjectsOwned == Spec => []Ownership
<1>1. FullInv => Ownership
  <2> SUFFICES ASSUME FullInv PROVE Ownership
    OBVIOUS
  <2>1. CASE pc # "rebuild"
    <3>1. /\ capacity \in Nat /\ entries \in [0 .. capacity - 1 -> Entries]
          /\ size = Cardinality(OccupiedSlots(entries)) /\ size \in Nat
      BY <2>1 DEF FullInv, Inv, TypeOK, CountsExact
    <3>2. live = ValuesOf(entries) /\ OneOwner(entries) /\ live = Owned
      BY <2>1, OwnedIs DEF FullInv, Owning
    <3>3. Cardinality(live) = size
      BY <3>1, <3>2, ValuesCounted
    <3> QED BY <2>1, <3>1, <3>2, <3>3 DEF Ownership
  <2>2. CASE pc = "rebuild"
    <3>1. PICK n \in 2 .. capacity : DOMAIN old = 0 .. n - 1
      BY <2>2 DEF FullInv, Inv, TypeOK
    <3>2. /\ capacity \in Nat /\ old \in [0 .. n - 1 -> Entries]
          /\ size = Cardinality(OccupiedSlots(old)) /\ size \in Nat
      BY <2>2, <3>1 DEF FullInv, Inv, TypeOK, CountsExact
    <3>3. n \in Nat
      BY <3>2
    <3>4. /\ live = ValuesOf(old) \cup {pending.value} /\ OneOwner(old) /\ live = Owned
          /\ pending.value \notin ValuesOf(old)
      BY <2>2, OwnedIs DEF FullInv, Owning
    <3>5. IsFiniteSet(ValuesOf(old)) /\ Cardinality(ValuesOf(old)) = size
      BY <3>2, <3>3, <3>4, ValuesCounted
    <3>6. Cardinality(live) = size + 1
      BY <3>4, <3>5, FS_AddElement
    <3> QED BY <2>2, <3>4, <3>6 DEF Ownership
  <2> QED BY <2>1, <2>2
<1> QED BY <1>1, FullInvariance, PTL


-----------------------------------------------------------------------------
(* The refinement: the array implements the map of KsTable.                *)

KeysOf(tab) == {tab[s].key : s \in OccupiedSlots(tab)}
At(tab, k)  == CHOOSE s \in OccupiedSlots(tab) : tab[s].key = k
MapOf(tab)  == [k \in KeysOf(tab) |-> tab[At(tab, k)].value]
PosOf(tab)  == [k \in KeysOf(tab) |-> At(tab, k)]

\* The abstract variables are those of the current array.
LEMMA Mapping ==
  /\ TableMap = MapOf(Current) /\ TablePos = PosOf(Current)
  /\ TableMap' = MapOf(Current') /\ TablePos' = PosOf(Current')
<1>1. TableMap = MapOf(Current) /\ TablePos = PosOf(Current)
  BY DEF TableMap, TablePos, StoredKeys, SlotOf, KeysOf, At, MapOf, PosOf
<1>2. TableMap' = MapOf(Current') /\ TablePos' = PosOf(Current')
  BY DEF TableMap, TablePos, StoredKeys, SlotOf, KeysOf, At, MapOf, PosOf
<1> QED BY <1>1, <1>2

\* The slot of a stored key, and the key of an occupied slot.
LEMMA AtIs ==
  ASSUME NEW tab, Distinct(tab)
  PROVE  /\ \A k \in KeysOf(tab) : At(tab, k) \in OccupiedSlots(tab) /\ tab[At(tab, k)].key = k
         /\ \A s \in OccupiedSlots(tab) : /\ tab[s].key \in KeysOf(tab)
                                          /\ At(tab, tab[s].key) = s
<1>1. ASSUME NEW k \in KeysOf(tab)
      PROVE  At(tab, k) \in OccupiedSlots(tab) /\ tab[At(tab, k)].key = k
  <2>1. \E s \in OccupiedSlots(tab) : tab[s].key = k
    BY DEF KeysOf
  <2> QED BY <2>1 DEF At
<1>2. ASSUME NEW s \in OccupiedSlots(tab)
      PROVE  tab[s].key \in KeysOf(tab) /\ At(tab, tab[s].key) = s
  <2>1. tab[s].key \in KeysOf(tab)
    BY DEF KeysOf
  <2>2. /\ At(tab, tab[s].key) \in OccupiedSlots(tab)
        /\ tab[At(tab, tab[s].key)].key = tab[s].key
    BY <1>1, <2>1
  <2> QED BY <2>1, <2>2 DEF Distinct
<1> QED BY <1>1, <1>2

\* No key is stored exactly if no slot holds it.
LEMMA AbsentIs ==
  ASSUME NEW tab, NEW k
  PROVE  Absent(tab, k) <=> k \notin KeysOf(tab)
BY DEF Absent, KeysOf

\* As many keys as occupied slots.
LEMMA KeysCounted ==
  ASSUME NEW n \in Nat, NEW tab \in [0 .. n - 1 -> Entries], Distinct(tab)
  PROVE  Cardinality(KeysOf(tab)) = Cardinality(OccupiedSlots(tab))
<1> DEFINE f == [s \in OccupiedSlots(tab) |-> tab[s].key]
<1>1. f \in Bijection(OccupiedSlots(tab), KeysOf(tab))
  BY DEF Bijection, Injection, Surjection, IsInjective, Distinct, KeysOf
<1>2. IsFiniteSet(OccupiedSlots(tab))
  BY SlotCounts
<1> HIDE DEF f
<1> QED BY <1>1, <1>2, FS_Bijection DEF ExistsBijection

\* A pair is stored in a slot that was free: map and slots have one entry more.
LEMMA InsertMaps ==
  ASSUME NEW tab, NEW new, NEW s, NEW k, NEW v, Puts(tab, new, s, k, v),
         s \notin OccupiedSlots(tab), Absent(tab, k), Distinct(tab), Distinct(new)
  PROVE  /\ KeysOf(new) = KeysOf(tab) \cup {k} /\ k \notin KeysOf(tab)
         /\ At(new, k) = s /\ new[s].value = v
         /\ \A x \in KeysOf(tab) : At(new, x) = At(tab, x) /\ new[At(tab, x)] = tab[At(tab, x)]
<1>1. k \notin KeysOf(tab)
  BY AbsentIs
<1>2. /\ OccupiedSlots(new) = OccupiedSlots(tab) \cup {s}
      /\ new[s].key = k /\ new[s].value = v
      /\ \A t \in OccupiedSlots(tab) : t # s /\ new[t] = tab[t]
  BY DEF Puts
<1>3. KeysOf(new) = KeysOf(tab) \cup {k}
  BY <1>2 DEF KeysOf
<1>4. At(new, k) = s
  BY <1>2, AtIs
<1>5. ASSUME NEW x \in KeysOf(tab)
      PROVE  At(new, x) = At(tab, x) /\ new[At(tab, x)] = tab[At(tab, x)]
  <2>1. At(tab, x) \in OccupiedSlots(tab) /\ tab[At(tab, x)].key = x
    BY AtIs
  <2>2. At(tab, x) \in OccupiedSlots(new) /\ new[At(tab, x)] = tab[At(tab, x)]
    BY <1>2, <2>1
  <2>3. At(new, new[At(tab, x)].key) = At(tab, x)
    BY <2>2, AtIs
  <2> QED BY <2>1, <2>2, <2>3
<1> QED BY <1>1, <1>2, <1>3, <1>4, <1>5

\* The value of a stored key is replaced: the slots stay.
LEMMA ReplaceMaps ==
  ASSUME NEW tab, NEW new, NEW s, NEW k, NEW v, Puts(tab, new, s, k, v),
         s \in OccupiedSlots(tab), tab[s].key = k, Distinct(tab), Distinct(new)
  PROVE  /\ MapOf(new) = [MapOf(tab) EXCEPT ![k] = v] /\ PosOf(new) = PosOf(tab)
         /\ k \in DOMAIN MapOf(tab)
<1>1. /\ OccupiedSlots(new) = OccupiedSlots(tab)
      /\ new[s].key = k /\ new[s].value = v
      /\ \A t \in OccupiedSlots(tab) : t # s => new[t] = tab[t]
      /\ \A t \in OccupiedSlots(tab) : new[t].key = tab[t].key
  BY DEF Puts
<1>2. KeysOf(new) = KeysOf(tab) /\ k \in KeysOf(tab)
  BY <1>1 DEF KeysOf
<1>3. At(tab, k) = s
  BY AtIs
<1>4. ASSUME NEW x \in KeysOf(tab)
      PROVE  /\ At(new, x) = At(tab, x)
             /\ new[At(tab, x)].value = IF x = k THEN v ELSE tab[At(tab, x)].value
  <2>1. At(tab, x) \in OccupiedSlots(tab) /\ tab[At(tab, x)].key = x
    BY AtIs
  <2>2. At(tab, x) \in OccupiedSlots(new) /\ new[At(tab, x)].key = x
    BY <1>1, <2>1
  <2>3. At(new, new[At(tab, x)].key) = At(tab, x)
    BY <2>2, AtIs
  <2>4. x # k => At(tab, x) # s
    BY <2>1
  <2> QED BY <1>1, <1>3, <2>1, <2>2, <2>3, <2>4
<1>5. MapOf(new) = [MapOf(tab) EXCEPT ![k] = v]
  BY <1>2, <1>4 DEF MapOf
<1>6. PosOf(new) = PosOf(tab)
  BY <1>2, <1>4 DEF PosOf
<1> QED BY <1>2, <1>5, <1>6 DEF MapOf

\* A key is removed: the others keep their slots and values.
LEMMA RemoveMaps ==
  ASSUME NEW tab, NEW new, NEW s, NEW k, Drops(tab, new, s), tab[s].key = k,
         Distinct(tab), Distinct(new)
  PROVE  /\ KeysOf(new) = KeysOf(tab) \ {k} /\ k \in KeysOf(tab)
         /\ \A x \in KeysOf(new) : At(new, x) = At(tab, x) /\ new[At(tab, x)] = tab[At(tab, x)]
<1>1. /\ s \in OccupiedSlots(tab) /\ OccupiedSlots(new) = OccupiedSlots(tab) \ {s}
      /\ \A t \in OccupiedSlots(new) : new[t] = tab[t]
  BY DEF Drops
<1>2. \A t \in OccupiedSlots(tab) : tab[t].key = k => t = s
  BY <1>1 DEF Distinct
<1>3. KeysOf(new) = KeysOf(tab) \ {k} /\ k \in KeysOf(tab)
  BY <1>1, <1>2 DEF KeysOf
<1>4. ASSUME NEW x \in KeysOf(new)
      PROVE  At(new, x) = At(tab, x) /\ new[At(tab, x)] = tab[At(tab, x)]
  <2>1. At(new, x) \in OccupiedSlots(new) /\ new[At(new, x)].key = x
    BY AtIs
  <2>2. At(new, x) \in OccupiedSlots(tab) /\ new[At(new, x)] = tab[At(new, x)]
    BY <1>1, <2>1
  <2>3. At(tab, tab[At(new, x)].key) = At(new, x)
    BY <2>2, AtIs
  <2> QED BY <2>1, <2>2, <2>3
<1> QED BY <1>3, <1>4

\* Two arrays with the same entries map the same keys to the same values.
LEMMA SameMaps ==
  ASSUME NEW tab, NEW new, Distinct(tab), Distinct(new),
         {new[x] : x \in OccupiedSlots(new)} = {tab[x] : x \in OccupiedSlots(tab)}
  PROVE  MapOf(new) = MapOf(tab) /\ KeysOf(new) = KeysOf(tab)
<1>1. ASSUME NEW x \in OccupiedSlots(new)
      PROVE  \E y \in OccupiedSlots(tab) : tab[y] = new[x]
  OBVIOUS
<1>2. ASSUME NEW y \in OccupiedSlots(tab)
      PROVE  \E x \in OccupiedSlots(new) : tab[y] = new[x]
  OBVIOUS
<1>3. KeysOf(new) = KeysOf(tab)
  BY <1>1, <1>2 DEF KeysOf
<1>4. ASSUME NEW k \in KeysOf(tab)
      PROVE  new[At(new, k)].value = tab[At(tab, k)].value
  <2>1. At(new, k) \in OccupiedSlots(new) /\ new[At(new, k)].key = k
    BY <1>3, AtIs
  <2>2. PICK y \in OccupiedSlots(tab) : tab[y] = new[At(new, k)]
    BY <1>1, <2>1
  <2>3. At(tab, tab[y].key) = y
    BY AtIs
  <2> QED BY <2>1, <2>2, <2>3
<1> QED BY <1>3, <1>4 DEF MapOf


\* The same as functions.
LEMMA InsertFunctions ==
  ASSUME NEW tab, NEW new, NEW s, NEW k, NEW v, Puts(tab, new, s, k, v),
         s \notin OccupiedSlots(tab), Absent(tab, k), Distinct(tab), Distinct(new)
  PROVE  /\ MapOf(new) = T!With(MapOf(tab), k, v) /\ PosOf(new) = T!With(PosOf(tab), k, s)
         /\ k \notin DOMAIN MapOf(tab) /\ s \notin T!Range(PosOf(tab))
<1>1. /\ KeysOf(new) = KeysOf(tab) \cup {k} /\ k \notin KeysOf(tab)
      /\ At(new, k) = s /\ new[s].value = v
      /\ \A x \in KeysOf(tab) : At(new, x) = At(tab, x) /\ new[At(tab, x)] = tab[At(tab, x)]
  BY InsertMaps
<1>2. MapOf(new) = T!With(MapOf(tab), k, v)
  BY <1>1 DEF MapOf, T!With
<1>3. PosOf(new) = T!With(PosOf(tab), k, s)
  BY <1>1 DEF PosOf, T!With
<1>4. \A x \in KeysOf(tab) : At(tab, x) \in OccupiedSlots(tab)
  BY AtIs
<1>5. s \notin T!Range(PosOf(tab))
  BY <1>4 DEF PosOf, T!Range
<1> QED BY <1>1, <1>2, <1>3, <1>5 DEF MapOf

LEMMA RemoveFunctions ==
  ASSUME NEW tab, NEW new, NEW s, NEW k, Drops(tab, new, s), tab[s].key = k,
         Distinct(tab), Distinct(new)
  PROVE  /\ MapOf(new) = T!Without(MapOf(tab), {k}) /\ PosOf(new) = T!Without(PosOf(tab), {k})
         /\ k \in DOMAIN MapOf(tab)
<1>1. /\ KeysOf(new) = KeysOf(tab) \ {k} /\ k \in KeysOf(tab)
      /\ \A x \in KeysOf(new) : At(new, x) = At(tab, x) /\ new[At(tab, x)] = tab[At(tab, x)]
  BY RemoveMaps
<1>2. MapOf(new) = T!Without(MapOf(tab), {k})
  BY <1>1 DEF MapOf, T!Without, T!Restrict
<1>3. PosOf(new) = T!Without(PosOf(tab), {k})
  BY <1>1 DEF PosOf, T!Without, T!Restrict
<1> QED BY <1>1, <1>2, <1>3 DEF MapOf

\* After a rebuild the pairs are those of the old array and the one of the put;
\* every key is in a slot of its own.
LEMMA RehashFunctions ==
  ASSUME NEW tab, NEW mid, NEW new, NEW s, NEW k, NEW v, NEW n \in Nat,
         new \in [0 .. n - 1 -> Entries],
         Distinct(tab), Distinct(mid), Distinct(new),
         {mid[x] : x \in OccupiedSlots(mid)} = {tab[x] : x \in OccupiedSlots(tab)},
         Absent(tab, k), s \notin OccupiedSlots(mid), Puts(mid, new, s, k, v)
  PROVE  /\ MapOf(new) = T!With(MapOf(tab), k, v) /\ k \notin DOMAIN MapOf(tab)
         /\ PosOf(new) \in T!Rehashed(PosOf(tab), n, k)
<1>1. MapOf(mid) = MapOf(tab) /\ KeysOf(mid) = KeysOf(tab)
  BY SameMaps
<1>2. Absent(mid, k)
  BY <1>1, AbsentIs
<1>3. /\ MapOf(new) = T!With(MapOf(mid), k, v) /\ k \notin DOMAIN MapOf(mid)
      /\ KeysOf(new) = KeysOf(mid) \cup {k}
  <2>1. MapOf(new) = T!With(MapOf(mid), k, v) /\ k \notin DOMAIN MapOf(mid)
    BY <1>2, InsertFunctions
  <2>2. KeysOf(new) = KeysOf(mid) \cup {k}
    BY <1>2, InsertMaps
  <2> QED BY <2>1, <2>2
<1>4. \A x \in KeysOf(new) : At(new, x) \in OccupiedSlots(new) /\ new[At(new, x)].key = x
  BY AtIs
<1>5. OccupiedSlots(new) \subseteq 0 .. n - 1
  BY DEF OccupiedSlots
<1>6. DOMAIN PosOf(tab) = KeysOf(tab)
  BY DEF PosOf
<1>7. PosOf(new) \in [KeysOf(tab) \cup {k} -> 0 .. n - 1]
  BY <1>1, <1>3, <1>4, <1>5 DEF PosOf
<1>8. T!IsInjective(PosOf(new))
  BY <1>4 DEF PosOf, T!IsInjective
<1> QED BY <1>1, <1>3, <1>6, <1>7, <1>8 DEF T!Rehashed


\* A call outside of a rebuild: the array is entries and the keys are its keys.
LEMMA ReadyMaps ==
  ASSUME Inv, pc # "rebuild", pc' # "rebuild"
  PROVE  /\ TableMap = MapOf(entries) /\ TablePos = PosOf(entries)
         /\ TableMap' = MapOf(entries') /\ TablePos' = PosOf(entries')
         /\ CurrentCapacity = capacity /\ CurrentCapacity' = capacity'
         /\ Current = entries /\ Current' = entries'
BY Mapping DEF Current, CurrentCapacity

\* What a search says is what the map says.
LEMMA FoundMaps ==
  ASSUME Inv, UniqueKeys, pc # "rebuild", NEW k \in Keys
  PROVE  /\ (pc = "ready" /\ Found(entries, capacity, k)) <=> k \in DOMAIN TableMap
         /\ pc = "ready" /\ Found(entries, capacity, k) =>
              entries[FindIndex(entries, capacity, k)].value = TableMap[k]
<1>1. TableMap = MapOf(entries) /\ DOMAIN MapOf(entries) = KeysOf(entries)
  BY Mapping DEF Current, MapOf
<1>2. CASE pc = "destroyed"
  <2>1. capacity = 0 /\ entries \in [0 .. capacity - 1 -> Entries]
    BY <1>2 DEF Inv, TypeOK
  <2>2. KeysOf(entries) = {}
    BY <2>1 DEF KeysOf, OccupiedSlots
  <2> QED BY <1>1, <1>2, <2>2
<1>3. CASE pc # "destroyed"
  <2>1. pc = "ready"
    BY <1>3 DEF Inv, TypeOK
  <2>2. Found(entries, capacity, k) <=> k \in KeysOf(entries)
    BY <1>3, FindCorrect, AbsentIs
  <2>3. ASSUME Found(entries, capacity, k)
        PROVE  entries[FindIndex(entries, capacity, k)].value = TableMap[k]
    <3> DEFINE s == FindIndex(entries, capacity, k)
    <3>1. /\ capacity \in Nat \ {0} /\ HasEmpty(entries)
          /\ entries \in [0 .. capacity - 1 -> Entries]
      BY <1>3, InvHasEmpty
    <3>2. s \in 0 .. capacity - 1 /\ entries[s].state = "OCCUPIED" /\ entries[s].key = k
      BY <2>3, <3>1, FindSlot
    <3>3. s \in OccupiedSlots(entries)
      BY <3>1, <3>2 DEF OccupiedSlots
    <3>4. At(entries, k) = s
      BY <3>2, <3>3, AtIs DEF UniqueKeys
    <3> QED BY <1>1, <2>2, <2>3, <3>4 DEF MapOf
  <2> QED BY <1>1, <2>1, <2>2, <2>3
<1> QED BY <1>2, <1>3

\* A call that changes nothing of the table.
LEMMA QuietMaps ==
  ASSUME Inv, UNCHANGED <<table, locals, pc, live>>
  PROVE  UNCHANGED <<CurrentCapacity, TableMap, TablePos>>
<1>1. UNCHANGED <<entries, old, capacity, pc>>
  BY DEF table, locals
<1>2. Current' = Current /\ CurrentCapacity' = CurrentCapacity
  BY <1>1 DEF Current, CurrentCapacity
<1> QED BY <1>2, Mapping

\* The count the abstract table answers with.
LEMMA SizeMaps ==
  ASSUME Inv, UniqueKeys
  PROVE  Cardinality(DOMAIN TablePos) = size /\ Cardinality(DOMAIN TableMap) = size
<1>1. /\ TableMap = MapOf(Current) /\ TablePos = PosOf(Current)
      /\ DOMAIN MapOf(Current) = KeysOf(Current) /\ DOMAIN PosOf(Current) = KeysOf(Current)
  BY Mapping DEF MapOf, PosOf
<1>2. PICK n \in Nat : Current \in [0 .. n - 1 -> Entries]
  <2>1. CASE pc # "rebuild"
    BY <2>1 DEF Inv, TypeOK, Current
  <2>2. CASE pc = "rebuild"
    <3>1. PICK n \in 2 .. capacity : DOMAIN old = 0 .. n - 1
      BY <2>2 DEF Inv, TypeOK
    <3>2. n \in Nat /\ old \in [0 .. n - 1 -> Entries] /\ Current = old
      BY <2>2, <3>1 DEF Inv, TypeOK, Current
    <3> QED BY <3>2
  <2> QED BY <2>1, <2>2
<1>3. Distinct(Current) /\ Cardinality(OccupiedSlots(Current)) = size
  BY DEF Inv, CountsExact, UniqueKeys, Current
<1> HIDE DEF Inv
<1>4. Cardinality(KeysOf(Current)) = size
  BY <1>2, <1>3, KeysCounted
<1> QED BY <1>1, <1>4

\* The abstract specification counts with the same Cardinality.
LEMMA SameCardinality == \A A : T!Cardinality(A) = Cardinality(A)
BY DEF T!Cardinality, Cardinality


\* Every step of the array is a step of the map, or changes nothing of it.
LEMMA StepImplements ==
  ASSUME FullInv, UniqueKeys, UniqueKeys', [Next]_vars
  PROVE  [T!Next]_(T!tableVars)
<1>1. Inv /\ Growing /\ Distinct(entries) /\ Distinct(old) /\ Distinct(entries')
  BY DEF FullInv, UniqueKeys
<1>2. ASSUME NEW k \in Keys, NEW v \in Values, PutReplace(k, v)
      PROVE  T!Replace(k, v)
  <2> DEFINE s == FindIndex(entries, capacity, k)
  <2>1. pc = "ready" /\ pc' = "ready" /\ capacity' = capacity /\ res' = Ret("REPLACED", NULL, 0)
    BY <1>2 DEF PutReplace
  <2>2. /\ s \in OccupiedSlots(entries) /\ entries[s].key = k
        /\ Puts(entries, entries', s, k, v)
    BY <1>1, <1>2, ReplaceEffect
  <2> HIDE DEF s
  <2>3. /\ MapOf(entries') = [MapOf(entries) EXCEPT ![k] = v] /\ PosOf(entries') = PosOf(entries)
        /\ k \in DOMAIN MapOf(entries)
    BY <1>1, <2>2, ReplaceMaps
  <2>4. /\ TableMap = MapOf(entries) /\ TablePos = PosOf(entries)
        /\ TableMap' = MapOf(entries') /\ TablePos' = PosOf(entries')
        /\ CurrentCapacity = capacity /\ CurrentCapacity' = capacity'
    BY <1>1, <2>1, ReadyMaps
  <2> QED BY <2>1, <2>3, <2>4 DEF T!Replace, T!Ret, Ret
<1>3. ASSUME NEW k \in Keys, NEW v \in Values, PutInsert(k, v)
      PROVE  T!InsertInPlace(k, v)
  <2> DEFINE s == FindIndex(entries, capacity, k)
  <2>1. pc = "ready" /\ pc' = "ready" /\ capacity' = capacity /\ res' = Ret("INSERTED", NULL, 0)
    BY <1>3 DEF PutInsert, Store
  <2>2. /\ s \in DOMAIN entries /\ s \notin OccupiedSlots(entries) /\ Absent(entries, k)
        /\ Puts(entries, entries', s, k, v)
    BY <1>1, <1>3, InsertEffect
  <2> HIDE DEF s
  <2>3. /\ MapOf(entries') = T!With(MapOf(entries), k, v)
        /\ PosOf(entries') = T!With(PosOf(entries), k, s)
        /\ k \notin DOMAIN MapOf(entries) /\ s \notin T!Range(PosOf(entries))
    BY <1>1, <2>2, InsertFunctions
  <2>4. /\ TableMap = MapOf(entries) /\ TablePos = PosOf(entries)
        /\ TableMap' = MapOf(entries') /\ TablePos' = PosOf(entries')
        /\ CurrentCapacity = capacity /\ CurrentCapacity' = capacity'
    BY <1>1, <2>1, ReadyMaps
  <2>5. s \in 0 .. capacity - 1
    BY <1>1, <2>1, <2>2, InvHasEmpty
  <2>6. s \in T!FreeSlots(TablePos, CurrentCapacity)
    BY <2>3, <2>4, <2>5 DEF T!FreeSlots
  <2>7. TablePos' \in T!InPlace(TablePos, CurrentCapacity, k)
    BY <2>3, <2>4, <2>6 DEF T!InPlace
  <2> QED BY <2>1, <2>3, <2>4, <2>7 DEF T!InsertInPlace, T!Ret, Ret
<1>4. ASSUME NEW k \in Keys, NEW v \in Values, PutRebuild(k, v)
      PROVE  UNCHANGED T!tableVars
  <2>1. pc = "ready" /\ pc' = "rebuild" /\ old' = entries /\ res' = res
    BY <1>4 DEF PutRebuild
  <2>2. capacity \in Nat \ {0} /\ entries \in [0 .. capacity - 1 -> Entries]
    BY <1>1, <2>1, InvHasEmpty
  <2>3. Cardinality(0 .. capacity - 1) = capacity
    BY <2>2, FS_Interval
  <2>4. CurrentCapacity = capacity /\ CurrentCapacity' = capacity
    BY <2>1, <2>2, <2>3 DEF CurrentCapacity
  <2>5. Current = entries /\ Current' = entries
    BY <2>1 DEF Current
  <2> QED BY <2>1, <2>4, <2>5, Mapping DEF T!tableVars
<1>5. CASE RebuildStep
  <2>1. pc = "rebuild" /\ pc' = "rebuild" /\ old' = old /\ res' = res
    BY <1>5 DEF RebuildStep
  <2>2. Current' = Current /\ CurrentCapacity' = CurrentCapacity
    BY <2>1 DEF Current, CurrentCapacity
  <2> QED BY <2>1, <2>2, Mapping DEF T!tableVars
<1>6. CASE RebuildDone
  <2> DEFINE k == pending.key
             v == pending.value
             s == FindIndex(entries, capacity, k)
             c == CurrentCapacity
  <2>1. /\ pc = "rebuild" /\ pc' = "ready" /\ capacity' = capacity
        /\ res' = Ret("INSERTED", NULL, 0)
    BY <1>6 DEF RebuildDone, Store
  <2>2. /\ {entries[x] : x \in OccupiedSlots(entries)} = {old[x] : x \in OccupiedSlots(old)}
        /\ k \in Keys /\ v \in Values /\ Absent(old, k)
        /\ s \in DOMAIN entries /\ s \notin OccupiedSlots(entries)
        /\ Puts(entries, entries', s, k, v)
    BY <1>1, <1>6, DoneEffect
  <2>3. capacity \in Nat /\ entries' \in [0 .. capacity - 1 -> Entries]
    <3>1. Inv'
      BY <1>1, <1>6, RebuildDoneInv
    <3> QED BY <1>1, <2>1, <3>1 DEF Inv, TypeOK
  <2>4. /\ Current = old /\ Current' = entries' /\ CurrentCapacity' = capacity
        /\ capacity = IF (size + 1) * 10 > c * 7 THEN 2 * c ELSE c
        /\ c \in Nat /\ c >= 2
    BY <1>1, <2>1, CapacityIs DEF Growing, Current, CurrentCapacity
  <2>5. /\ TableMap = MapOf(old) /\ TablePos = PosOf(old)
        /\ TableMap' = MapOf(entries') /\ TablePos' = PosOf(entries')
    BY <2>4, Mapping
  <2>6. Cardinality(DOMAIN TablePos) = size
    BY <1>1, SizeMaps
  <2>7. capacity = T!GrownCapacity(TablePos, c)
    BY <2>4, <2>6, SameCardinality DEF T!GrownCapacity
  <2> HIDE DEF s, c, k, v
  <2>8. /\ MapOf(entries') = T!With(MapOf(old), k, v) /\ k \notin DOMAIN MapOf(old)
        /\ PosOf(entries') \in T!Rehashed(PosOf(old), capacity, k)
    BY <1>1, <2>2, <2>3, RehashFunctions
  <2>9. T!InsertRehash(k, v)
    <3>1. CurrentCapacity # 0 /\ CurrentCapacity' = T!GrownCapacity(TablePos, CurrentCapacity)
      BY <2>4, <2>7 DEF c
    <3>2. TablePos' \in T!Rehashed(TablePos, CurrentCapacity', k)
      BY <2>4, <2>5, <2>8
    <3> QED BY <2>1, <2>5, <2>8, <3>1, <3>2 DEF T!InsertRehash, T!Ret, Ret
  <2> QED BY <2>2, <2>9 DEF T!Next
<1>7. ASSUME NEW k \in Keys, PutFails(k)
      PROVE  T!PutFails(k)
  <2>1. /\ pc # "rebuild" /\ ~(pc = "ready" /\ Found(entries, capacity, k))
        /\ res' = Ret("ERROR", NULL, 0)
    BY <1>7 DEF PutFails
  <2>2. UNCHANGED <<CurrentCapacity, TableMap, TablePos>>
    BY <1>1, <1>7, QuietMaps DEF PutFails
  <2>3. k \notin DOMAIN TableMap
    BY <1>1, <2>1, FoundMaps
  <2> QED BY <2>1, <2>2, <2>3 DEF T!PutFails, T!Ret, Ret
<1>8. ASSUME NEW k \in Keys, Get(k)
      PROVE  T!Get(k)
  <2>1. UNCHANGED <<CurrentCapacity, TableMap, TablePos>>
    BY <1>1, <1>8, QuietMaps DEF Get
  <2>2. pc # "rebuild"
    BY <1>8 DEF Get
  <2>3. /\ (pc = "ready" /\ Found(entries, capacity, k)) <=> k \in DOMAIN TableMap
        /\ pc = "ready" /\ Found(entries, capacity, k) =>
             entries[FindIndex(entries, capacity, k)].value = TableMap[k]
    BY <1>1, <2>2, FoundMaps
  <2>4. res' = IF k \in DOMAIN TableMap THEN Ret("FOUND", TableMap[k], 0) ELSE Ret("MISSING", NULL, 0)
    BY <1>8, <2>3 DEF Get
  <2> QED BY <2>1, <2>4 DEF T!Get, T!Ret, Ret
<1>9. ASSUME NEW k \in Keys, Contains(k)
      PROVE  T!Contains(k)
  <2>1. UNCHANGED <<CurrentCapacity, TableMap, TablePos>>
    BY <1>1, <1>9, QuietMaps DEF Contains
  <2>2. pc # "rebuild"
    BY <1>9 DEF Contains
  <2>3. (pc = "ready" /\ Found(entries, capacity, k)) <=> k \in DOMAIN TableMap
    BY <1>1, <2>2, FoundMaps
  <2>4. res' = Ret(IF k \in DOMAIN TableMap THEN "FOUND" ELSE "MISSING", NULL, 0)
    BY <1>9, <2>3 DEF Contains, IsIn
  <2> QED BY <2>1, <2>4 DEF T!Contains, T!Ret, Ret
<1>10. ASSUME NEW k \in Keys, Remove(k)
       PROVE  T!Remove(k)
  <2> DEFINE s == FindIndex(entries, capacity, k)
  <2>1. pc = "ready" /\ pc' = "ready" /\ capacity' = capacity /\ res' = Ret("REMOVED", NULL, 0)
    BY <1>10 DEF Remove
  <2>2. entries[s].key = k /\ Drops(entries, entries', s)
    BY <1>1, <1>10, RemoveEffect
  <2> HIDE DEF s
  <2>3. /\ MapOf(entries') = T!Without(MapOf(entries), {k})
        /\ PosOf(entries') = T!Without(PosOf(entries), {k})
        /\ k \in DOMAIN MapOf(entries)
    BY <1>1, <2>2, RemoveFunctions
  <2>4. /\ TableMap = MapOf(entries) /\ TablePos = PosOf(entries)
        /\ TableMap' = MapOf(entries') /\ TablePos' = PosOf(entries')
        /\ CurrentCapacity = capacity /\ CurrentCapacity' = capacity'
    BY <1>1, <2>1, ReadyMaps
  <2> QED BY <2>1, <2>3, <2>4 DEF T!Remove, T!Ret, Ret
<1>11. ASSUME NEW k \in Keys, RemoveMissing(k)
       PROVE  T!RemoveMissing(k)
  <2>1. /\ pc # "rebuild" /\ ~(pc = "ready" /\ Found(entries, capacity, k))
        /\ res' = Ret("MISSING", NULL, 0)
    BY <1>11 DEF RemoveMissing
  <2>2. UNCHANGED <<CurrentCapacity, TableMap, TablePos>>
    BY <1>1, <1>11, QuietMaps DEF RemoveMissing
  <2>3. k \notin DOMAIN TableMap
    BY <1>1, <2>1, FoundMaps
  <2> QED BY <2>1, <2>2, <2>3 DEF T!RemoveMissing, T!Ret, Ret
<1>12. CASE Size
  <2>1. UNCHANGED <<CurrentCapacity, TableMap, TablePos>> /\ res' = Ret("SIZE", NULL, size)
    BY <1>1, <1>12, QuietMaps DEF Size
  <2>2. Cardinality(DOMAIN TableMap) = size
    BY <1>1, SizeMaps
  <2>3. T!Size
    BY <2>1, <2>2, SameCardinality DEF T!Size, T!Ret, Ret
  <2> QED BY <2>3 DEF T!Next
<1>13. CASE Destroy
  <2>1. /\ pc # "rebuild" /\ pc' = "destroyed" /\ capacity' = 0 /\ entries' = NoEntries
        /\ res' = Ret("VOID", NULL, 0)
    BY <1>13 DEF Destroy
  <2>2. /\ TableMap' = MapOf(entries') /\ TablePos' = PosOf(entries')
        /\ CurrentCapacity' = capacity'
    BY <1>1, <2>1, ReadyMaps
  <2>3. KeysOf(entries') = {}
    BY <2>1 DEF KeysOf, OccupiedSlots, NoEntries
  <2>4. MapOf(entries') = T!EmptyMap /\ PosOf(entries') = T!EmptyMap
    BY <2>3 DEF MapOf, PosOf, T!EmptyMap
  <2>5. T!Destroy
    BY <2>1, <2>2, <2>4 DEF T!Destroy, T!Ret, Ret
  <2> QED BY <2>5 DEF T!Next
<1>14. CASE UNCHANGED vars
  <2>1. UNCHANGED <<table, locals, pc, live>> /\ res' = res
    BY <1>14 DEF vars
  <2>2. UNCHANGED <<CurrentCapacity, TableMap, TablePos>>
    BY <1>1, <2>1, QuietMaps
  <2> QED BY <2>1, <2>2 DEF T!tableVars
<1>15. CASE \E k \in Keys, v \in Values \ live :
              PutReplace(k, v) \/ PutInsert(k, v) \/ PutRebuild(k, v)
  BY <1>2, <1>3, <1>4, <1>15 DEF T!Next
<1>16. CASE \E k \in Keys : \/ PutFails(k) \/ Get(k) \/ Contains(k)
                            \/ Remove(k) \/ RemoveMissing(k)
  BY <1>7, <1>8, <1>9, <1>10, <1>11, <1>16 DEF T!Next
<1> QED BY <1>5, <1>6, <1>12, <1>13, <1>14, <1>15, <1>16 DEF Next

\* ks_ds implements the map of KsTable: every call has the effect and the
\* result the map gives it, and an entry keeps its slot until a put rehashes.
THEOREM ArrayImplementsTable == Spec => ImplementsTable
<1>1. Init => T!Init
  <2> SUFFICES ASSUME Init PROVE T!Init
    OBVIOUS
  <2>1. /\ pc = "ready" /\ capacity = InitialCapacity /\ res = Ret("VOID", NULL, 0)
        /\ entries = [s \in 0 .. InitialCapacity - 1 |-> EmptyEntry]
    BY DEF Init
  <2>2. OccupiedSlots(entries) = {}
    BY <2>1, CapacityAssumption, FreshTable
  <2>3. KeysOf(entries) = {}
    BY <2>2 DEF KeysOf
  <2>4. TableMap = MapOf(entries) /\ TablePos = PosOf(entries) /\ CurrentCapacity = capacity
    BY <2>1, Mapping DEF Current, CurrentCapacity
  <2>5. MapOf(entries) = T!EmptyMap /\ PosOf(entries) = T!EmptyMap
    BY <2>3 DEF MapOf, PosOf, T!EmptyMap
  <2> QED BY <2>1, <2>4, <2>5 DEF T!Init, T!Ret, Ret
<1>2. FullInv /\ UniqueKeys /\ UniqueKeys' /\ [Next]_vars => [T!Next]_(T!tableVars)
  BY StepImplements
<1> QED BY <1>1, <1>2, FullInvariance, KeysUnique, PTL DEF Spec, ImplementsTable, T!Spec

=============================================================================
