--------------------------- MODULE EvictionProofs ---------------------------
(***************************************************************************)
(* Proofs about Eviction.tla and the FileStore.tla it extends, for any     *)
(* finite set of files of any size, any number of readers, any cap and any *)
(* chunks.                                                                 *)
(***************************************************************************)
EXTENDS Eviction, FiniteSetTheorems, SequenceTheorems, TLAPS

(* The types, in groups.                                                   *)
Places == {"none", "writing", "inserting", "cancelling", "done", "failed", "cancelled", "crashed"}

DiskTypes ==
  /\ put \in [Files -> Places]
  /\ disk \in [Files -> {"none", "partial", "left", "full"}]
  /\ wiped \subseteq Files /\ leaked \subseteq Files /\ refused \subseteq Files

ReaderTypes ==
  reader \in [Readers -> [pc : {"idle", "stat", "reap", "touch"}, file : Files \cup {NoFile}]]

Injective(s) == \A i, j \in 1 .. Len(s) : s[i] = s[j] => i = j

ListTypes ==
  /\ rows \in Seq(Files) /\ Injective(rows)
  /\ todo \in Seq(Files) /\ Injective(todo)

SweepTypes ==
  /\ expired \subseteq Files /\ chunk \subseteq Files /\ added \subseteq Files
  /\ sweep \in {"wait", "select", "delete", "unlink", "scan", "prune", "stopped"}
  /\ policy \in {"ttl", "lru"}
  /\ total \in Int
  /\ enough \in BOOLEAN /\ stopping \in BOOLEAN /\ reaped \in BOOLEAN

(* put() has returned, or was cancelled after its thread was done: only    *)
(* such a file has a row, and it will not be inserted again.               *)
Settled(f) == put[f] \in {"done", "cancelled"}

(* What a put() leaves on disk at each point, the rest of a failed write    *)
(* that could not be removed included.                                     *)
FileInv ==
  \A f \in Files : /\ put[f] = "inserting" => disk[f] = "full"
                   /\ Settled(f) => disk[f] # "partial"
                   /\ put[f] = "done" => disk[f] # "left"
                   /\ disk[f] = "left" => f \in refused

PutInv ==
  /\ FileInv
  /\ \A f \in Rows \cup added \cup chunk : Settled(f)

ReaderInv ==
  \A r \in Readers : reader[r].pc # "idle" =>
    /\ reader[r].file \in Files /\ put[reader[r].file] = "done"
    /\ reader[r].pc = "reap" => disk[reader[r].file] = "none"

ChunkInv ==
  /\ sweep = "unlink" => chunk \cap Rows = {}
  /\ sweep = "delete" => chunk \cap ToSet(todo) = {}

StoreInv == PutInv /\ ReaderInv /\ ChunkInv /\ NoOrphanBytes /\ RowsHaveBytes

(* The rows that stay once the victims chosen are deleted.                 *)
Rest == Rows \ (ToSet(todo) \cup (IF sweep = "delete" THEN chunk ELSE {}))

Deleting == policy = "lru" /\ sweep \in {"select", "delete", "unlink"}

(* A victim without which the rest would not fit the cache, not deleted    *)
(* yet: the last of the list.                                              *)
Needed(f) == f \in Rows /\ total + Size[f] > MaxBytes

(* What the pass takes for the size of the rest is that size, but for what *)
(* was added and what a reader has dropped.                                *)
TotalInv ==
  /\ sweep = "scan" => total > MaxBytes
  /\ sweep = "scan" \/ Deleting =>
       /\ Bytes(Rest) <= total + Bytes(added)
       /\ ~ reaped => total <= Bytes(Rest)
  /\ sweep = "scan" => todo = <<>>
  /\ sweep = "prune" => Bytes(Rows) <= MaxBytes + Bytes(added)
  /\ Deleting /\ enough => total <= MaxBytes
  /\ Deleting /\ ~ reaped =>
       /\ todo # <<>> => Needed(todo[Len(todo)])
       /\ sweep = "delete" /\ todo = <<>> => \E f \in chunk : Needed(f)

EvictionInv ==
  /\ DiskTypes /\ ReaderTypes /\ ListTypes /\ SweepTypes
  /\ StoreInv /\ TotalInv
-----------------------------------------------------------------------------
(* Lists.                                                                  *)
LEMMA ToSetFacts ==
  ASSUME NEW s \in Seq(Files)
  PROVE  /\ ToSet(s) = {s[i] : i \in 1 .. Len(s)}
         /\ ToSet(s) \subseteq Files /\ IsFiniteSet(ToSet(s))
         /\ ToSet(s) = {} <=> s = <<>>
<1>1. DOMAIN s = 1 .. Len(s) /\ Len(s) \in Nat /\ \A i \in 1 .. Len(s) : s[i] \in Files
  OBVIOUS
<1>2. ToSet(s) = {s[i] : i \in 1 .. Len(s)} /\ ToSet(s) \subseteq Files
  BY <1>1 DEF ToSet
<1>3. IsFiniteSet(ToSet(s))
  BY <1>2, EvictionAssumption, FS_Subset
<1>4. ToSet(s) = {} => s = <<>>
  BY <1>1, <1>2
<1>5. s = <<>> => ToSet(s) = {}
  BY <1>1, <1>2
<1>6. QED
  BY <1>2, <1>3, <1>4, <1>5

LEMMA ToSetEmpty == ToSet(<<>>) = {}
BY DEF ToSet

LEMMA AppendFacts ==
  ASSUME NEW s \in Seq(Files), NEW f \in Files, Injective(s), f \notin ToSet(s)
  PROVE  /\ Append(s, f) \in Seq(Files)
         /\ ToSet(Append(s, f)) = ToSet(s) \cup {f}
         /\ Injective(Append(s, f))
<1>1. /\ Append(s, f) \in Seq(Files) /\ Len(Append(s, f)) = Len(s) + 1
      /\ \A i \in 1 .. Len(s) : Append(s, f)[i] = s[i]
      /\ Append(s, f)[Len(s) + 1] = f
      /\ Len(s) \in Nat
  BY AppendProperties
<1>2. 1 .. Len(Append(s, f)) = 1 .. Len(s) \cup {Len(s) + 1}
  BY <1>1
<1>3. ToSet(s) = {s[i] : i \in 1 .. Len(s)}
  BY ToSetFacts
<1>4. ToSet(Append(s, f)) = {Append(s, f)[i] : i \in 1 .. Len(Append(s, f))}
  BY <1>1, ToSetFacts
<1>5. ToSet(Append(s, f)) = ToSet(s) \cup {f}
  BY <1>1, <1>2, <1>3, <1>4
<1>6. Injective(Append(s, f))
  BY <1>1, <1>2, <1>3 DEF Injective
<1>7. QED
  BY <1>1, <1>5, <1>6

(* A part of a list, from m on.                                            *)
LEMMA SubSeqFacts ==
  ASSUME NEW s \in Seq(Files), Injective(s), NEW m \in Nat \ {0}, NEW n \in Nat, n <= Len(s)
  PROVE  LET part == SubSeq(s, m, n)
         IN  /\ part \in Seq(Files) /\ Injective(part)
             /\ Len(part) = IF m <= n THEN n - m + 1 ELSE 0
             /\ \A i \in 1 .. Len(part) : part[i] = s[m + i - 1]
             /\ ToSet(part) = {s[i] : i \in m .. n}
<1> DEFINE part == SubSeq(s, m, n)
<1>1. Len(s) \in Nat /\ \A i \in m .. n : s[i] \in Files
  OBVIOUS
<1>2. /\ part \in Seq(Files) /\ Len(part) = IF m <= n THEN n - m + 1 ELSE 0
      /\ \A i \in 1 .. n - m + 1 : part[i] = s[m + i - 1]
  BY <1>1, SubSeqProperties
<1> HIDE DEF part
<1>3. \A i \in 1 .. Len(part) : part[i] = s[m + i - 1] /\ m + i - 1 \in 1 .. Len(s)
  BY <1>1, <1>2
<1>4. Injective(part)
  <2> SUFFICES ASSUME NEW i \in 1 .. Len(part), NEW j \in 1 .. Len(part), part[i] = part[j]
               PROVE  i = j
    BY DEF Injective
  <2>1. m + i - 1 = m + j - 1
    BY <1>3 DEF Injective
  <2>2. QED
    BY <2>1
<1>5. ToSet(part) = {s[i] : i \in m .. n}
  <2>1. ToSet(part) = {part[i] : i \in 1 .. Len(part)}
    BY <1>2, ToSetFacts
  <2>2. ASSUME NEW i \in m .. n PROVE i - m + 1 \in 1 .. Len(part) /\ part[i - m + 1] = s[i]
    <3>1. i - m + 1 \in 1 .. n - m + 1
      BY <2>2
    <3>2. part[i - m + 1] = s[m + (i - m + 1) - 1]
      BY <1>2, <3>1
    <3>3. m + (i - m + 1) - 1 = i /\ m <= n
      BY <2>2
    <3>4. QED
      BY <1>2, <3>1, <3>2, <3>3
  <2>3. ASSUME NEW i \in 1 .. Len(part) PROVE \E j \in m .. n : part[i] = s[j]
    <3>1. m <= n /\ Len(part) = n - m + 1
      BY <1>2
    <3>2. m + i - 1 \in m .. n
      BY <3>1
    <3>3. QED
      BY <1>3, <3>2
  <2>4. ToSet(part) \subseteq {s[i] : i \in m .. n}
    BY <2>1, <2>3
  <2>5. {s[i] : i \in m .. n} \subseteq ToSet(part)
    BY <2>1, <2>2
  <2>6. QED
    BY <2>4, <2>5
<1>6. QED
  BY <1>2, <1>3, <1>4, <1>5 DEF part

LEMMA PrefixFacts ==
  ASSUME NEW s \in Seq(Files), Injective(s), NEW n \in Nat
  PROVE  LET k == IF n < Len(s) THEN n ELSE Len(s)
         IN  /\ Prefix(s, n) \in Seq(Files) /\ Injective(Prefix(s, n))
             /\ Len(Prefix(s, n)) = k /\ k \in Nat /\ k <= Len(s)
             /\ \A i \in 1 .. k : Prefix(s, n)[i] = s[i]
             /\ ToSet(Prefix(s, n)) = {s[i] : i \in 1 .. k}
             /\ ToSet(Prefix(s, n)) \subseteq ToSet(s)
<1> DEFINE k == IF n < Len(s) THEN n ELSE Len(s)
<1>1. k \in Nat /\ k <= Len(s) /\ Prefix(s, n) = SubSeq(s, 1, k)
  BY DEF Prefix
<1> HIDE DEF k
<1>2. /\ Prefix(s, n) \in Seq(Files) /\ Injective(Prefix(s, n))
      /\ Len(Prefix(s, n)) = IF 1 <= k THEN k - 1 + 1 ELSE 0
      /\ \A i \in 1 .. Len(Prefix(s, n)) : Prefix(s, n)[i] = s[1 + i - 1]
      /\ ToSet(Prefix(s, n)) = {s[i] : i \in 1 .. k}
  BY <1>1, SubSeqFacts
<1>3. Len(Prefix(s, n)) = k
  BY <1>1, <1>2
<1>4. \A i \in 1 .. k : Prefix(s, n)[i] = s[i]
  BY <1>1, <1>2, <1>3
<1>5. ToSet(Prefix(s, n)) \subseteq ToSet(s)
  BY <1>1, <1>2, ToSetFacts
<1>6. QED
  BY <1>1, <1>2, <1>3, <1>4, <1>5 DEF k

(* Without: counting the kept positions up to each is a bijection, so that *)
(* there is an nth for every n.                                            *)
LEMMA WithoutFacts ==
  ASSUME NEW s \in Seq(Files), Injective(s), NEW gone
  PROVE  /\ Without(s, gone) \in Seq(Files)
         /\ ToSet(Without(s, gone)) = ToSet(s) \ gone
         /\ Injective(Without(s, gone))
<1> DEFINE kept == {i \in 1 .. Len(s) : s[i] \notin gone}
           upto(i) == {k \in kept : k <= i}
           Nth(n) == CHOOSE i \in kept : Cardinality({k \in kept : k <= i}) = n
           size == Cardinality(kept)
           count == [i \in kept |-> Cardinality(upto(i))]
<1>1. /\ Len(s) \in Nat /\ \A i \in 1 .. Len(s) : s[i] \in Files
      /\ kept \subseteq Nat /\ IsFiniteSet(kept) /\ size \in Nat
  <2>1. IsFiniteSet(1 .. Len(s))
    BY FS_Interval
  <2>2. IsFiniteSet(kept)
    BY <2>1, FS_Subset
  <2>3. QED
    BY <2>2, FS_CardinalityType
<1>2. Without(s, gone) = [n \in 1 .. size |-> s[Nth(n)]]
  BY DEF Without
<1>3. ASSUME NEW i \in kept
      PROVE  IsFiniteSet(upto(i)) /\ Cardinality(upto(i)) \in 1 .. size
  <2>1. upto(i) \subseteq kept /\ i \in upto(i)
    BY <1>1
  <2>2. IsFiniteSet(upto(i)) /\ Cardinality(upto(i)) <= size /\ Cardinality(upto(i)) \in Nat
    BY <1>1, <2>1, FS_Subset, FS_CardinalityType
  <2>3. Cardinality(upto(i)) # 0
    BY <2>1, <2>2, FS_EmptySet
  <2>4. QED
    BY <1>1, <2>2, <2>3
<1> HIDE DEF upto
<1>4. ASSUME NEW i \in kept, NEW j \in kept, i < j PROVE Cardinality(upto(i)) < Cardinality(upto(j))
  <2>1. upto(i) \subseteq upto(j) /\ j \in upto(j) /\ j \notin upto(i)
    BY <1>1, <1>4 DEF upto
  <2>2. Cardinality(upto(i)) <= Cardinality(upto(j)) /\ Cardinality(upto(i)) # Cardinality(upto(j))
    BY <1>3, <2>1, FS_Subset
  <2>3. Cardinality(upto(i)) \in Nat /\ Cardinality(upto(j)) \in Nat
    BY <1>1, <1>3
  <2>4. QED
    BY <2>2, <2>3
<1>5. \A i, j \in kept : Cardinality(upto(i)) = Cardinality(upto(j)) => i = j
  <2> SUFFICES ASSUME NEW i \in kept, NEW j \in kept,
                      Cardinality(upto(i)) = Cardinality(upto(j)), i # j
               PROVE  FALSE
    OBVIOUS
  <2>1. i < j \/ j < i
    BY <1>1
  <2>2. Cardinality(upto(i)) \in Nat /\ Cardinality(upto(j)) \in Nat
    BY <1>1, <1>3
  <2>3. QED
    BY <1>4, <2>1, <2>2
<1>6. count \in Injection(kept, 1 .. size)
  BY <1>3, <1>5 DEF Injection, IsInjective
<1>7. count \in Surjection(kept, 1 .. size)
  <2>1. IsFiniteSet(1 .. size) /\ Cardinality(1 .. size) = size
    BY <1>1, FS_Interval
  <2>2. QED
    BY <1>6, <2>1, FS_Injection
<1>8. ASSUME NEW n \in 1 .. size PROVE Nth(n) \in kept /\ Cardinality(upto(Nth(n))) = n
  <2>1. \E i \in kept : Cardinality({k \in kept : k <= i}) = n
    BY <1>7 DEF Surjection, upto
  <2>2. QED
    BY <2>1 DEF upto
<1>9. ASSUME NEW i \in kept PROVE \E n \in 1 .. size : Nth(n) = i
  <2>1. PICK n \in 1 .. size : n = Cardinality(upto(i))
    BY <1>3
  <2>2. Nth(n) \in kept /\ Cardinality(upto(Nth(n))) = n
    BY <1>8
  <2>3. QED
    BY <1>5, <2>1, <2>2
<1>10. \A n \in 1 .. size : s[Nth(n)] \in Files /\ s[Nth(n)] \notin gone /\ Nth(n) \in 1 .. Len(s)
  BY <1>1, <1>8
<1>11. \A m, n \in 1 .. size : s[Nth(m)] = s[Nth(n)] => m = n
  BY <1>8, <1>10 DEF Injective
<1>12. \A f \in ToSet(s) \ gone : \E n \in 1 .. size : s[Nth(n)] = f
  <2> SUFFICES ASSUME NEW f \in ToSet(s) \ gone PROVE \E n \in 1 .. size : s[Nth(n)] = f
    OBVIOUS
  <2>1. PICK i \in 1 .. Len(s) : s[i] = f
    BY ToSetFacts
  <2>2. i \in kept
    BY <2>1
  <2>3. QED
    BY <1>9, <2>1, <2>2
<1> HIDE DEF kept, upto, Nth, size, count
<1>13. Without(s, gone) \in Seq(Files) /\ Len(Without(s, gone)) = size
  BY <1>1, <1>2, <1>10
<1>14. \A n \in 1 .. size : Without(s, gone)[n] = s[Nth(n)]
  BY <1>2
<1>15. Injective(Without(s, gone))
  BY <1>11, <1>13, <1>14 DEF Injective
<1>16. ToSet(Without(s, gone)) = ToSet(s) \ gone
  <2>1. ToSet(Without(s, gone)) = {Without(s, gone)[n] : n \in 1 .. size}
    BY <1>13, ToSetFacts
  <2>2. ToSet(s) = {s[i] : i \in 1 .. Len(s)}
    BY ToSetFacts
  <2>3. \A n \in 1 .. size : Without(s, gone)[n] \in ToSet(s) \ gone
    BY <1>10, <1>14, <2>2
  <2>4. QED
    BY <1>12, <1>14, <2>1, <2>3
<1>17. QED
  BY <1>13, <1>15, <1>16
-----------------------------------------------------------------------------
(* Bytes.                                                                  *)
BytesOf(files) == UNION {{f} \X (1 .. Size[f]) : f \in files}

LEMMA BytesOfFacts ==
  ASSUME NEW S \in SUBSET Files
  PROVE  /\ Bytes(S) = Cardinality(BytesOf(S))
         /\ IsFiniteSet(BytesOf(S)) /\ Bytes(S) \in Nat
<1> DEFINE Of(f) == {f} \X (1 .. Size[f])
           images == {Of(f) : f \in S}
           g == [f \in S |-> Of(f)]
<1>1. IsFiniteSet(S)
  BY EvictionAssumption, FS_Subset
<1>2. ASSUME NEW f \in S PROVE IsFiniteSet(Of(f))
  <2>1. 1 \in Int /\ Size[f] \in Int
    BY EvictionAssumption
  <2>2. IsFiniteSet(1 .. Size[f])
    BY <2>1, FS_Interval
  <2>3. IsFiniteSet({f})
    BY FS_Singleton
  <2>4. QED
    BY <2>2, <2>3, FS_Product
<1>3. IsFiniteSet(images)
  <2>1. g \in Surjection(S, images)
    BY DEF Surjection
  <2>2. QED
    BY <1>1, <2>1, FS_Surjection
<1>4. IsFiniteSet(UNION images)
  BY <1>2, <1>3, FS_UNION
<1>5. BytesOf(S) = UNION images
  BY DEF BytesOf
<1>6. Bytes(S) = Cardinality(BytesOf(S))
  BY DEF Bytes, BytesOf
<1>7. QED
  BY <1>4, <1>5, <1>6, FS_CardinalityType

LEMMA BytesNone == Bytes({}) = 0
<1>1. BytesOf({}) = {}
  BY DEF BytesOf
<1>2. QED
  BY <1>1, BytesOfFacts, FS_EmptySet

LEMMA BytesOne ==
  ASSUME NEW f \in Files
  PROVE  Bytes({f}) = Size[f] /\ Size[f] \in Nat \ {0}
<1>1. Size[f] \in Nat \ {0}
  BY EvictionAssumption
<1>2. BytesOf({f}) = {f} \X (1 .. Size[f])
  BY DEF BytesOf
<1>3. IsFiniteSet({f}) /\ Cardinality({f}) = 1
  BY FS_Singleton
<1>4. IsFiniteSet(1 .. Size[f]) /\ Cardinality(1 .. Size[f]) = Size[f]
  <2>1. 1 \in Int /\ Size[f] \in Int
    BY <1>1
  <2>2. /\ IsFiniteSet(1 .. Size[f])
        /\ Cardinality(1 .. Size[f]) = IF 1 > Size[f] THEN 0 ELSE Size[f] - 1 + 1
    BY <2>1, FS_Interval
  <2>3. QED
    BY <1>1, <2>2
<1>5. Cardinality({f} \X (1 .. Size[f])) = Cardinality({f}) * Cardinality(1 .. Size[f])
  BY <1>3, <1>4, FS_Product
<1>6. 1 * Size[f] = Size[f]
  BY <1>1
<1>7. Bytes({f}) = Cardinality(BytesOf({f}))
  <2>1. {f} \in SUBSET Files
    OBVIOUS
  <2>2. QED
    BY <2>1, BytesOfFacts
<1>8. QED
  BY <1>1, <1>2, <1>3, <1>4, <1>5, <1>6, <1>7

LEMMA BytesMonotonic ==
  ASSUME NEW T \in SUBSET Files, NEW S \in SUBSET T
  PROVE  Bytes(S) <= Bytes(T)
<1>1. BytesOf(S) \subseteq BytesOf(T)
  BY DEF BytesOf
<1>2. S \in SUBSET Files
  OBVIOUS
<1>3. IsFiniteSet(BytesOf(T)) /\ Bytes(S) = Cardinality(BytesOf(S)) /\ Bytes(T) = Cardinality(BytesOf(T))
  BY <1>2, BytesOfFacts
<1>4. QED
  BY <1>1, <1>3, FS_Subset

LEMMA BytesOfUnion ==
  ASSUME NEW S \in SUBSET Files, NEW T \in SUBSET Files
  PROVE  /\ Bytes(S \cup T) <= Bytes(S) + Bytes(T)
         /\ S \cap T = {} => Bytes(S \cup T) = Bytes(S) + Bytes(T)
<1>1. BytesOf(S \cup T) = BytesOf(S) \cup BytesOf(T)
  BY DEF BytesOf
<1>2. S \cap T = {} => BytesOf(S) \cap BytesOf(T) = {}
  BY DEF BytesOf
<1>3. /\ IsFiniteSet(BytesOf(S)) /\ IsFiniteSet(BytesOf(T))
      /\ Bytes(S) = Cardinality(BytesOf(S)) /\ Bytes(T) = Cardinality(BytesOf(T))
      /\ Bytes(S \cup T) = Cardinality(BytesOf(S \cup T))
      /\ Bytes(S) \in Nat /\ Bytes(T) \in Nat /\ Bytes(S \cup T) \in Nat
  BY BytesOfFacts
<1>4. Bytes(S \cup T) = Bytes(S) + Bytes(T) - Cardinality(BytesOf(S) \cap BytesOf(T))
  BY <1>1, <1>3, FS_Union
<1>5. /\ IsFiniteSet(BytesOf(S) \cap BytesOf(T))
      /\ Cardinality(BytesOf(S) \cap BytesOf(T)) \in Nat
  BY <1>3, FS_Intersection, FS_CardinalityType
<1>6. S \cap T = {} => Cardinality(BytesOf(S) \cap BytesOf(T)) = 0
  BY <1>2, FS_EmptySet
<1>7. QED
  BY <1>3, <1>4, <1>5, <1>6

-----------------------------------------------------------------------------
(* The least number of a nonempty set.                                     *)
LEMMA LeastExists ==
  ASSUME NEW S, S \subseteq Nat, S # {}
  PROVE  Min(S) \in S /\ \A n \in S : Min(S) <= n
<1> DEFINE Below == {1 .. n : n \in S}
<1>1. ASSUME NEW n \in S PROVE 1 .. n \in FiniteSubsetsOf(Nat)
  <2>1. n \in Int /\ 1 .. n \subseteq Nat
    OBVIOUS
  <2>2. IsFiniteSet(1 .. n)
    BY <2>1, FS_Interval
  <2>3. QED
    BY <2>1, <2>2 DEF FiniteSubsetsOf
<1>2. PICK B \in Below : \A y \in Below : <<y, B>> \notin StrictSubsetOrdering(Nat)
  <2>1. Below \subseteq FiniteSubsetsOf(Nat) /\ Below # {}
    BY <1>1
  <2>2. QED
    BY <2>1, FS_StrictSubsetOrderingWellFounded, WFMin
<1>3. PICK m \in S : B = 1 .. m
  OBVIOUS
<1>4. ASSUME NEW n \in S PROVE m <= n
  <2>1. SUFFICES ASSUME n < m PROVE FALSE
    BY <1>3, <1>4
  <2>2. 1 .. n \subseteq 1 .. m /\ m \in 1 .. m /\ m \notin 1 .. n
    BY <2>1, <1>3, <1>4
  <2>3. <<1 .. n, B>> \in StrictSubsetOrdering(Nat)
    BY <2>2, <1>3, <1>4 DEF StrictSubsetOrdering
  <2>4. QED
    BY <2>3, <1>2
<1>5. QED
  BY <1>4, <1>3 DEF Min

(* The victims of a scan are candidates, of which the last is needed and,  *)
(* unless all are taken, no more is.                                       *)
LEMMA VictimsFacts ==
  ASSUME NEW s \in Seq(Files), Injective(s), s # <<>>, total \in Int, total > MaxBytes
  PROVE  LET victims == Victims(s)
             rest == total - Bytes(ToSet(victims))
         IN  /\ victims \in Seq(Files) /\ Injective(victims) /\ victims # <<>>
             /\ ToSet(victims) \subseteq ToSet(s)
             /\ Len(victims) < Len(s) => rest <= MaxBytes
             /\ rest + Size[victims[Len(victims)]] > MaxBytes
<1> DEFINE enoughAt == {n \in 1 .. Len(s) : \/ n = Len(s)
                                            \/ total - Bytes(ToSet(Prefix(s, n))) <= MaxBytes}
           k == Min(enoughAt)
           victims == Victims(s)
<1>0. Len(s) \in Nat \ {0} /\ MaxBytes \in Nat
  BY EvictionAssumption
<1>1. k \in enoughAt /\ \A n \in enoughAt : k <= n
  <2>1. enoughAt \subseteq Nat /\ Len(s) \in enoughAt
    BY <1>0
  <2>2. QED
    BY <2>1, LeastExists
<1>2. victims = Prefix(s, k)
  BY DEF Victims
<1>3. /\ k \in 1 .. Len(s) /\ k \in Nat \ {0}
      /\ k < Len(s) => total - Bytes(ToSet(Prefix(s, k))) <= MaxBytes
      /\ \A n \in 1 .. Len(s) : n < k => ~ (total - Bytes(ToSet(Prefix(s, n))) <= MaxBytes)
  <2>1. k \in 1 .. Len(s) /\ k \in Nat \ {0}
    BY <1>0, <1>1
  <2>2. k < Len(s) => total - Bytes(ToSet(Prefix(s, k))) <= MaxBytes
    BY <1>1, <2>1
  <2>3. ASSUME NEW n \in 1 .. Len(s), n < k
        PROVE  ~ (total - Bytes(ToSet(Prefix(s, n))) <= MaxBytes)
    <3>1. n \notin enoughAt
      BY <1>0, <1>1, <2>1, <2>3
    <3>2. QED
      BY <3>1
  <2>4. QED
    BY <2>1, <2>2, <2>3
<1> HIDE DEF enoughAt, k
<1>4. /\ victims \in Seq(Files) /\ Injective(victims)
      /\ Len(victims) = k
      /\ \A i \in 1 .. k : victims[i] = s[i]
      /\ ToSet(victims) = {s[i] : i \in 1 .. k}
      /\ ToSet(victims) \subseteq ToSet(s)
  <2>1. (IF k < Len(s) THEN k ELSE Len(s)) = k
    BY <1>0, <1>3
  <2>2. QED
    BY <1>2, <1>3, <2>1, PrefixFacts
<1> HIDE DEF victims
<1>5. victims # <<>> /\ victims[k] = s[k] /\ s[k] \in Files /\ Size[s[k]] \in Nat
  BY <1>0, <1>3, <1>4, EvictionAssumption
<1>6. (total - Bytes(ToSet(victims))) + Size[s[k]] > MaxBytes
  <2> DEFINE before == {s[i] : i \in 1 .. k - 1}
  <2>1. ToSet(victims) = before \cup {s[k]} /\ s[k] \notin before /\ before \in SUBSET Files
    <3>1. 1 .. k = 1 .. k - 1 \cup {k} /\ k \notin 1 .. k - 1
      BY <1>3
    <3>2. \A i \in 1 .. k - 1 : s[i] # s[k] /\ s[i] \in Files
      BY <1>0, <1>3 DEF Injective
    <3>3. QED
      BY <1>4, <3>1, <3>2
  <2> HIDE DEF before
  <2>2. Bytes(ToSet(victims)) = Bytes(before) + Size[s[k]] /\ Bytes(before) \in Nat
    <3>1. {s[k]} \in SUBSET Files /\ before \cap {s[k]} = {}
      BY <1>5, <2>1
    <3>2. Bytes(before \cup {s[k]}) = Bytes(before) + Bytes({s[k]})
      BY <2>1, <3>1, BytesOfUnion
    <3>3. QED
      BY <1>5, <2>1, <3>2, BytesOne, BytesOfFacts
  <2>3. total - Bytes(before) > MaxBytes
    <3>1. CASE k = 1
      <4>1. before = {}
        BY <3>1 DEF before
      <4>2. QED
        BY <4>1, BytesNone
    <3>2. CASE k # 1
      <4>1. k - 1 \in 1 .. Len(s) /\ k - 1 < k /\ k - 1 \in Nat
        BY <1>0, <1>3, <3>2
      <4>2. ToSet(Prefix(s, k - 1)) = before
        <5>1. (IF k - 1 < Len(s) THEN k - 1 ELSE Len(s)) = k - 1
          BY <1>0, <1>3, <4>1
        <5>2. QED
          BY <4>1, <5>1, PrefixFacts DEF before
      <4>3. QED
        BY <1>0, <1>3, <2>2, <4>1, <4>2
    <3>3. QED
      BY <3>1, <3>2
  <2>4. QED
    BY <1>0, <1>5, <2>2, <2>3
<1>7. QED
  BY <1>2, <1>3, <1>4, <1>5, <1>6 DEF victims
-----------------------------------------------------------------------------
(* Storing and reading.                                                    *)
(* Nothing but a file whose put() is inserting it gets a row.              *)
OnlyInserted == \A f \in ToSet(rows') \ Rows : put[f] = "inserting"

LEMMA RowsKept ==
  ASSUME EvictionInv, UNCHANGED rows
  PROVE  rows' \in Seq(Files) /\ Injective(rows') /\ ToSet(rows') = Rows /\ Rows' = Rows
BY DEF EvictionInv, ListTypes, Rows

LEMMA RowsInserted ==
  ASSUME EvictionInv, NEW f \in Files, put[f] = "inserting", rows' = Append(rows, f)
  PROVE  rows' \in Seq(Files) /\ Injective(rows') /\ ToSet(rows') = Rows \cup {f} /\ Rows' = Rows \cup {f}
<1>1. f \notin Rows
  BY DEF EvictionInv, StoreInv, PutInv, Settled
<1>2. rows \in Seq(Files) /\ Injective(rows)
  BY DEF EvictionInv, ListTypes
<1>3. QED
  BY <1>1, <1>2, AppendFacts DEF Rows

LEMMA RowsDropped ==
  ASSUME EvictionInv, NEW gone, rows' = Without(rows, gone)
  PROVE  rows' \in Seq(Files) /\ Injective(rows') /\ ToSet(rows') = Rows \ gone /\ Rows' = Rows \ gone
<1>1. rows \in Seq(Files) /\ Injective(rows)
  BY DEF EvictionInv, ListTypes
<1>2. QED
  BY <1>1, WithoutFacts DEF Rows

LEMMA RowsTouched ==
  ASSUME EvictionInv, NEW f \in Rows, rows' = Append(Without(rows, {f}), f)
  PROVE  rows' \in Seq(Files) /\ Injective(rows') /\ ToSet(rows') = Rows /\ Rows' = Rows
<1>1. rows \in Seq(Files) /\ Injective(rows) /\ f \in Files
  BY ToSetFacts DEF EvictionInv, ListTypes, Rows
<1> DEFINE rest == Without(rows, {f})
<1>2. rest \in Seq(Files) /\ Injective(rest) /\ ToSet(rest) = Rows \ {f}
  BY <1>1, WithoutFacts DEF Rows
<1> HIDE DEF rest
<1>3. Append(rest, f) \in Seq(Files) /\ Injective(Append(rest, f)) /\ ToSet(Append(rest, f)) = (Rows \ {f}) \cup {f}
  BY <1>1, <1>2, AppendFacts
<1>4. rows' = Append(rest, f)
  BY DEF rest
<1>5. QED
  BY <1>3, <1>4 DEF Rows

(* What is asked to be removed goes, or is known to have stayed.           *)
LEMMA UnlinkFacts ==
  ASSUME DiskTypes, NEW files, UnlinkAll(files)
  PROVE  /\ disk' \in [Files -> {"none", "partial", "left", "full"}]
         /\ \A f \in Files : disk[f] # "full" \/ f \notin files => disk'[f] = disk[f]
         /\ \A f \in Files \cap files : disk[f] = "full" =>
              disk'[f] = "none" \/ (disk'[f] = "full" /\ f \in refused')
         /\ refused \subseteq refused' /\ refused' \subseteq refused \cup {f \in files : disk[f] = "full"}
<1>1. PICK stay \in SUBSET {f \in files : disk[f] = "full"} :
         /\ disk' = [f \in Files |-> IF f \in files \ stay /\ disk[f] = "full" THEN "none" ELSE disk[f]]
         /\ refused' = refused \cup stay
  BY DEF UnlinkAll
<1>2. QED
  BY <1>1 DEF DiskTypes

(* put() and whoever removes its bytes.                                    *)
LEMMA PutKeeps ==
  ASSUME EvictionInv, UNCHANGED sweepVars, NEW f \in Files,
         Put(f) \/ PutStep(f) \/ CancelWrite(f) \/ InsertFails(f) \/ CancelInsert(f) \/ Wipe(f)
  PROVE  /\ DiskTypes' /\ ReaderTypes' /\ rows' \in Seq(Files) /\ Injective(rows') /\ OnlyInserted
         /\ \A g \in Files : Settled(g) => Settled(g)'
         /\ \A g \in Rows' : Settled(g)'
         /\ FileInv' /\ ReaderInv' /\ NoOrphanBytes' /\ RowsHaveBytes'
<1> USE DEF DiskTypes, ReaderTypes, OnlyInserted, Settled, ReaderInv, NoOrphanBytes, RowsHaveBytes,
            PutGoes, DiskBecomes, FileInv, Places
<1>1. /\ DiskTypes /\ ReaderTypes /\ PutInv /\ ReaderInv /\ NoOrphanBytes /\ RowsHaveBytes
      /\ UNCHANGED <<sweep, chunk>>
      /\ Rows \subseteq Files
  BY ToSetFacts DEF EvictionInv, ListTypes, StoreInv, sweepVars, Rows
<1>2. CASE Put(f)
  BY <1>1, <1>2, RowsKept DEF Put, PutInv
<1>3. CASE WriteEnds(f)
  BY <1>1, <1>3, RowsKept DEF WriteEnds, PutInv
<1>4. CASE Written(f)
  BY <1>1, <1>4, RowsKept DEF Written, PutInv
<1>5. CASE DiscardLate(f)
  <2>1. UnlinkAll({f})
    BY <1>5 DEF DiscardLate, Discard
  <2>2. QED
    BY <1>1, <1>5, <2>1, UnlinkFacts, RowsKept DEF DiscardLate, PutInv
<1>6. CASE Insert(f)
  BY <1>1, <1>6, RowsInserted DEF Insert, PutInv
<1>7. CASE CancelWrite(f)
  BY <1>1, <1>7, RowsKept DEF CancelWrite, PutInv
<1>8. CASE InsertFails(f)
  <2>1. UnlinkAll({f})
    BY <1>8 DEF InsertFails, Discard
  <2>2. QED
    BY <1>1, <1>8, <2>1, UnlinkFacts, RowsKept DEF InsertFails, PutInv
<1>9. CASE CancelInsert(f) /\ UNCHANGED rows
  <2>1. UnlinkAll({f})
    BY <1>9 DEF CancelInsert, Discard
  <2>2. QED
    BY <1>1, <1>9, <2>1, UnlinkFacts, RowsKept DEF CancelInsert, PutInv
<1>10. CASE CancelInsert(f) /\ rows' = Append(rows, f)
  <2>1. UnlinkAll({f})
    BY <1>10 DEF CancelInsert, Discard
  <2>2. QED
    BY <1>1, <1>10, <2>1, UnlinkFacts, RowsInserted DEF CancelInsert, PutInv
<1>11. CASE Wipe(f)
  BY <1>1, <1>11, RowsKept DEF Wipe, PutInv
<1>12. CancelInsert(f) => rows' = rows \/ rows' = Append(rows, f)
  BY DEF CancelInsert
<1>13. QED
  BY <1>2, <1>3, <1>4, <1>5, <1>6, <1>7, <1>8, <1>9, <1>10, <1>11, <1>12 DEF PutStep

LEMMA ReadKeeps ==
  ASSUME EvictionInv, UNCHANGED sweepVars, NEW r \in Readers,
         Lookup(r) \/ ReadStep(r) \/ ReadFails(r)
  PROVE  /\ DiskTypes' /\ ReaderTypes' /\ rows' \in Seq(Files) /\ Injective(rows')
         /\ ToSet(rows') \subseteq Rows /\ Rows' \subseteq Rows /\ UNCHANGED <<put, disk, refused>>
         /\ ReaderInv' /\ NoOrphanBytes' /\ RowsHaveBytes'
<1> USE DEF DiskTypes, ReaderTypes, ReaderInv, NoOrphanBytes, RowsHaveBytes, ReaderGoes, Places
<1>1. /\ DiskTypes /\ ReaderTypes /\ PutInv /\ ReaderInv /\ NoOrphanBytes /\ RowsHaveBytes
      /\ UNCHANGED <<sweep, chunk>>
      /\ Rows \subseteq Files
  BY ToSetFacts DEF EvictionInv, ListTypes, StoreInv, sweepVars, Rows
<1>2. CASE Lookup(r)
  BY <1>1, <1>2, RowsKept DEF Lookup
<1>3. CASE Stat(r)
  <2>1. disk[reader[r].file] \in {"none", "full"} /\ reader[r].file \in Files /\ put[reader[r].file] = "done"
    BY <1>1, <1>3 DEF Stat, PutInv, FileInv, Settled
  <2>2. QED
    BY <1>1, <1>3, <2>1, RowsKept DEF Stat
<1>4. CASE Reap(r)
  <2>1. ToSet(rows') = Rows \ {reader[r].file} /\ Rows' = Rows \ {reader[r].file}
        /\ rows' \in Seq(Files) /\ Injective(rows')
    BY <1>4, RowsDropped DEF Reap
  <2>2. disk[reader[r].file] = "none" 
    BY <1>1, <1>4 DEF Reap
  <2>3. QED
    BY <1>1, <1>4, <2>1, <2>2 DEF Reap
<1>5. CASE Touch(r)
  <2>1. ToSet(rows') = Rows /\ Rows' = Rows /\ rows' \in Seq(Files) /\ Injective(rows')
    BY <1>5, RowsKept, RowsTouched DEF Touch
  <2>2. QED
    BY <1>1, <1>5, <2>1 DEF Touch
<1>6. CASE ReadFails(r)
  BY <1>1, <1>6, RowsKept DEF ReadFails
<1>7. QED
  BY <1>2, <1>3, <1>4, <1>5, <1>6 DEF ReadStep

LEMMA ServeKeeps ==
  ASSUME EvictionInv, Serve
  PROVE  DiskTypes' /\ ReaderTypes' /\ ListTypes' /\ SweepTypes' /\ StoreInv' /\ OnlyInserted
<1>1. /\ UNCHANGED <<expired, sweep, policy, todo, chunk, total, enough, stopping>>
      /\ UNCHANGED sweepVars
      /\ added' = added \cup (ToSet(rows') \ Rows)
      /\ reaped' = (reaped \/ ~(Rows \subseteq ToSet(rows')))
      /\ StoreNext
  BY DEF Serve, sweepVars
<1>2. /\ ListTypes /\ SweepTypes /\ PutInv /\ ChunkInv
  BY DEF EvictionInv, StoreInv
<1>3. /\ DiskTypes' /\ ReaderTypes' /\ rows' \in Seq(Files) /\ Injective(rows') /\ OnlyInserted
      /\ \A g \in Files : Settled(g) => Settled(g)'
      /\ \A g \in Rows' : Settled(g)'
      /\ FileInv' /\ ReaderInv' /\ NoOrphanBytes' /\ RowsHaveBytes'
  <2>1. CASE \E f \in Files : \/ Put(f) \/ PutStep(f) \/ CancelWrite(f) \/ InsertFails(f)
                              \/ CancelInsert(f) \/ Wipe(f)
    BY <1>1, <2>1, PutKeeps
  <2>2. CASE \E r \in Readers : Lookup(r) \/ ReadStep(r) \/ ReadFails(r)
    <3>1. /\ DiskTypes' /\ ReaderTypes' /\ rows' \in Seq(Files) /\ Injective(rows')
          /\ ToSet(rows') \subseteq Rows /\ Rows' \subseteq Rows /\ UNCHANGED <<put, disk, refused>>
          /\ ReaderInv' /\ NoOrphanBytes' /\ RowsHaveBytes'
      BY <1>1, <2>2, ReadKeeps
    <3>2. QED
      BY <1>2, <3>1 DEF OnlyInserted, Settled, PutInv, FileInv
  <2>3. QED
    BY <1>1, <2>1, <2>2 DEF StoreNext
<1>4. ListTypes'
  BY <1>1, <1>2, <1>3 DEF ListTypes
<1>5. SweepTypes'
  <2>1. ToSet(rows') \subseteq Files
    BY <1>3, ToSetFacts
  <2>2. QED
    BY <1>1, <1>2, <2>1 DEF SweepTypes
<1>6. PutInv'
  <2>1. added' \subseteq added \cup Rows' /\ chunk' = chunk /\ added \subseteq Files /\ chunk \subseteq Files
    BY <1>1, <1>2 DEF Rows, SweepTypes
  <2>2. \A f \in added \cup chunk : Settled(f)
    BY <1>2 DEF PutInv
  <2>3. QED
    BY <1>3, <2>1, <2>2 DEF PutInv
<1>7. ChunkInv'
  BY <1>1, <1>2, <1>3 DEF ChunkInv, OnlyInserted, Rows, PutInv, Settled
<1>8. QED
  BY <1>3, <1>4, <1>5, <1>6, <1>7 DEF StoreInv
-----------------------------------------------------------------------------
(* Scan, spelled out: either nothing is left to scan, or the victims of    *)
(* the first rows become the list.                                         *)
LEMMA ScanFacts ==
  ASSUME EvictionInv, Scan
  PROVE  /\ rows = <<>> => sweep' = "prune" /\ UNCHANGED <<policy, todo, total, enough>>
         /\ rows # <<>> =>
              /\ policy' = "lru" /\ sweep' = "select"
              /\ todo' # <<>> /\ ToSet(todo') \subseteq Rows
              /\ total' = total - Bytes(ToSet(todo'))
              /\ enough' => total' <= MaxBytes
              /\ total' + Size[todo'[Len(todo')]] > MaxBytes
              /\ enough' \in BOOLEAN
         /\ todo' \in Seq(Files) /\ Injective(todo') /\ total' \in Int
<1> DEFINE candidates == Prefix(rows, ScanChunk)
<1>1. /\ rows \in Seq(Files) /\ Injective(rows) /\ todo \in Seq(Files) /\ Injective(todo)
      /\ total \in Int /\ total > MaxBytes
      /\ ScanChunk \in Nat \ {0} /\ Len(rows) \in Nat
  BY EvictionAssumption DEF EvictionInv, ListTypes, SweepTypes, TotalInv, Scan
<1>2. /\ candidates \in Seq(Files) /\ Injective(candidates)
      /\ Len(candidates) = (IF ScanChunk < Len(rows) THEN ScanChunk ELSE Len(rows))
      /\ ToSet(candidates) \subseteq Rows
  BY <1>1, PrefixFacts DEF Rows
<1>3. candidates = <<>> <=> rows = <<>>
  BY <1>1, <1>2
<1>4. CASE rows = <<>>
  <2>1. candidates = <<>>
    BY <1>3, <1>4
  <2>2. sweep' = "prune" /\ UNCHANGED <<policy, todo, total, enough>>
    BY <2>1 DEF Scan
  <2>3. QED
    BY <1>1, <1>4, <2>2
<1>5. CASE rows # <<>>
  <2> DEFINE victims == Victims(candidates)
  <2>1. candidates # <<>>
    BY <1>3, <1>5
  <2>2. /\ todo' = victims
        /\ total' = total - Bytes(ToSet(victims))
        /\ enough' = (Len(victims) < Len(candidates))
        /\ policy' = "lru" /\ sweep' = "select"
    BY <2>1 DEF Scan
  <2> HIDE DEF candidates
  <2>3. /\ victims \in Seq(Files) /\ Injective(victims) /\ victims # <<>>
        /\ ToSet(victims) \subseteq ToSet(candidates)
        /\ Len(victims) < Len(candidates) => total - Bytes(ToSet(victims)) <= MaxBytes
        /\ (total - Bytes(ToSet(victims))) + Size[victims[Len(victims)]] > MaxBytes
    BY <1>1, <1>2, <2>1, VictimsFacts
  <2> HIDE DEF victims
  <2>4. Bytes(ToSet(victims)) \in Nat
    BY <2>3, ToSetFacts, BytesOfFacts
  <2>5. enough' \in BOOLEAN /\ (enough' => total' <= MaxBytes)
    <3>1. (Len(victims) < Len(candidates)) \in BOOLEAN
      OBVIOUS
    <3>2. enough' \in BOOLEAN
      BY <2>2, <3>1
    <3>3. enough' => total' <= MaxBytes
      BY <2>2, <2>3
    <3>4. QED
      BY <3>2, <3>3
  <2>6. total' \in Int
    BY <1>1, <2>2, <2>4
  <2>7. todo' \in Seq(Files) /\ Injective(todo') /\ todo' # <<>> /\ ToSet(todo') \subseteq Rows
    BY <1>2, <2>2, <2>3
  <2>8. total' = total - Bytes(ToSet(todo')) /\ total' + Size[todo'[Len(todo')]] > MaxBytes
    BY <2>2, <2>3
  <2>9. QED
    BY <1>5, <2>2, <2>5, <2>6, <2>7, <2>8
<1>6. QED
  BY <1>4, <1>5
-----------------------------------------------------------------------------
(* The sweep.                                                              *)

(* Every step but those of storing and reading.                            *)
NotServe ==
  \/ SweepStep \/ SelectChunk \/ DeleteChunkRows \/ PassFails
  \/ Stop \/ Stopped \/ StopTimeout \/ Restart
  \/ \E f \in Files : Expire(f)

LEMMA TailFacts ==
  ASSUME NEW s \in Seq(Files), Injective(s), NEW n \in Nat, n <= Len(s)
  PROVE  LET rest == SubSeq(s, n + 1, Len(s))
         IN  /\ rest \in Seq(Files) /\ Injective(rest)
             /\ ToSet(rest) = {s[i] : i \in n + 1 .. Len(s)}
<1>1. n + 1 \in Nat \ {0} /\ Len(s) \in Nat /\ Len(s) <= Len(s)
  OBVIOUS
<1>2. QED
  BY <1>1, SubSeqFacts

LEMMA SweepKeeps ==
  ASSUME EvictionInv, NotServe
  PROVE  DiskTypes' /\ ReaderTypes' /\ ListTypes' /\ SweepTypes' /\ StoreInv'
<1> USE DEF DiskTypes, ReaderTypes, ListTypes, SweepTypes, ReaderInv, ChunkInv, PutInv, FileInv, Settled,
            NoOrphanBytes, RowsHaveBytes
<1>1. /\ DiskTypes /\ ReaderTypes /\ ListTypes /\ SweepTypes /\ PutInv /\ ReaderInv /\ ChunkInv
      /\ NoOrphanBytes /\ RowsHaveBytes
      /\ Rows \subseteq Files
  BY ToSetFacts DEF EvictionInv, StoreInv, Rows
<1> USE DEF storeVars, sweepVars, historyVars
<1>2. CASE Begin
  <2>1. todo' \in Seq(Files) /\ Injective(todo')
    BY <1>1, <1>2, WithoutFacts DEF Begin
  <2>2. QED
    BY <1>1, <1>2, <2>1, RowsKept DEF Begin, StoreInv
<1>3. CASE SelectChunk
  <2> DEFINE ids == Prefix(todo, DeleteChunk)
  <2>1. /\ todo' = SubSeq(todo, Len(ids) + 1, Len(todo))
        /\ chunk' = ToSet(ids) \cap Rows
        /\ sweep' \in {"select", "delete"}
        /\ UNCHANGED <<storeVars, expired, policy, total, enough, stopping, historyVars>>
    BY <1>3 DEF SelectChunk
  <2>2. /\ DeleteChunk \in Nat /\ todo \in Seq(Files) /\ Injective(todo)
    BY <1>1, EvictionAssumption
  <2>3. /\ Len(ids) \in Nat /\ Len(todo) \in Nat
        /\ ToSet(ids) = {todo[i] : i \in 1 .. Len(ids)} /\ Len(ids) <= Len(todo)
    BY <2>2, PrefixFacts
  <2> HIDE DEF ids
  <2>4. /\ todo' \in Seq(Files) /\ Injective(todo')
        /\ ToSet(todo') = {todo[i] : i \in Len(ids) + 1 .. Len(todo)}
    <3>1. todo' = SubSeq(todo, Len(ids) + 1, Len(todo))
      BY <2>1
    <3>2. QED
      BY <2>2, <2>3, <3>1, TailFacts
  <2>5. ToSet(ids) \cap ToSet(todo') = {}
    BY <2>2, <2>3, <2>4 DEF Injective
  <2>6. UNCHANGED <<put, disk, rows, reader, wiped, leaked, refused, expired, added, policy, total, enough, stopping, reaped>>
    BY <2>1
  <2>7. chunk' \subseteq Rows /\ chunk' \cap ToSet(todo') = {}
    BY <2>1, <2>5
  <2>8. sweep # "unlink" /\ sweep' # "unlink"
    BY <1>3, <2>1 DEF SelectChunk
  <2>9. DiskTypes' /\ ReaderTypes' /\ ListTypes' /\ SweepTypes'
    BY <1>1, <2>1, <2>4, <2>6, <2>7, RowsKept
  <2>10. StoreInv'
    BY <1>1, <2>6, <2>7, <2>8, RowsKept DEF StoreInv
  <2>11. QED
    BY <2>9, <2>10
<1>4. CASE DeleteChunkRows
  <2>1. rows' \in Seq(Files) /\ Injective(rows') /\ Rows' = Rows \ chunk
    BY <1>4, RowsDropped DEF DeleteChunkRows, DeleteRows
  <2>2. QED
    BY <1>1, <1>4, <2>1 DEF DeleteChunkRows, StoreInv
<1>5. CASE UnlinkChunk
  <2>1. UnlinkAll(chunk)
    BY <1>5 DEF UnlinkChunk
  <2>2. QED
    BY <1>1, <1>5, <2>1, UnlinkFacts, RowsKept DEF UnlinkChunk, StoreInv
<1>6. CASE Measure
  <2>1. Bytes(Rows) \in Nat
    BY <1>1, BytesOfFacts
  <2>2. /\ UNCHANGED <<storeVars, expired, policy, todo, chunk, enough, stopping>>
        /\ total' \in Int /\ added' = {} /\ reaped' = FALSE
        /\ sweep' \in {"scan", "prune"} /\ sweep # "unlink"
    BY <1>6, <2>1 DEF Measure
  <2>3. QED
    BY <1>1, <2>2, RowsKept DEF StoreInv
<1>7. CASE Scan
  <2>1. todo' \in Seq(Files) /\ Injective(todo') /\ total' \in Int
    BY <1>1, <1>7, ScanFacts
  <2>2. /\ UNCHANGED <<storeVars, expired, chunk, stopping, historyVars>>
        /\ sweep' \in {"select", "prune"} /\ sweep # "unlink"
        /\ policy' \in {"ttl", "lru"} /\ enough' \in BOOLEAN
    BY <1>1, <1>7, ScanFacts DEF Scan
  <2>3. QED
    BY <1>1, <2>1, <2>2, RowsKept DEF StoreInv
<1>8. CASE Deleted
  BY <1>1, <1>8, RowsKept DEF Deleted, StoreInv
<1>9. CASE Prune
  BY <1>1, <1>9, RowsKept DEF Prune, StoreInv
<1>10. CASE PassFails
  BY <1>1, <1>10, RowsKept DEF PassFails, StoreInv
<1>11. CASE Stop
  BY <1>1, <1>11, RowsKept DEF Stop, StoreInv
<1>12. CASE Stopped
  BY <1>1, <1>12, RowsKept DEF Stopped, StoreInv
<1>13. CASE StopTimeout
  <2>1. CASE sweep = "delete" /\ DeleteRows(chunk) /\ UNCHANGED <<disk, refused>>
    <3>1. rows' \in Seq(Files) /\ Injective(rows') /\ Rows' = Rows \ chunk /\ ToSet(rows') = Rows \ chunk
      BY <2>1, RowsDropped DEF DeleteRows
    <3>2. QED
      BY <1>1, <1>13, <2>1, <3>1 DEF StopTimeout, StoreInv
  <2>2. CASE sweep = "unlink" /\ UnlinkAll(chunk) /\ UNCHANGED rows
    BY <1>1, <1>13, <2>2, UnlinkFacts, RowsKept DEF StopTimeout, StoreInv
  <2>3. CASE UNCHANGED <<rows, disk, refused>>
    BY <1>1, <1>13, <2>3, RowsKept DEF StopTimeout, StoreInv
  <2>4. QED
    BY <1>13, <2>1, <2>2, <2>3 DEF StopTimeout
<1>14. CASE Restart
  <2>1. todo' = <<>> /\ chunk' = {} /\ sweep' = "wait" /\ stopping' = FALSE
        /\ UNCHANGED <<expired, policy, total, enough, historyVars>>
        /\ todo' \in Seq(Files) /\ Injective(todo')
    BY <1>14 DEF Restart, Injective
  <2>2. CASE UNCHANGED storeVars /\ sweep = "stopped"
    BY <1>1, <2>1, <2>2, RowsKept DEF StoreInv
  <2>3. CASE StoreCrash
    BY <1>1, <2>1, <2>3, RowsKept DEF StoreCrash, StoreInv, Places
  <2>4. QED
    BY <1>14, <2>2, <2>3 DEF Restart
<1>15. CASE \E f \in Files : Expire(f)
  BY <1>1, <1>15, RowsKept DEF Expire, StoreInv
<1>16. QED
  BY <1>2, <1>3, <1>4, <1>5, <1>6, <1>7, <1>8, <1>9, <1>10, <1>11, <1>12, <1>13, <1>14, <1>15
     DEF NotServe, SweepStep
-----------------------------------------------------------------------------
(* What the pass believes of the total.                                    *)
LEMMA Nothing ==
  ASSUME sweep' \in {"wait", "stopped"} \/ (policy' = "ttl" /\ sweep' \in {"select", "delete", "unlink"})
  PROVE  TotalInv'
BY DEF TotalInv, Deleting

LEMMA TotalSame ==
  ASSUME TotalInv, UNCHANGED <<rows, sweep, policy, todo, chunk, total, enough, added, reaped>>
  PROVE  TotalInv'
<1>1. Rows' = Rows /\ Rest' = Rest
  BY DEF Rows, Rest
<1>2. QED
  BY <1>1 DEF TotalInv, Deleting, Needed

LEMMA BytesFacts ==
  ASSUME EvictionInv
  PROVE  /\ Rows \subseteq Files /\ Rest \subseteq Rows /\ added \subseteq Files
         /\ Bytes(Rows) \in Nat /\ Bytes(Rest) \in Nat /\ Bytes(added) \in Nat
         /\ total \in Int /\ MaxBytes \in Nat
<1>1. Rows \subseteq Files /\ Rest \subseteq Rows /\ added \subseteq Files /\ total \in Int
  BY ToSetFacts DEF EvictionInv, ListTypes, SweepTypes, Rows, Rest
<1>2. Rows \in SUBSET Files /\ Rest \in SUBSET Files /\ added \in SUBSET Files
  BY <1>1
<1>3. QED
  BY <1>1, <1>2, BytesOfFacts, EvictionAssumption

(* What is stored meanwhile is added: its put() had not returned, so it    *)
(* was not counted as added before.                                        *)
LEMMA ServeTotal ==
  ASSUME EvictionInv, Serve
  PROVE  TotalInv'
<1> DEFINE New == ToSet(rows') \ Rows
<1>1. /\ UNCHANGED <<sweep, policy, todo, chunk, total, enough>>
      /\ added' = added \cup New
      /\ Rows' = ToSet(rows')
      /\ ~ reaped' => ~ reaped /\ Rows \subseteq Rows'
  BY DEF Serve, sweepVars, Rows
<1>2. New \cap added = {} /\ New \in SUBSET Files
  <2>1. rows' \in Seq(Files) /\ \A f \in New : put[f] = "inserting"
    BY ServeKeeps DEF ListTypes, OnlyInserted
  <2>2. \A f \in added : put[f] # "inserting"
    BY DEF EvictionInv, StoreInv, PutInv, Settled
  <2>3. QED
    BY <2>1, <2>2, ToSetFacts
<1>3. Rows' \subseteq Rows \cup New /\ Rest' \subseteq Rest \cup New
  BY <1>1 DEF Rest
<1>4. Rows \subseteq Rows' => Rest \subseteq Rest'
  BY <1>1 DEF Rest
<1>5. /\ Bytes(added') = Bytes(added) + Bytes(New)
      /\ Bytes(Rows') <= Bytes(Rows) + Bytes(New)
      /\ Bytes(Rest') <= Bytes(Rest) + Bytes(New)
      /\ Rows \subseteq Rows' => Bytes(Rest) <= Bytes(Rest')
      /\ Bytes(New) \in Nat /\ Bytes(Rows') \in Nat /\ Bytes(Rest') \in Nat
  <2>1. /\ Rows \in SUBSET Files /\ Rest \in SUBSET Files /\ added \in SUBSET Files
        /\ New \in SUBSET Files
        /\ Rows \cup New \in SUBSET Files /\ Rest \cup New \in SUBSET Files
        /\ Rows' \in SUBSET Files /\ Rest' \in SUBSET Files
    BY <1>2, <1>3, BytesFacts
  <2> HIDE DEF New
  <2>2. Bytes(added') = Bytes(added) + Bytes(New)
    BY <1>1, <1>2, <2>1, BytesOfUnion
  <2>3. /\ Bytes(Rows') <= Bytes(Rows \cup New)
        /\ Bytes(Rest') <= Bytes(Rest \cup New)
        /\ Rows \subseteq Rows' => Bytes(Rest) <= Bytes(Rest')
    BY <1>3, <1>4, <2>1, BytesMonotonic
  <2>4. /\ Bytes(Rows \cup New) <= Bytes(Rows) + Bytes(New)
        /\ Bytes(Rest \cup New) <= Bytes(Rest) + Bytes(New)
    BY <2>1, BytesOfUnion
  <2>5. /\ Bytes(Rows) \in Nat /\ Bytes(Rest) \in Nat /\ Bytes(New) \in Nat
        /\ Bytes(Rows') \in Nat /\ Bytes(Rest') \in Nat
        /\ Bytes(Rows \cup New) \in Nat /\ Bytes(Rest \cup New) \in Nat
    BY <2>1, BytesOfFacts
  <2>6. QED
    BY <2>2, <2>3, <2>4, <2>5
<1>6. TotalInv
  BY DEF EvictionInv
<1>7. ~ reaped' => \A f : Needed(f) => Needed(f)'
  BY <1>1 DEF Needed
<1> HIDE DEF New
<1>8. sweep' = "scan" \/ Deleting' =>
        /\ Bytes(Rest') <= total' + Bytes(added')
        /\ ~ reaped' => total' <= Bytes(Rest')
  BY <1>1, <1>5, <1>6, BytesFacts DEF TotalInv, Deleting
<1>9. sweep' = "prune" => Bytes(Rows') <= MaxBytes + Bytes(added')
  BY <1>1, <1>5, <1>6, BytesFacts DEF TotalInv
<1>10. QED
  BY <1>1, <1>6, <1>7, <1>8, <1>9 DEF TotalInv, Deleting

(* The last victim stays the last of the list until it is in the chunk.    *)
LEMMA SelectChunkTotal ==
  ASSUME EvictionInv, SelectChunk
  PROVE  TotalInv'
<1> DEFINE ids == Prefix(todo, DeleteChunk)
<1>1. /\ todo' = SubSeq(todo, Len(ids) + 1, Len(todo))
      /\ chunk' = ToSet(ids) \cap Rows
      /\ sweep = "select" /\ todo # <<>>
      /\ sweep' = IF chunk' = {} THEN "select" ELSE "delete"
      /\ Rows' = Rows
      /\ UNCHANGED <<rows, policy, total, enough, added, reaped>>
  BY DEF SelectChunk, storeVars, historyVars, Rows
<1>2. DeleteChunk \in Nat \ {0} /\ todo \in Seq(Files) /\ Injective(todo) /\ Len(todo) \in Nat \ {0}
  BY <1>1, EvictionAssumption DEF EvictionInv, ListTypes
<1>3. /\ Len(ids) \in 1 .. Len(todo)
      /\ ToSet(ids) = {todo[i] : i \in 1 .. Len(ids)}
  BY <1>2, PrefixFacts
<1> HIDE DEF ids
<1>4. /\ ToSet(todo') = {todo[i] : i \in Len(ids) + 1 .. Len(todo)}
      /\ Len(todo') = Len(todo) - Len(ids)
      /\ \A i \in 1 .. Len(todo') : todo'[i] = todo[Len(ids) + i]
  <2>1. Len(ids) + 1 \in Nat \ {0} /\ Len(todo) \in Nat /\ Len(todo) <= Len(todo)
    BY <1>2, <1>3
  <2>2. /\ ToSet(todo') = {todo[i] : i \in Len(ids) + 1 .. Len(todo)}
        /\ Len(todo') = IF Len(ids) + 1 <= Len(todo) THEN Len(todo) - (Len(ids) + 1) + 1 ELSE 0
        /\ \A i \in 1 .. Len(todo') : todo'[i] = todo[Len(ids) + 1 + i - 1]
    BY <1>1, <1>2, <2>1, SubSeqFacts
  <2>3. Len(todo') = Len(todo) - Len(ids)
    BY <1>2, <1>3, <2>2
  <2>4. QED
    BY <1>2, <1>3, <2>2, <2>3
<1>5. ToSet(todo) = ToSet(ids) \cup ToSet(todo')
  <2>1. 1 .. Len(todo) = 1 .. Len(ids) \cup (Len(ids) + 1 .. Len(todo))
    BY <1>2, <1>3
  <2>2. ToSet(todo) = {todo[i] : i \in 1 .. Len(todo)}
    BY <1>2, ToSetFacts
  <2>3. {todo[i] : i \in 1 .. Len(todo)}
          = {todo[i] : i \in 1 .. Len(ids)} \cup {todo[i] : i \in Len(ids) + 1 .. Len(todo)}
    BY <2>1
  <2>4. QED
    BY <1>3, <1>4, <2>2, <2>3
<1>6. Rest' = Rest
  BY <1>1, <1>5 DEF Rest
<1>7. TotalInv
  BY DEF EvictionInv
<1>8. CASE policy = "lru"
  <2>1. Deleting /\ Deleting'
    BY <1>1, <1>8 DEF Deleting
  <2>2. todo' # <<>> => todo'[Len(todo')] = todo[Len(todo)]
    <3>1. SUFFICES ASSUME todo' # <<>> PROVE todo'[Len(todo')] = todo[Len(todo)]
      OBVIOUS
    <3>2. Len(todo') \in 1 .. Len(todo')
      <4>1. todo' \in Seq(Files)
        BY SweepKeeps, <1>1 DEF NotServe, ListTypes
      <4>2. QED
        BY <3>1, <4>1
    <3>3. QED
      BY <1>2, <1>3, <1>4, <3>2
  <2>3. ~ reaped => Needed(todo[Len(todo)])
    BY <1>1, <1>7, <2>1 DEF TotalInv
  <2>4. todo' = <<>> => todo[Len(todo)] \in ToSet(ids)
    BY <1>2, <1>3, <1>4
  <2>5. ~ reaped /\ todo' = <<>> => todo[Len(todo)] \in chunk'
    BY <1>1, <2>3, <2>4 DEF Needed
  <2>6. \A f : Needed(f)' <=> Needed(f)
    BY <1>1 DEF Needed
  <2>7. QED
    BY <1>1, <1>6, <1>7, <2>1, <2>2, <2>3, <2>5, <2>6 DEF TotalInv
<1>9. CASE policy # "lru"
  BY <1>1, <1>9, Nothing DEF EvictionInv, SweepTypes
<1>10. QED
  BY <1>8, <1>9

LEMMA DeleteTotal ==
  ASSUME EvictionInv, DeleteChunkRows \/ UnlinkChunk
  PROVE  TotalInv'
<1>1. /\ UNCHANGED <<policy, todo, total, enough, added, reaped>>
      /\ sweep' \in {"select", "unlink"} /\ sweep \in {"delete", "unlink"}
      /\ sweep = "delete" => Rows' = Rows \ chunk
      /\ sweep = "unlink" => Rows' = Rows
  BY RowsDropped, RowsKept DEF DeleteChunkRows, UnlinkChunk, DeleteRows, historyVars
<1>2. CASE policy = "lru"
  <2>1. Rest' = Rest /\ Deleting /\ Deleting'
    BY <1>1, <1>2 DEF Rest, Deleting
  <2>2. ASSUME todo # <<>>, Needed(todo[Len(todo)]) PROVE Needed(todo[Len(todo)])'
    <3>1. todo[Len(todo)] \in ToSet(todo)
      <4>1. todo \in Seq(Files) /\ Len(todo) \in 1 .. Len(todo)
        BY <2>2 DEF EvictionInv, ListTypes
      <4>2. QED
        BY <4>1, ToSetFacts
    <3>2. todo[Len(todo)] \in Rows'
      BY <1>1, <2>2, <3>1 DEF Needed, EvictionInv, StoreInv, ChunkInv
    <3>3. QED
      BY <1>1, <2>2, <3>2 DEF Needed
  <2>3. QED
    BY <1>1, <2>1, <2>2 DEF TotalInv, EvictionInv, Deleting
<1>3. CASE policy # "lru"
  BY <1>1, <1>3, Nothing DEF EvictionInv, SweepTypes
<1>4. QED
  BY <1>2, <1>3

LEMMA MeasureTotal ==
  ASSUME EvictionInv, Measure
  PROVE  TotalInv'
<1>1. /\ todo = <<>> /\ todo' = <<>> /\ total' = Bytes(Rows) /\ UNCHANGED <<rows, chunk>>
      /\ sweep' = IF total' > MaxBytes THEN "scan" ELSE "prune"
      /\ added' = {} /\ reaped' = FALSE
  BY DEF Measure, storeVars
<1>2. Rest' = Rows /\ Rows' = Rows
  <2>1. ToSet(todo') = {} /\ sweep' # "delete"
    BY <1>1, ToSetEmpty
  <2>2. QED
    BY <1>1, <2>1 DEF Rest, Rows
<1>3. Bytes(added') = 0 /\ Bytes(Rows) \in Nat /\ MaxBytes \in Nat
  BY <1>1, BytesNone, BytesFacts
<1>4. sweep' \in {"scan", "prune"} /\ ~ Deleting'
  BY <1>1 DEF Deleting
<1>5. QED
  BY <1>1, <1>2, <1>3, <1>4 DEF TotalInv

LEMMA ScanTotal ==
  ASSUME EvictionInv, Scan
  PROVE  TotalInv'
<1>1. /\ sweep = "scan" /\ todo = <<>> /\ UNCHANGED <<rows, chunk, added, reaped>> /\ Rows' = Rows
      /\ Bytes(Rest) <= total + Bytes(added)
      /\ ~ reaped => total <= Bytes(Rest)
  BY DEF Scan, storeVars, historyVars, EvictionInv, TotalInv, Rows
<1>2. Rest = Rows
  BY <1>1, ToSetEmpty DEF Rest
<1>3. CASE rows = <<>>
  <2>1. sweep' = "prune"
    BY <1>3, ScanFacts
  <2>2. Rows' = {}
    BY <1>1, <1>3, ToSetEmpty DEF Rows
  <2>3. Bytes(Rows') <= MaxBytes + Bytes(added')
    BY <1>1, <2>2, BytesNone, BytesFacts
  <2>4. QED
    BY <2>1, <2>3 DEF TotalInv, Deleting
<1>4. CASE rows # <<>>
  <2>1. /\ policy' = "lru" /\ sweep' = "select"
        /\ todo' \in Seq(Files) /\ todo' # <<>> /\ ToSet(todo') \subseteq Rows
        /\ total' = total - Bytes(ToSet(todo'))
        /\ enough' => total' <= MaxBytes
        /\ total' + Size[todo'[Len(todo')]] > MaxBytes
    BY <1>4, ScanFacts
  <2>2. Rest' = Rows \ ToSet(todo')
    BY <1>1, <2>1 DEF Rest
  <2>3. /\ Bytes(Rows) = Bytes(Rest') + Bytes(ToSet(todo'))
        /\ Bytes(Rest') \in Nat /\ Bytes(ToSet(todo')) \in Nat
    <3>1. /\ Rest' \in SUBSET Files /\ ToSet(todo') \in SUBSET Files
          /\ Rest' \cap ToSet(todo') = {} /\ Rest' \cup ToSet(todo') = Rows
      BY <2>1, <2>2, BytesFacts
    <3>2. QED
      BY <3>1, BytesOfUnion, BytesOfFacts
  <2>4. todo'[Len(todo')] \in Rows' /\ total' + Size[todo'[Len(todo')]] > MaxBytes
    <3>1. todo'[Len(todo')] \in ToSet(todo')
      <4>1. Len(todo') \in 1 .. Len(todo')
        BY <2>1
      <4>2. QED
        BY <2>1, <4>1, ToSetFacts
    <3>2. QED
      BY <1>1, <2>1, <3>1
  <2>5. /\ Bytes(Rest') <= total' + Bytes(added')
        /\ ~ reaped' => total' <= Bytes(Rest')
    BY <1>1, <1>2, <2>1, <2>3, BytesFacts
  <2>6. QED
    BY <2>1, <2>4, <2>5 DEF TotalInv, Deleting, Needed
<1>5. QED
  BY <1>3, <1>4

LEMMA DeletedTotal ==
  ASSUME EvictionInv, Deleted
  PROVE  TotalInv'
<1>1. /\ UNCHANGED <<rows, todo, total, enough, added, reaped>> /\ Rows' = Rows
      /\ sweep = "select" /\ todo = <<>> /\ policy = "lru"
      /\ sweep' = IF ~enough /\ total > MaxBytes THEN "scan" ELSE "prune"
  BY DEF Deleted, storeVars, historyVars, Rows
<1>2. Rest = Rows /\ Rest' = Rows /\ Deleting /\ ~ Deleting'
  BY <1>1, ToSetEmpty DEF Rest, Deleting
<1>3. TotalInv
  BY DEF EvictionInv
<1>4. sweep' = "prune" => total <= MaxBytes
  BY <1>1, <1>2, <1>3, BytesFacts DEF TotalInv
<1>5. QED
  BY <1>1, <1>2, <1>3, <1>4, BytesFacts DEF TotalInv
-----------------------------------------------------------------------------
LEMMA InitEviction == Init => EvictionInv
<1> SUFFICES ASSUME Init PROVE EvictionInv
  OBVIOUS
<1>1. rows = <<>> /\ todo = <<>> /\ Rows = {}
  BY ToSetEmpty DEF Init, StoreInit, Rows
<1>2. DiskTypes /\ ReaderTypes /\ SweepTypes
  <2>1. DiskTypes /\ ReaderTypes
    BY DEF Init, StoreInit, DiskTypes, ReaderTypes, Places
  <2>2. SweepTypes
    <3>1. /\ expired = {} /\ chunk = {} /\ added = {} /\ sweep = "wait" /\ policy = "ttl"
          /\ total = 0 /\ enough = FALSE /\ stopping = FALSE /\ reaped = FALSE
      BY DEF Init
    <3>2. total \in Int
      BY <3>1
    <3>3. QED
      BY <3>1, <3>2, Zenon DEF SweepTypes
  <2>3. QED
    BY <2>1, <2>2
<1>3. ListTypes
  BY <1>1 DEF ListTypes, Injective
<1>4. StoreInv
  BY <1>1, <1>2 DEF Init, StoreInit, StoreInv, PutInv, FileInv, ReaderInv, ChunkInv, NoOrphanBytes, RowsHaveBytes,
                    Settled, ReaderTypes
<1>5. TotalInv
  BY DEF Init, TotalInv, Deleting
<1>6. QED
  BY <1>2, <1>3, <1>4, <1>5 DEF EvictionInv

LEMMA EvictionStep == EvictionInv /\ [Next]_vars => EvictionInv'
<1> SUFFICES ASSUME EvictionInv, [Next]_vars PROVE EvictionInv'
  OBVIOUS
<1>1. CASE Serve
  BY <1>1, ServeKeeps, ServeTotal DEF EvictionInv
<1>2. CASE NotServe
  <2>1. DiskTypes' /\ ReaderTypes' /\ ListTypes' /\ SweepTypes' /\ StoreInv'
    BY <1>2, SweepKeeps
  <2>2. CASE SelectChunk
    BY <2>1, <2>2, SelectChunkTotal DEF EvictionInv
  <2>3. CASE DeleteChunkRows \/ UnlinkChunk
    BY <2>1, <2>3, DeleteTotal DEF EvictionInv
  <2>4. CASE Measure
    BY <2>1, <2>4, MeasureTotal DEF EvictionInv
  <2>5. CASE Scan
    BY <2>1, <2>5, ScanTotal DEF EvictionInv
  <2>6. CASE Deleted
    BY <2>1, <2>6, DeletedTotal DEF EvictionInv
  <2>7. CASE Begin \/ Prune \/ PassFails \/ Stopped \/ StopTimeout \/ Restart
    <3>1. sweep' \in {"wait", "stopped"} \/ (policy' = "ttl" /\ sweep' = "select")
      <4>1. Begin => policy' = "ttl" /\ sweep' = "select"
        BY DEF Begin
      <4>2. Prune \/ PassFails \/ Restart => sweep' = "wait"
        BY DEF Prune, PassFails, Restart
      <4>3. Stopped \/ StopTimeout => sweep' = "stopped"
        BY DEF Stopped, StopTimeout
      <4>4. QED
        BY <2>7, <4>1, <4>2, <4>3
    <3>2. QED
      BY <2>1, <3>1, Nothing DEF EvictionInv
  <2>8. CASE Stop \/ \E f \in Files : Expire(f)
    <3>1. UNCHANGED <<rows, sweep, policy, todo, chunk, total, enough, added, reaped>>
      BY <2>8 DEF Stop, Expire, storeVars, sweepVars, historyVars
    <3>2. QED
      BY <2>1, <3>1, TotalSame DEF EvictionInv
  <2>9. QED
    BY <1>2, <2>2, <2>3, <2>4, <2>5, <2>6, <2>7, <2>8 DEF NotServe, SweepStep
<1>3. CASE UNCHANGED vars
  <2>1. UNCHANGED <<put, disk, rows, reader, wiped, leaked, refused, expired, sweep, policy, todo, chunk,
                    total, enough, stopping, added, reaped>>
    BY <1>3 DEF vars, storeVars, sweepVars, historyVars
  <2>2. Rows' = Rows
    BY <2>1 DEF Rows
  <2>3. TotalInv'
    BY <2>1, TotalSame DEF EvictionInv
  <2>4. QED
    BY <2>1, <2>2, <2>3 DEF EvictionInv, DiskTypes, ReaderTypes, ListTypes, SweepTypes, StoreInv, PutInv, FileInv,
                            ReaderInv, ChunkInv, NoOrphanBytes, RowsHaveBytes, Settled
<1>4. QED
  BY <1>1, <1>2, <1>3 DEF Next, NotServe

(* Every reachable state satisfies the invariant: what is stored, what is  *)
(* being read and what the pass believes fit together, whatever is stored, *)
(* read, dropped, cancelled or lost in a crash between its steps.          *)
THEOREM EvictionCorrect == Spec => []EvictionInv
<1>1. Init => EvictionInv
  BY InitEviction
<1>2. EvictionInv /\ [Next]_vars => EvictionInv'
  BY EvictionStep
<1>3. QED
  BY <1>1, <1>2, PTL DEF Spec

(* Every variable has its type, and no file has two rows.                  *)
THEOREM TypeCorrect == Spec => []TypeOK
<1>1. EvictionInv => TypeOK
  BY DEF EvictionInv, DiskTypes, ReaderTypes, ListTypes, SweepTypes, TypeOK, StoreTypeOK, Places, Injective
<1>2. QED
  BY <1>1, EvictionCorrect, PTL

(* No bytes stay on disk without a row or somebody to remove them, but for *)
(* a crash, a sweep cancelled at shutdown and a removal that was tried and *)
(* that the system refused.                                                *)
THEOREM NothingOrphaned == Spec => []NoOrphanBytes
<1>1. EvictionInv => NoOrphanBytes
  BY DEF EvictionInv, StoreInv
<1>2. QED
  BY <1>1, EvictionCorrect, PTL

(* A row has its bytes: rows are inserted last and deleted first.          *)
THEOREM RowsComplete == Spec => []RowsHaveBytes
<1>1. EvictionInv => RowsHaveBytes
  BY DEF EvictionInv, StoreInv
<1>2. QED
  BY <1>1, EvictionCorrect, PTL

(* A chunk of victims is deleted only while the files stored exceed the    *)
(* cap: the last victim does not fit with what stays.                      *)
THEOREM EvictsOnlyTheExcess == Spec => []EvictsOnlyWhenOver
<1>1. EvictionInv => EvictsOnlyWhenOver
  <2> SUFFICES ASSUME EvictionInv, sweep = "delete", policy = "lru", ~reaped
               PROVE  Bytes(Rows) > MaxBytes
    BY DEF EvictsOnlyWhenOver
  <2>1. Deleting /\ TotalInv
    BY DEF Deleting, EvictionInv
  <2>2. PICK f \in Rows : Needed(f) /\ f \in ToSet(todo) \cup chunk
    <3>1. CASE todo = <<>>
      BY <2>1, <3>1 DEF TotalInv, Needed
    <3>2. CASE todo # <<>>
      <4>1. todo \in Seq(Files) /\ Len(todo) \in 1 .. Len(todo)
        BY <3>2 DEF EvictionInv, ListTypes
      <4>2. todo[Len(todo)] \in ToSet(todo)
        BY <4>1, ToSetFacts
      <4>3. QED
        BY <2>1, <3>2, <4>2 DEF TotalInv, Needed
    <3>3. QED
      BY <3>1, <3>2
  <2>3. f \notin Rest /\ f \in Files /\ Rest \cup {f} \subseteq Rows
    BY <2>2, BytesFacts DEF Rest
  <2>4. /\ Bytes(Rest \cup {f}) = Bytes(Rest) + Bytes({f})
        /\ Bytes(Rest \cup {f}) <= Bytes(Rows)
        /\ Bytes({f}) = Size[f] /\ Size[f] \in Nat
        /\ Bytes(Rest \cup {f}) \in Nat
    <3>1. /\ Rest \in SUBSET Files /\ {f} \in SUBSET Files /\ Rest \cap {f} = {}
          /\ Rest \cup {f} \in SUBSET Rows /\ Rows \in SUBSET Files /\ Rest \cup {f} \in SUBSET Files
      BY <2>3, BytesFacts
    <3>2. Bytes(Rest \cup {f}) = Bytes(Rest) + Bytes({f})
      BY <3>1, BytesOfUnion
    <3>3. Bytes(Rest \cup {f}) <= Bytes(Rows) /\ Bytes(Rest \cup {f}) \in Nat
      BY <3>1, BytesMonotonic, BytesOfFacts
    <3>4. Bytes({f}) = Size[f] /\ Size[f] \in Nat
      BY <2>3, BytesOne
    <3>5. QED
      BY <3>2, <3>3, <3>4
  <2>5. total <= Bytes(Rest) /\ total + Size[f] > MaxBytes
    BY <2>1, <2>2 DEF TotalInv, Needed
  <2>6. QED
    BY <2>4, <2>5, BytesFacts
<1>2. QED
  BY <1>1, EvictionCorrect, PTL

(* A pass that ran to its end leaves no more than the cap and what was     *)
(* stored while it ran.                                                    *)
THEOREM CapReached == Spec => []PassReachesCap
<1>1. EvictionInv => PassReachesCap
  BY DEF EvictionInv, TotalInv, PassReachesCap
<1>2. QED
  BY <1>1, EvictionCorrect, PTL
=============================================================================
