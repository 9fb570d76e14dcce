---------------------- MODULE ManifestEvolutionProofs ----------------------
(***************************************************************************)
(* One namespace under any sequence of manifests: what the rows, the exit  *)
(* codes, status and the approved plans say is true to what was applied,   *)
(* for any ids, contents and bounds.                                       *)
(*                                                                         *)
(* Shape counts rows, the steps move single rows.  Prefix says the same of *)
(* a set of rows without counting; ShapeIsPrefix and PrefixIsShape go from *)
(* one to the other, before and after a step.                              *)
(***************************************************************************)
EXTENDS ManifestEvolution, FiniteSetTheorems, SequenceTheorems, TLAPS

SuccessesOf(H) == {r \in H : r.status = "SUCCESS"}
ActivesOf(H) == {r \in H : r.status = "ACTIVE"}

\* Shape, of any set of rows and any set of ids with progress.
ShapeOf(H, P) ==
    /\ {r.seq : r \in H} = 1 .. Cardinality(H)
    /\ Cardinality({r.id : r \in H}) = Cardinality(H)
    /\ \A r \in H : RowOK(r)
    /\ Cardinality(ActivesOf(H)) <= 1
    /\ \A r \in ActivesOf(H) : r.seq = Cardinality(SuccessesOf(H)) + 1
    /\ P \subseteq {r.id : r \in ActivesOf(H)}

\* The same without counting: k successes at the positions 1 to k, at most one
\* active row, at the next position, and no position or id twice.
Prefix(H, P, k) ==
    /\ \A r, q \in H : r.seq = q.seq \/ r.id = q.id => r = q
    /\ \A i \in 1 .. k : \E r \in H : r.seq = i /\ r.status = "SUCCESS"
    /\ \A r \in H : RowOK(r)
    /\ \A r \in H : r.status = "SUCCESS" => r.seq \in 1 .. k
    /\ \A r \in H : r.status = "ACTIVE" => r.seq = k + 1
    /\ P \subseteq {r.id : r \in ActivesOf(H)}

\* The image of a finite set has its size exactly if nothing collapses.
LEMMA ImageCardinality ==
  ASSUME NEW S, IsFiniteSet(S), NEW T, NEW f \in [S -> T], T = {f[x] : x \in S}
  PROVE  /\ IsFiniteSet(T)
         /\ Cardinality(T) = Cardinality(S) <=> \A x, y \in S : f[x] = f[y] => x = y
  <1>1. f \in Surjection(S, T)
    BY DEF Surjection
  <1>2. f \in Injection(S, T) <=> \A x, y \in S : f[x] = f[y] => x = y
    BY DEF Injection, IsInjective
  <1>3. QED
    BY <1>1, <1>2, FS_Surjection

\* For the positions and the ids of rows.
LEMMA RowImages ==
  ASSUME NEW H, IsFiniteSet(H)
  PROVE  /\ IsFiniteSet({r.seq : r \in H}) /\ IsFiniteSet({r.id : r \in H})
         /\ Cardinality({r.seq : r \in H}) = Cardinality(H)
              <=> \A r, q \in H : r.seq = q.seq => r = q
         /\ Cardinality({r.id : r \in H}) = Cardinality(H)
              <=> \A r, q \in H : r.id = q.id => r = q
  <1>1. /\ IsFiniteSet({r.seq : r \in H})
        /\ Cardinality({r.seq : r \in H}) = Cardinality(H)
             <=> \A r, q \in H : r.seq = q.seq => r = q
    <2> DEFINE f == [r \in H |-> r.seq]
               T == {r.seq : r \in H}
    <2>1. f \in [H -> T] /\ T = {f[x] : x \in H} /\ \A x \in H : f[x] = x.seq
      OBVIOUS
    <2> HIDE DEF f, T
    <2>2. IsFiniteSet(T) /\ (Cardinality(T) = Cardinality(H)
              <=> \A x, y \in H : f[x] = f[y] => x = y)
      BY <2>1, ImageCardinality
    <2>3. QED
      BY <2>1, <2>2 DEF T
  <1>2. /\ IsFiniteSet({r.id : r \in H})
        /\ Cardinality({r.id : r \in H}) = Cardinality(H)
             <=> \A r, q \in H : r.id = q.id => r = q
    <2> DEFINE f == [r \in H |-> r.id]
               T == {r.id : r \in H}
    <2>1. f \in [H -> T] /\ T = {f[x] : x \in H} /\ \A x \in H : f[x] = x.id
      OBVIOUS
    <2> HIDE DEF f, T
    <2>2. IsFiniteSet(T) /\ (Cardinality(T) = Cardinality(H)
              <=> \A x, y \in H : f[x] = f[y] => x = y)
      BY <2>1, ImageCardinality
    <2>3. QED
      BY <2>1, <2>2 DEF T
  <1>3. QED
    BY <1>1, <1>2

\* Every row is a success or active, and the two sets count apart.
LEMMA Counting ==
  ASSUME NEW H, H \subseteq Rows, IsFiniteSet(H)
  PROVE  /\ IsFiniteSet(SuccessesOf(H)) /\ IsFiniteSet(ActivesOf(H))
         /\ Cardinality(SuccessesOf(H)) \in Nat /\ Cardinality(ActivesOf(H)) \in Nat
         /\ Cardinality(H) \in Nat
         /\ Cardinality(H) = Cardinality(SuccessesOf(H)) + Cardinality(ActivesOf(H))
         /\ Cardinality(ActivesOf(H)) <= 1 <=> \A r, q \in ActivesOf(H) : r = q
  <1> DEFINE S == SuccessesOf(H)
             A == ActivesOf(H)
  <1>1. S \in SUBSET H /\ A \in SUBSET H /\ H = S \cup A /\ S \cap A = {}
    BY DEF SuccessesOf, ActivesOf, Rows
  <1> HIDE DEF S, A
  <1>2. IsFiniteSet(S) /\ IsFiniteSet(A)
    BY <1>1, FS_Subset
  <1>3. Cardinality(S) \in Nat /\ Cardinality(A) \in Nat /\ Cardinality(H) \in Nat
    BY <1>2, FS_CardinalityType
  <1>4. Cardinality(H) = Cardinality(S) + Cardinality(A)
    BY <1>1, <1>2, <1>3, FS_Union, FS_EmptySet
  <1>5. Cardinality(A) <= 1 <=> \A r, q \in A : r = q
    <2>1. Cardinality(A) = 0 <=> A = {}
      BY <1>2, FS_EmptySet
    <2>2. Cardinality(A) = 1 <=> \E x : A = {x}
      BY <1>2, FS_Singleton
    <2>3. (\A r, q \in A : r = q) <=> A = {} \/ \E x : A = {x}
      OBVIOUS
    <2>4. \A c \in Nat : c <= 1 <=> c = 0 \/ c = 1
      OBVIOUS
    <2>5. Cardinality(A) <= 1 <=> Cardinality(A) = 0 \/ Cardinality(A) = 1
      BY <1>3, <2>4
    <2>6. QED
      BY <2>1, <2>2, <2>3, <2>5, Zenon
  <1>6. QED
    BY <1>2, <1>3, <1>4, <1>5 DEF S, A

\* A well-shaped history is a prefix of successes and perhaps one active row.
LEMMA ShapeIsPrefix ==
  ASSUME NEW H, NEW P, H \subseteq Rows, IsFiniteSet(H), ShapeOf(H, P)
  PROVE  Prefix(H, P, Cardinality(SuccessesOf(H)))
  <1> DEFINE n == Cardinality(H)
             k == Cardinality(SuccessesOf(H))
             a == Cardinality(ActivesOf(H))
  <1>1. /\ n \in Nat /\ k \in Nat /\ a \in Nat /\ n = k + a /\ a <= 1
        /\ \A r, q \in ActivesOf(H) : r = q
        /\ IsFiniteSet(ActivesOf(H))
    BY Counting DEF ShapeOf
  <1>2. {r.seq : r \in H} = 1 .. n /\ \A r \in ActivesOf(H) : r.seq = k + 1
    BY DEF ShapeOf
  <1>3. a = 0 <=> ActivesOf(H) = {}
    BY <1>1, FS_EmptySet
  <1> HIDE DEF n, k, a
  <1>4. Cardinality(1 .. n) = n
    BY <1>1, FS_Interval
  <1>5. \A r, q \in H : r.seq = q.seq => r = q
    BY <1>2, <1>4, RowImages DEF n
  <1>6. \A r, q \in H : r.id = q.id => r = q
    BY RowImages DEF ShapeOf
  <1>7. ASSUME NEW r \in H, r.status = "SUCCESS" PROVE r.seq \in 1 .. k
    <2>1. r.seq \in 1 .. n /\ r \notin ActivesOf(H)
      BY <1>2, <1>7 DEF ActivesOf
    <2>2. CASE ActivesOf(H) = {}
      BY <1>1, <1>3, <2>1, <2>2
    <2>3. CASE ActivesOf(H) # {}
      <3>1. PICK q \in ActivesOf(H) : q.seq = k + 1
        BY <1>2, <2>3
      <3>2. r.seq # k + 1
        BY <1>5, <2>1, <3>1 DEF ActivesOf
      <3>3. QED
        BY <1>1, <2>1, <3>2
    <2>4. QED
      BY <2>2, <2>3
  <1>8. ASSUME NEW i \in 1 .. k PROVE \E r \in H : r.seq = i /\ r.status = "SUCCESS"
    <2>1. i \in 1 .. n
      BY <1>1
    <2>2. PICK r \in H : r.seq = i
      BY <1>2, <2>1
    <2>3. r \notin ActivesOf(H)
      BY <1>1, <1>2, <2>2
    <2>4. QED
      BY <2>2, <2>3 DEF ActivesOf, Rows
  <1>9. QED
    BY <1>2, <1>5, <1>6, <1>7, <1>8 DEF Prefix, ShapeOf, ActivesOf, k

\* And the other way round; the successes number k.
LEMMA PrefixIsShape ==
  ASSUME NEW H, NEW P, NEW k \in Nat, H \subseteq Rows, IsFiniteSet(H), Prefix(H, P, k)
  PROVE  /\ ShapeOf(H, P) /\ Cardinality(SuccessesOf(H)) = k
         /\ Cardinality(H) = IF ActivesOf(H) = {} THEN k ELSE k + 1
  <1> DEFINE S == SuccessesOf(H)
             a == Cardinality(ActivesOf(H))
  <1>1. /\ IsFiniteSet(S) /\ a \in Nat /\ Cardinality(H) = Cardinality(S) + a
        /\ IsFiniteSet(ActivesOf(H))
        /\ a <= 1 <=> \A r, q \in ActivesOf(H) : r = q
    BY Counting
  <1>2. {r.seq : r \in S} = 1 .. k
    BY DEF Prefix, SuccessesOf
  <1>3. \A r, q \in S : r.seq = q.seq => r = q
    BY DEF Prefix, SuccessesOf
  <1>4. Cardinality(S) = k
    <2>1. Cardinality(1 .. k) = Cardinality(S)
      BY <1>1, <1>2, <1>3, RowImages
    <2>2. Cardinality(1 .. k) = k
      BY FS_Interval
    <2>3. QED
      BY <2>1, <2>2
  <1>5. a <= 1
    BY <1>1 DEF Prefix, ActivesOf
  <1>6. a = 0 <=> ActivesOf(H) = {}
    BY <1>1, FS_EmptySet
  <1>7. Cardinality(H) = IF ActivesOf(H) = {} THEN k ELSE k + 1
    BY <1>1, <1>4, <1>5, <1>6
  <1>8. {r.seq : r \in H} = 1 .. Cardinality(H)
    <2>1. CASE ActivesOf(H) = {}
      BY <1>7, <2>1 DEF Prefix, ActivesOf, Rows
    <2>2. CASE ActivesOf(H) # {}
      <3>1. \E r \in H : r.seq = k + 1
        BY <2>2 DEF Prefix, ActivesOf
      <3>2. \A i \in 1 .. k + 1 : \E r \in H : r.seq = i
        BY <3>1 DEF Prefix
      <3>3. \A r \in H : r.seq \in 1 .. k + 1
        BY DEF Prefix, Rows
      <3>4. QED
        BY <1>7, <2>2, <3>2, <3>3
    <2>3. QED
      BY <2>1, <2>2
  <1>9. Cardinality({r.id : r \in H}) = Cardinality(H)
    BY RowImages DEF Prefix
  <1>10. QED
    BY <1>4, <1>5, <1>7, <1>8, <1>9 DEF ShapeOf, Prefix, ActivesOf

-----------------------------------------------------------------------------
(***************************************************************************)
(* Manifests and single rows                                               *)
(***************************************************************************)

\* What load guarantees of a manifest.
LEMMA ManifestFacts ==
  ASSUME NEW m \in Manifests
  PROVE  /\ Len(m) \in 0 .. MaxLength /\ DOMAIN m = 1 .. Len(m)
         /\ \A i \in DOMAIN m : /\ m[i].id \in Ids /\ m[i].content \in Contents
                                /\ m[i].content.language \in {"sql", "python"}
                                /\ m[i].content.mode \in {"atomic", "restartable"}
         /\ \A i, j \in DOMAIN m : m[i].id = m[j].id => i = j
  <1>1. PICK n \in 0 .. MaxLength :
           /\ m \in [1 .. n -> [id : Ids, content : Contents]]
           /\ \A i, j \in 1 .. n : m[i].id = m[j].id => i = j
    BY DEF Manifests
  <1>2. n \in Nat
    BY BoundsAssumption
  <1>3. Len(m) = n /\ DOMAIN m = 1 .. n
    BY <1>1, <1>2
  <1>4. \A i \in 1 .. n : m[i] \in [id : Ids, content : Contents]
    BY <1>1
  <1>5. QED
    BY <1>1, <1>3, <1>4, ContentsAssumption

LEMMA EmptyManifest == <<>> \in Manifests
  <1>1. <<>> \in [1 .. 0 -> [id : Ids, content : Contents]] /\ 0 \in 0 .. MaxLength
    BY BoundsAssumption
  <1>2. \A i, j \in 1 .. 0 : <<>>[i].id = <<>>[j].id => i = j
    OBVIOUS
  <1>3. QED
    BY <1>1, <1>2 DEF Manifests

\* One more row behind k successes and nothing active: an ACTIVE row or the
\* next success.
LEMMA PrefixGrows ==
  ASSUME NEW H, NEW P, NEW k \in Nat, NEW e \in Rows, H \subseteq Rows,
         Prefix(H, P, k), ActivesOf(H) = {}, e.seq = k + 1, RowOK(e),
         \A r \in H : r.id # e.id
  PROVE  /\ e.status = "ACTIVE" => Prefix(H \cup {e}, P, k)
         /\ e.status = "SUCCESS" => Prefix(H \cup {e}, P, k + 1)
  <1>1. \A r \in H : r.status = "SUCCESS" /\ r.seq \in 1 .. k /\ r.seq # e.seq
    BY DEF Prefix, ActivesOf, Rows
  <1>2. P = {}
    BY DEF Prefix
  <1>3. ASSUME e.status = "ACTIVE" PROVE Prefix(H \cup {e}, P, k)
    BY <1>1, <1>2, <1>3 DEF Prefix
  <1>4. ASSUME e.status = "SUCCESS" PROVE Prefix(H \cup {e}, P, k + 1)
    BY <1>1, <1>2, <1>4 DEF Prefix
  <1>5. QED
    BY <1>3, <1>4

\* The active row is rewritten in place: readmitted, or completed.
LEMMA PrefixRewritten ==
  ASSUME NEW H, NEW P, NEW k \in Nat, NEW a \in H, NEW e \in Rows, H \subseteq Rows,
         Prefix(H, P, k), a.status = "ACTIVE", e.seq = a.seq, e.id = a.id, RowOK(e)
  PROVE  /\ ActivesOf(H) = {a}
         /\ e.status = "ACTIVE" => Prefix((H \ {a}) \cup {e}, P, k)
         /\ e.status = "SUCCESS" => Prefix((H \ {a}) \cup {e}, P \ {a.id}, k + 1)
  <1>1. a.seq = k + 1 /\ ActivesOf(H) = {a}
    BY DEF Prefix, ActivesOf
  <1>2. \A r \in H \ {a} : r.status = "SUCCESS" /\ r.seq \in 1 .. k /\ r.id # a.id
    BY <1>1 DEF Prefix, ActivesOf, Rows
  <1>3. P \subseteq {a.id}
    BY <1>1 DEF Prefix
  <1>4. ASSUME e.status = "ACTIVE" PROVE Prefix((H \ {a}) \cup {e}, P, k)
    <2> DEFINE G == (H \ {a}) \cup {e}
    <2>1. P \subseteq {r.id : r \in ActivesOf(G)}
      BY <1>3, <1>4 DEF ActivesOf
    <2>2. \A i \in 1 .. k : \E r \in G : r.seq = i /\ r.status = "SUCCESS"
      BY <1>1 DEF Prefix
    <2>3. \A r, q \in G : r.seq = q.seq \/ r.id = q.id => r = q
      BY <1>1, <1>2 DEF Prefix
    <2>4. /\ \A r \in G : RowOK(r)
          /\ \A r \in G : r.status = "SUCCESS" => r.seq \in 1 .. k
          /\ \A r \in G : r.status = "ACTIVE" => r.seq = k + 1
      BY <1>1, <1>2, <1>4 DEF Prefix
    <2> HIDE DEF G
    <2>5. Prefix(G, P, k)
      BY <2>1, <2>2, <2>3, <2>4 DEF Prefix
    <2>6. QED
      BY <2>5 DEF G
  <1>5. ASSUME e.status = "SUCCESS" PROVE Prefix((H \ {a}) \cup {e}, P \ {a.id}, k + 1)
    <2> DEFINE G == (H \ {a}) \cup {e}
    <2>1. \A i \in 1 .. k + 1 : \E r \in G : r.seq = i /\ r.status = "SUCCESS"
      BY <1>1, <1>5 DEF Prefix
    <2>2. QED
      BY <1>1, <1>2, <1>3, <1>5, <2>1 DEF Prefix
  <1>6. QED
    BY <1>1, <1>4, <1>5

LEMMA OneRowFinite ==
  ASSUME NEW H, NEW e, NEW a, IsFiniteSet(H)
  PROVE  IsFiniteSet(H \cup {e}) /\ IsFiniteSet(H \ {a}) /\ IsFiniteSet((H \ {a}) \cup {e})
  BY FS_AddElement, FS_RemoveElement

-----------------------------------------------------------------------------
(***************************************************************************)
(* The history before and after a step                                     *)
(***************************************************************************)

LEMMA ShapeBefore ==
  ASSUME history \subseteq Rows, IsFiniteSet(history)
  PROVE  /\ Successes = SuccessesOf(history) /\ Actives = ActivesOf(history)
         /\ Cardinality(Successes) \in Nat /\ Cardinality(history) \in Nat
         /\ Shape <=> ShapeOf(history, progress)
         /\ Shape => Prefix(history, progress, Cardinality(Successes))
  <1>1. Successes = SuccessesOf(history) /\ Actives = ActivesOf(history)
    BY DEF Successes, Actives, SuccessesOf, ActivesOf
  <1>2. Shape <=> ShapeOf(history, progress)
    BY <1>1 DEF Shape, ShapeOf
  <1>3. QED
    BY <1>1, <1>2, Counting, ShapeIsPrefix

\* A step that leaves a prefix of k successes leaves a sound history.
LEMMA ShapeAfter ==
  ASSUME NEW k \in Nat, (history \subseteq Rows)', IsFiniteSet(history'),
         Prefix(history', progress', k)
  PROVE  /\ Shape' /\ Cardinality(Successes') = k
         /\ Successes' = SuccessesOf(history') /\ Actives' = ActivesOf(history')
  <1>1. Successes' = SuccessesOf(history') /\ Actives' = ActivesOf(history')
    BY DEF Successes, Actives, SuccessesOf, ActivesOf
  <1>2. ShapeOf(history', progress') /\ Cardinality(SuccessesOf(history')) = k
    BY PrefixIsShape
  <1>3. QED
    BY <1>1, <1>2 DEF Shape, ShapeOf

\* What a step that writes no row keeps.
LEMMA RowsKept ==
  ASSUME UNCHANGED <<history, progress>>
  PROVE  /\ Shape' <=> Shape
         /\ Successes' = Successes /\ Actives' = Actives
  BY DEF Shape, Successes, Actives

\* During a run the successes are the positions before the one it is at.
LEMMA RunPrefix ==
  ASSUME TypeOK, RunInv, phase # "idle"
  PROVE  /\ Prefix(history, progress, at - 1) /\ at - 1 \in Nat
         /\ Successes = SuccessesOf(history) /\ Actives = ActivesOf(history)
         /\ \A r \in Actives : r.seq = at
  <1>1. Shape /\ at = Cardinality(Successes) + 1
    BY DEF RunInv
  <1>2. Cardinality(Successes) \in Nat /\ Prefix(history, progress, Cardinality(Successes))
    BY <1>1, ShapeBefore DEF TypeOK
  <1>3. at - 1 = Cardinality(Successes)
    BY <1>1, <1>2
  <1>4. QED
    BY <1>2, <1>3, <1>1, ShapeBefore DEF TypeOK, Shape

LEMMA EmptyShape ==
  ASSUME history = {}, progress = {}
  PROVE  Shape /\ Cardinality(Successes) = 0 /\ Successes = {} /\ Actives = {}
  <1>1. Prefix(history, progress, 0) /\ history \subseteq Rows /\ IsFiniteSet(history)
    BY FS_EmptySet DEF Prefix
  <1>2. Successes = {} /\ Actives = {}
    BY DEF Successes, Actives
  <1>3. Cardinality(Successes) = 0
    BY <1>2, FS_EmptySet
  <1>4. ShapeOf(history, progress)
    BY <1>1, PrefixIsShape
  <1>5. QED
    BY <1>1, <1>2, <1>3, <1>4, ShapeBefore

-----------------------------------------------------------------------------
(***************************************************************************)
(* Steps between runs                                                      *)
(***************************************************************************)

LEMMA InitIInv == Init => IInv
  <1> SUFFICES ASSUME Init PROVE IInv
    OBVIOUS
  <1>1. TypeOK
    <2>1. initialized \in BOOLEAN /\ strayed \in BOOLEAN
      BY Zenon DEF Init
    <2>2. QED
      BY <2>1, EmptyManifest, BoundsAssumption, FS_EmptySet DEF Init, TypeOK
  <1>2. Shape /\ Successes = {}
    BY EmptyShape DEF Init
  <1>3. NeverMisshapen /\ ExitZeroMeansManifest /\ AppliedOnceAsRecorded
    BY <1>2 DEF Init, NeverMisshapen, ExitZeroMeansManifest, AppliedOnceAsRecorded
  <1>4. ApprovedPlansApply /\ RunInv
    BY DEF Init, ApprovedPlansApply, RunInv
  <1>5. PipelineInv
    BY DEF Init, PipelineInv, Preflight
  <1>6. QED
    BY <1>1, <1>3, <1>4, <1>5 DEF IInv, Init

\* A new approved plan keeps every entry of the old one, and with them the
\* history that follows it.
LEMMA ApproveKeeps ==
  ASSUME IInv, NEW m \in Manifests, Approve(m)
  PROVE  IInv'
  <1> USE DEF Approve, run
  <1>1. TypeOK'
    BY DEF IInv, TypeOK
  <1>2. (Shape' <=> Shape) /\ Successes' = Successes
    BY RowsKept
  <1>3. NeverMisshapen' /\ ExitZeroMeansManifest' /\ AppliedOnceAsRecorded'
    BY <1>2 DEF IInv, NeverMisshapen, ExitZeroMeansManifest, AppliedOnceAsRecorded
  <1>4. ApprovedPlansApply' /\ RunInv'
    BY DEF IInv, ApprovedPlansApply, RunInv
  <1>5. PipelineInv'
    BY DEF IInv, PipelineInv, BaselineHolds, SuccessMatches, Fingerprint, Preflight
  <1>6. QED
    BY <1>1, <1>3, <1>4, <1>5 DEF IInv

\* The exit codes before any write.
LEMMA MigrateExitCodes ==
  ASSUME NEW m, NEW id
  PROVE  MigrateExit(m, id) \in {0, 2, 7}
  BY DEF MigrateExit, PlanExit

\* An admitted plan continues the history it found.
LEMMA AdmittedPlan ==
  ASSUME IInv, phase = "idle", NEW m \in Manifests, NEW id \in Ids \cup {NoId},
         MigrateExit(m, id) = 0
  PROVE  /\ Shape /\ Preflight(m)
         /\ \A r \in history : r.seq \in DOMAIN m
         /\ \A r \in Successes : SuccessMatches(m, r)
         /\ \A r \in Actives :
              /\ r.seq = Cardinality(Successes) + 1 /\ r.id = m[r.seq].id
              /\ m[r.seq].content.mode = "restartable"
              /\ r.fingerprint = Fingerprint(m[r.seq].content) \/ id = r.id
  <1>1. Preflight(m)
    BY DEF MigrateExit
  <1>2. CASE ~initialized
    <2>1. history = {} /\ progress = {}
      BY <1>2 DEF IInv
    <2>2. QED
      BY <1>1, <2>1, EmptyShape
  <1>3. CASE initialized
    <2>1. PlanExit(m) = 0
      BY <1>1, <1>3 DEF MigrateExit
    <2>2. /\ Shape /\ Cardinality(history) <= Len(m)
          /\ \A r \in Successes : SuccessMatches(m, r)
          /\ \A r \in Actives : ActiveMatches(m, r)
      BY <2>1 DEF PlanExit
    <2>3. \A r \in history : r.seq \in DOMAIN m
      <3>1. Cardinality(history) \in Nat
        BY ShapeBefore DEF IInv, TypeOK
      <3>2. \A r \in history : r.seq \in 1 .. Cardinality(history)
        BY <2>2 DEF Shape
      <3>3. Len(m) \in Nat /\ DOMAIN m = 1 .. Len(m)
        BY ManifestFacts, BoundsAssumption
      <3>4. QED
        BY <2>2, <3>1, <3>2, <3>3
    <2>4. ASSUME NEW r \in Actives
          PROVE  r.fingerprint = Fingerprint(m[r.seq].content) \/ id = r.id
      <3>1. CASE id = NoId
        BY <1>1, <1>3, <2>1, <3>1 DEF MigrateExit, ActiveChanged
      <3>2. CASE id # NoId
        <4>1. PICK q \in Actives : q.id = id
          BY <1>1, <1>3, <2>1, <3>2 DEF MigrateExit, RecoveryAdmits
        <4>2. q = r
          BY <2>2, ShapeBefore, Counting DEF Shape, IInv, TypeOK
        <4>3. QED
          BY <4>1, <4>2
      <3>3. QED
        BY <3>1, <3>2
    <2>5. QED
      BY <1>1, <2>2, <2>3, <2>4 DEF ActiveMatches, Shape
  <1>4. QED
    BY <1>2, <1>3 DEF IInv, TypeOK

LEMMA StrayTypes ==
  ASSUME IInv, NEW m \in Manifests, NEW id, Stray(m, id)
  PROVE  strayed' \in BOOLEAN /\ approved' \in Manifests
  <1>1. strayed' \in BOOLEAN
    BY Zenon DEF Stray
  <1>2. approved' \in Manifests
    BY EmptyManifest DEF Stray, IInv, TypeOK
  <1>3. QED
    BY <1>1, <1>2

LEMMA StartRunKeeps ==
  ASSUME IInv, NEW m \in Manifests, NEW id \in Ids \cup {NoId}, StartRun(m, id)
  PROVE  IInv'
  <1>1. /\ phase = "idle" /\ MigrateExit(m, id) = 0 /\ Stray(m, id)
        /\ \A r \in Actives : r.attempt < MaxAttempts
        /\ manifest' = m /\ recover' = id /\ phase' = "executing"
        /\ at' = Cardinality(Successes) + 1 /\ exit' = 0 /\ initialized' = TRUE
        /\ UNCHANGED <<history, progress, applied, edits>>
    BY DEF StartRun
  <1>2. TypeOK'
    <2>1. initialized' \in BOOLEAN
      BY <1>1, Zenon
    <2>2. at' \in Nat \ {0}
      BY <1>1, ShapeBefore DEF IInv, TypeOK
    <2>3. QED
      BY <1>1, <2>1, <2>2, StrayTypes DEF IInv, TypeOK
  <1>3. (Shape' <=> Shape) /\ Successes' = Successes /\ Actives' = Actives
    BY <1>1, RowsKept
  <1>4. NeverMisshapen' /\ ExitZeroMeansManifest' /\ AppliedOnceAsRecorded'
    BY <1>1, <1>3 DEF IInv, NeverMisshapen, ExitZeroMeansManifest, AppliedOnceAsRecorded
  <1>5. ApprovedPlansApply'
    BY <1>1 DEF ApprovedPlansApply
  <1>6. RunInv'
    <2>1. /\ Shape /\ \A r \in history : r.seq \in DOMAIN m
          /\ \A r \in Successes : SuccessMatches(m, r)
          /\ \A r \in Actives :
              /\ r.seq = at' /\ r.id = m[r.seq].id
              /\ m[r.seq].content.mode = "restartable"
              /\ r.fingerprint = Fingerprint(m[r.seq].content) \/ id = r.id
      BY <1>1, AdmittedPlan
    <2>2. Unit' = m[at']
      BY <1>1 DEF Unit
    <2>3. QED
      BY <1>1, <1>3, <2>1, <2>2 DEF RunInv, SuccessMatches, Fingerprint
  <1>7. PipelineInv'
    <2>1. SUFFICES ASSUME ~strayed', edits' = 0 PROVE PipelineInv'
      BY DEF PipelineInv
    <2>2. ~strayed /\ edits = 0 /\ m = approved /\ id = NoId /\ approved' = approved
      BY <1>1, <2>1 DEF Stray
    <2>3. QED
      BY <1>1, <2>2 DEF IInv, PipelineInv, SuccessMatches, Fingerprint, Preflight
  <1>8. QED
    BY <1>1, <1>2, <1>4, <1>5, <1>6, <1>7 DEF IInv

\* The approved plan is admitted: what verify_baseline held the plans to is what
\* build_plan asks for.
LEMMA ApprovedAdmitted ==
  ASSUME IInv, ~strayed, edits = 0
  PROVE  MigrateExit(approved, NoId) = 0
  <1>1. /\ Preflight(approved) /\ Shape
        /\ \A r \in history : r.seq \in DOMAIN approved /\ SuccessMatches(approved, r)
    BY DEF IInv, PipelineInv, NeverMisshapen
  <1>2. Cardinality(history) <= Len(approved)
    <2>1. Cardinality(history) \in Nat
      BY ShapeBefore DEF IInv, TypeOK
    <2>2. {r.seq : r \in history} = 1 .. Cardinality(history)
      BY <1>1 DEF Shape
    <2>3. Len(approved) \in Nat /\ DOMAIN approved = 1 .. Len(approved)
      BY ManifestFacts, BoundsAssumption DEF IInv, TypeOK
    <2>4. Cardinality(history) \in 1 .. Cardinality(history) =>
             Cardinality(history) \in 1 .. Len(approved)
      BY <1>1, <2>2, <2>3
    <2>5. QED
      BY <2>1, <2>3, <2>4
  <1>3. \A r \in Actives : r \in history /\ r.mode = "restartable"
    BY <1>1 DEF Shape, Actives, RowOK
  <1>4. \A r \in Actives : ActiveMatches(approved, r)
    BY <1>1, <1>3 DEF ActiveMatches, SuccessMatches
  <1>5. PlanExit(approved) = 0
    BY <1>1, <1>2, <1>4 DEF PlanExit, Successes
  <1>6. ~ActiveChanged(approved)
    BY <1>1, <1>3 DEF ActiveChanged, SuccessMatches
  <1>7. QED
    BY <1>1, <1>5, <1>6 DEF MigrateExit

LEMMA RefuseRunKeeps ==
  ASSUME IInv, NEW m \in Manifests, NEW id \in Ids \cup {NoId}, RefuseRun(m, id)
  PROVE  IInv'
  <1>1. /\ phase = "idle" /\ MigrateExit(m, id) # 0 /\ Stray(m, id)
        /\ manifest' = <<>> /\ recover' = NoId /\ phase' = "idle" /\ at' = 1
        /\ exit' = MigrateExit(m, id)
        /\ UNCHANGED <<initialized, history, progress, applied, edits>>
    BY DEF RefuseRun, NoRun
  <1>2. exit' \in {2, 7}
    BY <1>1, MigrateExitCodes
  <1>3. TypeOK'
    BY <1>1, <1>2, StrayTypes, EmptyManifest DEF IInv, TypeOK
  <1>4. (Shape' <=> Shape) /\ Successes' = Successes
    BY <1>1, RowsKept
  <1>5. NeverMisshapen' /\ ExitZeroMeansManifest' /\ AppliedOnceAsRecorded' /\ RunInv'
    BY <1>1, <1>2, <1>4
       DEF IInv, NeverMisshapen, ExitZeroMeansManifest, AppliedOnceAsRecorded, RunInv
  <1>6. strayed' \/ edits' # 0
    <2>1. SUFFICES ASSUME ~strayed', edits' = 0 PROVE FALSE
      OBVIOUS
    <2>2. ~strayed /\ edits = 0 /\ m = approved /\ id = NoId
      BY <1>1, <2>1 DEF Stray
    <2>3. QED
      BY <1>1, <2>2, ApprovedAdmitted
  <1>7. ApprovedPlansApply' /\ PipelineInv'
    BY <1>6 DEF ApprovedPlansApply, PipelineInv
  <1>8. QED
    BY <1>1, <1>3, <1>5, <1>7 DEF IInv

\* After an edit by hand only exit 0 and the guards of the next run are left.
LEMMA EditByHandKeeps ==
  ASSUME IInv, EditByHand
  PROVE  IInv'
  <1>1. /\ phase = "idle" /\ initialized /\ edits < MaxEdits /\ edits' = edits + 1
        /\ manifest' = <<>> /\ recover' = NoId /\ phase' = "idle" /\ at' = 1 /\ exit' = 1
        /\ UNCHANGED <<initialized, progress, approved, strayed, applied>>
    BY DEF EditByHand, NoRun
  <1>2. history' \subseteq Rows /\ IsFiniteSet(history')
    <2>1. PICK r \in history :
        \/ history' = history \ {r}
        \/ \E s \in {"ACTIVE", "SUCCESS"}, f \in Contents, l \in {"sql", "python"} :
            history' = (history \ {r}) \cup
                {[r EXCEPT !.status = s, !.fingerprint = f, !.language = l]}
      BY DEF EditByHand
    <2>2. r \in Rows /\ history \subseteq Rows /\ IsFiniteSet(history)
      BY DEF IInv, TypeOK
    <2>3. CASE history' = history \ {r}
      BY <2>2, <2>3, OneRowFinite
    <2>4. ASSUME NEW s \in {"ACTIVE", "SUCCESS"}, NEW f \in Contents,
                 NEW l \in {"sql", "python"},
                 history' = (history \ {r}) \cup
                     {[r EXCEPT !.status = s, !.fingerprint = f, !.language = l]}
          PROVE  history' \subseteq Rows /\ IsFiniteSet(history')
      <3>1. [r EXCEPT !.status = s, !.fingerprint = f, !.language = l] \in Rows
        BY <2>2 DEF Rows
      <3>2. QED
        BY <2>2, <2>4, <3>1, OneRowFinite
    <2>5. QED
      BY <2>1, <2>3, <2>4
  <1>3. edits' \in 0 .. MaxEdits /\ edits' # 0
    BY <1>1, BoundsAssumption DEF IInv, TypeOK
  <1>4. TypeOK'
    BY <1>1, <1>2, <1>3, EmptyManifest DEF IInv, TypeOK
  <1>5. QED
    BY <1>1, <1>3, <1>4
       DEF IInv, NeverMisshapen, ExitZeroMeansManifest, AppliedOnceAsRecorded,
           ApprovedPlansApply, RunInv, PipelineInv

LEMMA FailKeeps ==
  ASSUME IInv, Fail
  PROVE  IInv'
  <1>1. /\ phase # "idle"
        /\ manifest' = <<>> /\ recover' = NoId /\ phase' = "idle" /\ at' = 1 /\ exit' = 3
        /\ UNCHANGED <<initialized, history, progress, approved, strayed, applied, edits>>
    BY DEF Fail, NoRun
  <1>2. TypeOK'
    BY <1>1, EmptyManifest DEF IInv, TypeOK
  <1>3. (Shape' <=> Shape) /\ Successes' = Successes
    BY <1>1, RowsKept
  <1>4. NeverMisshapen' /\ ExitZeroMeansManifest' /\ AppliedOnceAsRecorded' /\ RunInv'
    BY <1>1, <1>3
       DEF IInv, NeverMisshapen, ExitZeroMeansManifest, AppliedOnceAsRecorded, RunInv
  <1>5. ApprovedPlansApply' /\ PipelineInv'
    BY <1>1 DEF IInv, ApprovedPlansApply, PipelineInv, SuccessMatches, Fingerprint, Preflight
  <1>6. QED
    BY <1>1, <1>2, <1>4, <1>5 DEF IInv

\* A run past the end of its manifest has no active row left, and a success at
\* every position.
LEMMA FinishKeeps ==
  ASSUME IInv, Finish
  PROVE  IInv'
  <1>1. /\ phase = "executing" /\ at > Len(manifest)
        /\ phase' = "idle" /\ exit' = 0 /\ recover' = NoId /\ at' = 1
        /\ UNCHANGED <<initialized, history, progress, manifest, approved, strayed, applied,
                       edits>>
    BY DEF Finish
  <1>2. TypeOK'
    BY <1>1 DEF IInv, TypeOK
  <1>3. (Shape' <=> Shape) /\ Successes' = Successes
    BY <1>1, RowsKept
  <1>4. NeverMisshapen' /\ AppliedOnceAsRecorded' /\ RunInv' /\ ApprovedPlansApply'
    BY <1>1, <1>3 DEF IInv, NeverMisshapen, AppliedOnceAsRecorded, RunInv, ApprovedPlansApply
  <1>5. PipelineInv'
    BY <1>1 DEF IInv, PipelineInv, SuccessMatches, Fingerprint, Preflight
  <1>6. ExitZeroMeansManifest'
    <2> DEFINE n == Len(manifest)
    <2>1. n \in Nat /\ DOMAIN manifest = 1 .. n
      BY ManifestFacts, BoundsAssumption DEF IInv, TypeOK
    <2>2. /\ Prefix(history, progress, at - 1) /\ at - 1 \in Nat
          /\ Successes = SuccessesOf(history) /\ Actives = ActivesOf(history)
          /\ \A r \in Actives : r.seq = at
      BY <1>1, RunPrefix DEF IInv
    <2>3. /\ \A r \in history : r.seq \in DOMAIN manifest
          /\ \A r \in Successes : SuccessMatches(manifest, r)
      BY <1>1 DEF IInv, RunInv
    <2>4. at - 1 >= n
      BY <1>1, <2>1, <2>2 DEF IInv, TypeOK
    <2> HIDE DEF n
    <2>5. Actives = {}
      BY <2>1, <2>2, <2>3, <2>4 DEF Actives, IInv, TypeOK
    <2>6. at - 1 = n
      <3>1. at - 1 \in 1 .. at - 1 => \E r \in history : r.seq = at - 1
        BY <2>2 DEF Prefix
      <3>2. QED
        BY <2>1, <2>2, <2>3, <2>4, <3>1
    <2>7. Cardinality(history) = n
      BY <2>2, <2>5, <2>6, PrefixIsShape DEF IInv, TypeOK
    <2>8. \A i \in DOMAIN manifest : \E r \in Successes : r.seq = i
      BY <2>1, <2>2, <2>6 DEF Prefix, Successes
    <2>9. QED
      BY <1>1, <1>3, <2>3, <2>7, <2>8 DEF ExitZeroMeansManifest, SuccessMatches, n
  <1>7. QED
    BY <1>1, <1>2, <1>4, <1>5, <1>6 DEF IInv

-----------------------------------------------------------------------------
(***************************************************************************)
(* Steps of a run                                                          *)
(***************************************************************************)

\* The unit a run is at, and the ids of the rows before it.
LEMMA UnitFacts ==
  ASSUME IInv, phase # "idle", at <= Len(manifest)
  PROVE  /\ at \in DOMAIN manifest /\ at \in Nat \ {0} /\ at = at - 1 + 1
         /\ Unit.id \in Ids /\ Unit.content \in Contents
         /\ Unit.content.language \in {"sql", "python"}
         /\ Unit.content.mode \in {"atomic", "restartable"}
         /\ Unit = manifest[at]
         /\ \A r \in Successes : r.id # Unit.id
  <1>1. /\ Len(manifest) \in Nat /\ DOMAIN manifest = 1 .. Len(manifest)
        /\ \A i, j \in DOMAIN manifest : manifest[i].id = manifest[j].id => i = j
    BY ManifestFacts, BoundsAssumption DEF IInv, TypeOK
  <1>2. at \in DOMAIN manifest /\ at \in Nat \ {0}
    BY <1>1 DEF IInv, TypeOK
  <1>3. \A r \in Successes : r.seq \in 1 .. at - 1
    BY RunPrefix DEF IInv, Prefix, SuccessesOf
  <1>4. \A r \in Successes : r.seq \in DOMAIN manifest /\ r.id = manifest[r.seq].id
    BY DEF IInv, RunInv, SuccessMatches, Successes
  <1>5. \A r \in Successes : r.id # Unit.id
    BY <1>1, <1>2, <1>3, <1>4 DEF Unit
  <1>6. QED
    BY <1>2, <1>5, ManifestFacts DEF Unit, IInv, TypeOK

\* What the pipeline keeps when the new rows follow the run's manifest.
LEMMA PipelineInRun ==
  ASSUME IInv, phase # "idle",
         UNCHANGED <<manifest, recover, approved, strayed, edits>>,
         \A r \in history' : r \in history \/ (~strayed /\ edits = 0 =>
             r.seq \in DOMAIN manifest /\ SuccessMatches(manifest, r))
  PROVE  PipelineInv'
  BY DEF IInv, PipelineInv, SuccessMatches, Fingerprint, Preflight

\* The success of an atomic unit is one more position.
LEMMA RunAtomicKeeps ==
  ASSUME IInv, RunAtomic
  PROVE  IInv'
  <1> DEFINE e == Row("SUCCESS", 0, "atomic")
  <1>1. /\ phase = "executing" /\ at <= Len(manifest) /\ Unit.content.mode = "atomic"
        /\ history' = history \cup {e} /\ applied' = applied \cup {Ran} /\ at' = at + 1
        /\ UNCHANGED <<initialized, progress, phase, manifest, recover, exit, approved,
                       strayed, edits>>
    BY DEF RunAtomic
  <1>2. /\ at \in DOMAIN manifest /\ at \in Nat \ {0} /\ at = at - 1 + 1
        /\ Unit.id \in Ids /\ Unit.content \in Contents
        /\ Unit.content.language \in {"sql", "python"}
        /\ Unit = manifest[at] /\ \A r \in Successes : r.id # Unit.id
    BY <1>1, UnitFacts
  <1>3. /\ Prefix(history, progress, at - 1) /\ at - 1 \in Nat
        /\ Successes = SuccessesOf(history) /\ Actives = ActivesOf(history)
    BY <1>1, RunPrefix DEF IInv
  <1>4. /\ e.seq = at /\ e.id = Unit.id /\ e.fingerprint = Unit.content
        /\ e.language = Unit.content.language /\ e.mode = "atomic"
        /\ e.status = "SUCCESS" /\ e.attempt = 0
    BY DEF Row, Fingerprint
  <1>5. e \in Rows
    BY <1>2, BoundsAssumption DEF Row, Rows, Fingerprint
  <1> HIDE DEF e
  <1>6. Actives = {} /\ Successes = history
    <2>1. Actives = {}
      BY <1>1 DEF IInv, RunInv
    <2>2. QED
      BY <2>1 DEF Successes, Actives, IInv, TypeOK, Rows
  <1>7. Prefix(history', progress', at)
    <2>1. RowOK(e)
      BY <1>4 DEF RowOK
    <2>2. history \subseteq Rows
      BY DEF IInv, TypeOK
    <2>3. Prefix(history \cup {e}, progress, at - 1 + 1)
      BY <1>2, <1>3, <1>4, <1>5, <1>6, <2>1, <2>2, PrefixGrows
    <2>4. QED
      BY <1>1, <1>2, <2>3
  <1>8. history' \subseteq Rows /\ IsFiniteSet(history')
    BY <1>1, <1>5, OneRowFinite DEF IInv, TypeOK
  <1>9. /\ Shape' /\ Cardinality(Successes') = at
        /\ Successes' = Successes \cup {e} /\ Actives' = {}
    <2>1. /\ Shape' /\ Cardinality(Successes') = at
      BY <1>2, <1>7, <1>8, ShapeAfter
    <2>2. Successes' = Successes \cup {e} /\ Actives' = {}
      BY <1>1, <1>4, <1>6 DEF Successes, Actives
    <2>3. QED
      BY <2>1, <2>2
  <1>10. TypeOK'
    BY <1>1, <1>2, <1>8 DEF IInv, TypeOK
  <1>11. NeverMisshapen' /\ ExitZeroMeansManifest' /\ ApprovedPlansApply'
    BY <1>1, <1>9 DEF IInv, NeverMisshapen, ExitZeroMeansManifest, ApprovedPlansApply
  <1>12. AppliedOnceAsRecorded'
    BY <1>1, <1>4, <1>9 DEF IInv, AppliedOnceAsRecorded, Ran
  <1>13. SuccessMatches(manifest, e)
    BY <1>1, <1>2, <1>4 DEF SuccessMatches, Fingerprint
  <1>14. RunInv'
    BY <1>1, <1>2, <1>4, <1>9, <1>13 DEF IInv, RunInv, SuccessMatches, Fingerprint
  <1>15. PipelineInv'
    BY <1>1, <1>2, <1>4, <1>13, PipelineInRun
  <1>16. QED
    BY <1>1, <1>10, <1>11, <1>12, <1>14, <1>15 DEF IInv

\* An admission leaves one ACTIVE row, the unit's, with the unit's source.
LEMMA AdmitRow ==
  ASSUME IInv, Admit
  PROVE  \E e \in Rows :
           /\ e.seq = at /\ e.id = Unit.id /\ e.status = "ACTIVE" /\ e.mode = "restartable"
           /\ e.fingerprint = Unit.content /\ e.language = Unit.content.language
           /\ Prefix(history', progress, at - 1)
           /\ history' \subseteq Rows /\ IsFiniteSet(history')
           /\ history' = Successes \cup {e}
  <1>1. /\ phase = "executing" /\ at <= Len(manifest) /\ Unit.content.mode = "restartable"
        /\ history' = IF {r \in Actives : r.id = Unit.id} = {}
                      THEN history \cup {Row("ACTIVE", 1, "restartable")}
                      ELSE (history \ {r \in Actives : r.id = Unit.id})
                             \cup {Readmitted(r) : r \in {q \in Actives : q.id = Unit.id}}
    BY DEF Admit
  <1>2. /\ at \in DOMAIN manifest /\ at \in Nat \ {0} /\ at = at - 1 + 1
        /\ Unit.id \in Ids /\ Unit.content \in Contents
        /\ Unit.content.language \in {"sql", "python"}
        /\ Unit = manifest[at] /\ \A r \in Successes : r.id # Unit.id
    BY <1>1, UnitFacts
  <1>3. /\ Prefix(history, progress, at - 1) /\ at - 1 \in Nat
        /\ Successes = SuccessesOf(history) /\ Actives = ActivesOf(history)
        /\ \A r \in Actives : r.seq = at
    BY <1>1, RunPrefix DEF IInv
  <1>4. \A r \in Actives : r.id = Unit.id /\ r.attempt < MaxAttempts
    BY <1>1 DEF IInv, RunInv
  <1>5. history \subseteq Rows /\ IsFiniteSet(history)
    BY DEF IInv, TypeOK
  <1>6. {r \in Actives : r.id = Unit.id} = Actives
    BY <1>4
  <1>7. CASE Actives = {}
    <2> DEFINE e == Row("ACTIVE", 1, "restartable")
    <2>1. history' = history \cup {e}
      BY <1>1, <1>7
    <2>2. /\ e.seq = at /\ e.id = Unit.id /\ e.fingerprint = Unit.content
          /\ e.language = Unit.content.language /\ e.mode = "restartable"
          /\ e.status = "ACTIVE" /\ e.attempt = 1
      BY DEF Row, Fingerprint
    <2>3. e \in Rows
      BY <1>2, BoundsAssumption DEF Row, Rows, Fingerprint
    <2> HIDE DEF e
    <2>4. Successes = history
      BY <1>5, <1>7 DEF Successes, Actives, Rows
    <2>5. RowOK(e)
      BY <2>2 DEF RowOK
    <2>6. Prefix(history', progress, at - 1)
      BY <1>2, <1>3, <1>5, <1>7, <2>1, <2>2, <2>3, <2>4, <2>5, PrefixGrows
    <2>7. QED
      BY <1>5, <2>1, <2>2, <2>3, <2>4, <2>6, OneRowFinite
  <1>8. CASE Actives # {}
    <2>1. PICK a \in Actives : TRUE
      BY <1>8
    <2> DEFINE e == Readmitted(a)
    <2>2. a \in history /\ a \in Rows /\ a.status = "ACTIVE" /\ a.attempt < MaxAttempts
      BY <1>4, <1>5 DEF Actives
    <2>3. a.mode = "restartable" /\ a.attempt >= 1
      BY <1>3, <2>2 DEF Prefix, RowOK
    <2>4. /\ e.seq = a.seq /\ e.id = a.id /\ e.fingerprint = Unit.content
          /\ e.language = Unit.content.language /\ e.mode = a.mode
          /\ e.status = a.status /\ e.attempt = a.attempt + 1
      BY <2>2 DEF Readmitted, Fingerprint, Rows
    <2>5. e \in Rows
      <3>1. a.attempt + 1 \in 0 .. MaxAttempts
        BY <2>2, BoundsAssumption DEF Rows
      <3>2. e = [a EXCEPT !.attempt = a.attempt + 1, !.fingerprint = Unit.content,
                          !.language = Unit.content.language]
        BY DEF Readmitted, Fingerprint
      <3>3. QED
        BY <1>2, <2>2, <3>1, <3>2 DEF Rows
    <2> HIDE DEF e
    <2>6. RowOK(e)
      BY <2>2, <2>3, <2>4 DEF RowOK, Rows
    <2>7. ActivesOf(history) = {a} /\ Prefix((history \ {a}) \cup {e}, progress, at - 1)
      BY <1>3, <1>5, <2>2, <2>4, <2>5, <2>6, PrefixRewritten
    <2>8. history' = (history \ {a}) \cup {e}
      <3>1. Actives = {a}
        BY <1>3, <2>7
      <3>2. {Readmitted(r) : r \in {a}} = {e}
        BY DEF e
      <3>3. QED
        BY <1>1, <1>6, <3>1, <3>2
    <2>9. history \ {a} = Successes
      BY <1>3, <1>5, <2>7 DEF ActivesOf, SuccessesOf, Rows
    <2>10. e.seq = at /\ e.id = Unit.id
      BY <1>3, <1>4, <2>4
    <2>11. QED
      BY <1>5, <2>2, <2>3, <2>4, <2>5, <2>7, <2>8, <2>9, <2>10, OneRowFinite
  <1>9. QED
    BY <1>7, <1>8

LEMMA AdmitKeeps ==
  ASSUME IInv, Admit
  PROVE  IInv'
  <1>1. /\ phase = "executing" /\ at <= Len(manifest) /\ Unit.content.mode = "restartable"
        /\ phase' = "admitted"
        /\ UNCHANGED <<initialized, progress, manifest, recover, at, exit, approved, strayed,
                       applied, edits>>
    BY DEF Admit
  <1>2. /\ at \in DOMAIN manifest /\ at \in Nat \ {0} /\ at = at - 1 + 1
        /\ Unit = manifest[at]
    BY <1>1, UnitFacts
  <1>3. PICK e \in Rows :
           /\ e.seq = at /\ e.id = Unit.id /\ e.status = "ACTIVE" /\ e.mode = "restartable"
           /\ e.fingerprint = Unit.content /\ e.language = Unit.content.language
           /\ Prefix(history', progress, at - 1)
           /\ history' \subseteq Rows /\ IsFiniteSet(history')
           /\ history' = Successes \cup {e}
    BY AdmitRow
  <1>4. /\ Shape' /\ Cardinality(Successes') = at - 1
        /\ Successes' = Successes /\ Actives' = {e}
    <2>1. at - 1 \in Nat
      BY <1>1, RunPrefix DEF IInv
    <2>2. Prefix(history', progress', at - 1)
      BY <1>1, <1>3
    <2>3. Shape' /\ Cardinality(Successes') = at - 1
      BY <1>3, <2>1, <2>2, ShapeAfter
    <2>4. Successes' = Successes /\ Actives' = {e}
      BY <1>3 DEF Successes, Actives
    <2>5. QED
      BY <2>3, <2>4
  <1>5. TypeOK'
    BY <1>1, <1>3 DEF IInv, TypeOK
  <1>6. NeverMisshapen' /\ ExitZeroMeansManifest' /\ ApprovedPlansApply'
    BY <1>1, <1>4 DEF IInv, NeverMisshapen, ExitZeroMeansManifest, ApprovedPlansApply
  <1>7. AppliedOnceAsRecorded'
    BY <1>1, <1>4 DEF IInv, AppliedOnceAsRecorded
  <1>8. Successes \subseteq history /\ Unit' = Unit
    BY <1>1 DEF Successes, Unit
  <1>9. RunInv'
    BY <1>1, <1>2, <1>3, <1>4, <1>8 DEF IInv, RunInv, SuccessMatches, Fingerprint
  <1>10. SuccessMatches(manifest, e)
    BY <1>1, <1>2, <1>3 DEF SuccessMatches, Fingerprint
  <1>11. PipelineInv'
    BY <1>1, <1>2, <1>3, <1>8, <1>10, PipelineInRun
  <1>12. QED
    BY <1>1, <1>5, <1>6, <1>7, <1>9, <1>11 DEF IInv

\* Inside a restartable unit the run is at a position of its manifest.
LEMMA AdmittedUnit ==
  ASSUME IInv, phase = "admitted"
  PROVE  /\ at <= Len(manifest)
         /\ \E a \in history :
              /\ a.status = "ACTIVE" /\ a.seq = at /\ a.id = Unit.id
              /\ a.mode = "restartable" /\ a.attempt >= 1
              /\ a.fingerprint = Unit.content /\ a.language = Unit.content.language
              /\ Unit.content.mode = "restartable"
              /\ Actives = {a} /\ ActivesOf(history) = {a}
  <1>1. PICK a \in Actives : a.fingerprint = Unit.content /\ a.language = Unit.content.language
    BY DEF IInv, RunInv, Fingerprint
  <1>2. /\ Prefix(history, progress, at - 1) /\ Actives = ActivesOf(history)
        /\ a.seq = at /\ at - 1 \in Nat
    BY RunPrefix DEF IInv
  <1>3. a \in history /\ a.status = "ACTIVE" /\ a.seq \in DOMAIN manifest /\ a.id = Unit.id
        /\ Unit.content.mode = "restartable"
    BY DEF IInv, RunInv, Actives
  <1>4. a.mode = "restartable" /\ a.attempt >= 1
    BY <1>2, <1>3 DEF Prefix, RowOK
  <1>5. Actives = {a}
    BY <1>2, <1>3 DEF Prefix, ActivesOf
  <1>6. at <= Len(manifest)
    BY <1>2, <1>3, ManifestFacts, BoundsAssumption DEF IInv, TypeOK
  <1>7. QED
    BY <1>1, <1>2, <1>3, <1>4, <1>5, <1>6

LEMMA CheckpointKeeps ==
  ASSUME IInv, Checkpoint
  PROVE  IInv'
  <1>1. /\ phase = "admitted" /\ progress' = progress \cup {Unit.id}
        /\ UNCHANGED <<initialized, history, phase, manifest, recover, at, exit, approved,
                       strayed, applied, edits>>
    BY DEF Checkpoint, run
  <1>2. PICK a \in history : a.id = Unit.id /\ Actives = {a} /\ at <= Len(manifest)
    BY <1>1, AdmittedUnit
  <1>3. Unit.id \in Ids
    BY <1>1, <1>2, UnitFacts
  <1>4. TypeOK'
    BY <1>1, <1>3 DEF IInv, TypeOK
  <1>5. Successes' = Successes /\ Actives' = Actives /\ Unit' = Unit
    BY <1>1 DEF Successes, Actives, Unit
  <1>6. Shape /\ Shape'
    BY <1>1, <1>2, <1>5 DEF IInv, RunInv, Shape
  <1>7. NeverMisshapen' /\ ExitZeroMeansManifest' /\ ApprovedPlansApply'
        /\ AppliedOnceAsRecorded'
    BY <1>1, <1>5, <1>6
       DEF IInv, NeverMisshapen, ExitZeroMeansManifest, ApprovedPlansApply,
           AppliedOnceAsRecorded
  <1>8. RunInv'
    BY <1>1, <1>5, <1>6 DEF IInv, RunInv, SuccessMatches, Fingerprint
  <1>9. PipelineInv'
    BY <1>1, PipelineInRun
  <1>10. QED
    BY <1>1, <1>4, <1>7, <1>8, <1>9 DEF IInv

\* Completion turns the active row into the success of its position.
LEMMA CompleteKeeps ==
  ASSUME IInv, Complete
  PROVE  IInv'
  <1>1. /\ phase = "admitted" /\ phase' = "executing" /\ at' = at + 1
        /\ history' = {IF r.id = Unit.id /\ r.status = "ACTIVE"
                       THEN [r EXCEPT !.status = "SUCCESS"] ELSE r : r \in history}
        /\ progress' = progress \ {Unit.id} /\ applied' = applied \cup {Ran}
        /\ UNCHANGED <<initialized, manifest, recover, exit, approved, strayed, edits>>
    BY DEF Complete
  <1>2. PICK a \in history :
              /\ a.status = "ACTIVE" /\ a.seq = at /\ a.id = Unit.id
              /\ a.mode = "restartable" /\ a.attempt >= 1
              /\ a.fingerprint = Unit.content /\ a.language = Unit.content.language
              /\ Unit.content.mode = "restartable"
              /\ Actives = {a} /\ ActivesOf(history) = {a}
    BY <1>1, AdmittedUnit
  <1>3. /\ at \in DOMAIN manifest /\ at \in Nat \ {0} /\ at = at - 1 + 1
        /\ Unit = manifest[at]
    BY <1>1, AdmittedUnit, UnitFacts
  <1>4. /\ Prefix(history, progress, at - 1) /\ at - 1 \in Nat
    BY <1>1, RunPrefix DEF IInv
  <1>5. history \subseteq Rows /\ IsFiniteSet(history) /\ a \in Rows
    BY DEF IInv, TypeOK
  <1> DEFINE e == [a EXCEPT !.status = "SUCCESS"]
  <1>6. /\ e \in Rows /\ e.seq = at /\ e.id = Unit.id /\ e.status = "SUCCESS"
        /\ e.mode = "restartable" /\ e.attempt = a.attempt
        /\ e.fingerprint = Unit.content /\ e.language = Unit.content.language
    BY <1>2, <1>5 DEF Rows
  <1>7. history' = (history \ {a}) \cup {e}
    <2>1. \A r \in history : r.id = Unit.id /\ r.status = "ACTIVE" <=> r = a
      BY <1>2 DEF Actives
    <2>2. QED
      BY <1>1, <2>1
  <1> HIDE DEF e
  <1>8. RowOK(e)
    BY <1>2, <1>5, <1>6 DEF RowOK, Rows
  <1>9. Prefix(history', progress', at)
    <2>1. Prefix((history \ {a}) \cup {e}, progress \ {a.id}, at - 1 + 1)
      BY <1>2, <1>4, <1>5, <1>6, <1>8, PrefixRewritten
    <2>2. QED
      BY <1>1, <1>2, <1>3, <1>7, <2>1
  <1>10. history' \subseteq Rows /\ IsFiniteSet(history')
    BY <1>5, <1>6, <1>7, OneRowFinite
  <1>11. /\ Shape' /\ Cardinality(Successes') = at
         /\ Successes' = Successes \cup {e} /\ Actives' = {}
    <2>1. Shape' /\ Cardinality(Successes') = at
      BY <1>3, <1>9, <1>10, ShapeAfter
    <2>2. Successes' = Successes \cup {e} /\ Actives' = {}
      BY <1>2, <1>6, <1>7 DEF Successes, Actives
    <2>3. QED
      BY <2>1, <2>2
  <1>12. TypeOK'
    BY <1>1, <1>3, <1>10 DEF IInv, TypeOK
  <1>13. NeverMisshapen' /\ ExitZeroMeansManifest' /\ ApprovedPlansApply'
    BY <1>1, <1>11 DEF IInv, NeverMisshapen, ExitZeroMeansManifest, ApprovedPlansApply
  <1>14. AppliedOnceAsRecorded'
    BY <1>1, <1>6, <1>11 DEF IInv, AppliedOnceAsRecorded, Ran
  <1>15. SuccessMatches(manifest, e)
    BY <1>2, <1>3, <1>6 DEF SuccessMatches, Fingerprint
  <1>16. RunInv'
    BY <1>1, <1>3, <1>6, <1>7, <1>11, <1>15
       DEF IInv, RunInv, SuccessMatches, Fingerprint
  <1>17. PipelineInv'
    BY <1>1, <1>3, <1>6, <1>7, <1>15, PipelineInRun
  <1>18. QED
    BY <1>1, <1>12, <1>13, <1>14, <1>16, <1>17 DEF IInv

-----------------------------------------------------------------------------
(***************************************************************************)
(* The theorems                                                            *)
(***************************************************************************)

LEMMA NextIInv ==
  ASSUME IInv, [Next]_vars
  PROVE  IInv'
  <1>1. ASSUME NEW m \in Manifests, Approve(m) PROVE IInv'
    BY <1>1, ApproveKeeps
  <1>2. ASSUME NEW m \in Manifests, NEW id \in Ids \cup {NoId}, StartRun(m, id) PROVE IInv'
    BY <1>2, StartRunKeeps
  <1>3. ASSUME NEW m \in Manifests, NEW id \in Ids \cup {NoId}, RefuseRun(m, id) PROVE IInv'
    BY <1>3, RefuseRunKeeps
  <1>4. CASE RunAtomic
    BY <1>4, RunAtomicKeeps
  <1>5. CASE Admit
    BY <1>5, AdmitKeeps
  <1>6. CASE Checkpoint
    BY <1>6, CheckpointKeeps
  <1>7. CASE Complete
    BY <1>7, CompleteKeeps
  <1>8. CASE Fail
    BY <1>8, FailKeeps
  <1>9. CASE Finish
    BY <1>9, FinishKeeps
  <1>10. CASE EditByHand
    BY <1>10, EditByHandKeeps
  <1>11. CASE UNCHANGED vars
    <2>1. UNCHANGED <<initialized, history, progress, phase, manifest, recover, at, exit,
                      approved, strayed, applied, edits>>
      BY <1>11 DEF vars, run
    <2>2. TypeOK'
      BY <2>1 DEF IInv, TypeOK
    <2>3. (Shape' <=> Shape) /\ Successes' = Successes /\ Actives' = Actives
      BY <2>1, RowsKept
    <2>4. NeverMisshapen' /\ ExitZeroMeansManifest' /\ AppliedOnceAsRecorded'
          /\ ApprovedPlansApply'
      BY <2>1, <2>3
         DEF IInv, NeverMisshapen, ExitZeroMeansManifest, AppliedOnceAsRecorded,
             ApprovedPlansApply
    <2>5. RunInv' /\ PipelineInv'
      BY <2>1, <2>3 DEF IInv, RunInv, PipelineInv, SuccessMatches, Fingerprint, Preflight,
                        Unit
    <2>6. QED
      BY <2>1, <2>2, <2>4, <2>5 DEF IInv
  <1>12. QED
    BY <1>1, <1>2, <1>3, <1>4, <1>5, <1>6, <1>7, <1>8, <1>9, <1>10, <1>11 DEF Next

\* THEOREM: the engine, the pipeline and an operator's edits keep IInv, whatever the
\* manifests of the runs are (engine.py, statevalidate.py, verify_baseline).
THEOREM InductiveInvariant == Spec => []IInv
  <1>1. Init => IInv
    BY InitIInv
  <1>2. IInv /\ [Next]_vars => IInv'
    BY NextIInv
  <1>3. QED
    BY <1>1, <1>2, PTL DEF Spec

\* A run writes a prefix, an edit by hand moves no row.
LEMMA KeysKept ==
  ASSUME IInv, KeysHold, [Next]_vars
  PROVE  KeysHold'
  <1>1. IInv'
    BY NextIInv
  <1>2. CASE phase' # "idle"
    <2>1. (history \subseteq Rows)' /\ IsFiniteSet(history') /\ Shape'
      BY <1>1, <1>2 DEF IInv, TypeOK, RunInv
    <2>2. ShapeOf(history', progress')
      BY <2>1 DEF Shape, ShapeOf, Successes, SuccessesOf, Actives, ActivesOf
    <2>3. Prefix(history', progress', Cardinality(SuccessesOf(history')))
      BY <2>1, <2>2, ShapeIsPrefix
    <2>4. QED
      BY <2>3 DEF Prefix, KeysHold
  <1>3. CASE UNCHANGED history
    BY <1>3 DEF KeysHold
  <1>4. CASE EditByHand
    <2>1. PICK r \in history :
        \/ history' = history \ {r}
        \/ \E s \in {"ACTIVE", "SUCCESS"}, f \in Contents, l \in {"sql", "python"} :
            history' = (history \ {r}) \cup
                {[r EXCEPT !.status = s, !.fingerprint = f, !.language = l]}
      BY <1>4 DEF EditByHand
    <2>2. CASE history' = history \ {r}
      BY <2>2 DEF KeysHold
    <2>3. ASSUME NEW s, NEW f, NEW l,
                 history' = (history \ {r}) \cup
                     {[r EXCEPT !.status = s, !.fingerprint = f, !.language = l]}
          PROVE  KeysHold'
      <3> DEFINE e == [r EXCEPT !.status = s, !.fingerprint = f, !.language = l]
      <3>1. e.id = r.id /\ e.seq = r.seq
        BY DEF IInv, TypeOK, Rows
      <3> HIDE DEF e
      <3>2. history' = (history \ {r}) \cup {e}
        BY <2>3 DEF e
      <3>3. QED
        BY <3>1, <3>2 DEF KeysHold
    <2>4. QED
      BY <2>1, <2>2, <2>3
  <1>5. RunAtomic \/ Admit \/ Complete => phase' # "idle"
    BY DEF RunAtomic, Admit, Complete
  <1>6. QED
    BY <1>2, <1>3, <1>4, <1>5
       DEF Next, Approve, StartRun, RefuseRun, Checkpoint, Fail, Finish, vars

\* THEOREM: no two rows of m8_history ever share an id or a position.
THEOREM KeysHoldHolds == Spec => []KeysHold
  <1>1. Init => KeysHold
    BY DEF Init, KeysHold
  <1>2. IInv /\ KeysHold /\ [Next]_vars => KeysHold'
    BY KeysKept
  <1>3. QED
    BY <1>1, <1>2, InductiveInvariant, PTL DEF Spec

\* Where build_plan accepts the history, the ids status counts are those of the
\* successful prefix, each at its own position.
LEMMA CountsAgree ==
  ASSUME IInv
  PROVE  StatusCountsTrue
  <1> SUFFICES ASSUME NEW m \in Manifests, StatusExit(m) = 0
               PROVE  SuccessCount(m) = Cardinality(Successes)
    BY DEF StatusCountsTrue
  <1>1. PlanExit(m) = 0
    BY DEF StatusExit, DatabaseExit
  <1>2. /\ Shape /\ Cardinality(history) <= Len(m)
        /\ \A r \in Successes : SuccessMatches(m, r)
    BY <1>1 DEF PlanExit
  <1>3. history \subseteq Rows /\ IsFiniteSet(history)
    BY DEF IInv, TypeOK
  <1>4. /\ Successes = SuccessesOf(history) /\ Cardinality(history) \in Nat
        /\ Prefix(history, progress, Cardinality(Successes))
    BY <1>2, <1>3, ShapeBefore
  <1>5. /\ Len(m) \in Nat /\ DOMAIN m = 1 .. Len(m)
        /\ \A i, j \in DOMAIN m : m[i].id = m[j].id => i = j
    BY ManifestFacts, BoundsAssumption
  <1>6. \A r \in Successes : r.seq \in DOMAIN m /\ r.id = m[r.seq].id
    <2>1. \A r \in Successes : r.seq \in 1 .. Cardinality(history)
      BY <1>2 DEF Shape, Successes
    <2>2. QED
      BY <1>2, <1>4, <1>5, <2>1 DEF SuccessMatches
  <1>7. {i \in DOMAIN m : \E r \in history : r.id = m[i].id /\ r.status = "SUCCESS"}
          = {r.seq : r \in Successes}
    BY <1>5, <1>6 DEF Successes
  <1>8. Cardinality({r.seq : r \in Successes}) = Cardinality(Successes)
    <2>1. IsFiniteSet(Successes)
      BY <1>3, <1>4, Counting
    <2>2. \A r, q \in Successes : r.seq = q.seq => r = q
      BY <1>4 DEF Prefix, SuccessesOf
    <2>3. QED
      BY <2>1, <2>2, RowImages
  <1>9. QED
    BY <1>7, <1>8 DEF SuccessCount

\* THEOREM: under any sequence of manifests the history stays well-shaped, exit 0 means
\* the manifest is in it, every migration is applied once and as recorded, an
\* approved plan is never refused, and status counts what was applied.
THEOREM HistorySafetyHolds == Spec => []HistorySafety
  <1>1. IInv /\ KeysHold => HistorySafety
    BY CountsAgree DEF HistorySafety
  <1>2. QED
    BY <1>1, InductiveInvariant, KeysHoldHolds, PTL

\* A row that stays where it was keeps its source: the steps that write rows
\* write at the run's position only.
LEMMA AmendStep ==
  ASSUME IInv, KeysHold, [Next]_vars, NEW r \in Actives, NEW q \in history',
         edits' = edits, q.seq = r.seq, q.fingerprint # r.fingerprint
  PROVE  recover = r.id /\ q.id = r.id
  <1>1. history \subseteq Rows /\ IsFiniteSet(history) /\ r \in history
    BY DEF IInv, TypeOK, Actives
  <1>2. \A p \in history : p.seq = r.seq => p = r
    BY <1>1 DEF KeysHold
  <1>3. CASE Admit
    <2>1. phase = "executing" /\ Unit.content.mode = "restartable"
      BY <1>3 DEF Admit
    <2>2. PICK e \in Rows : e.seq = at /\ e.id = Unit.id /\ e.fingerprint = Unit.content
                            /\ history' = Successes \cup {e}
      BY <1>3, AdmitRow
    <2>3. q = e
      BY <1>2, <2>1, <2>2 DEF Successes
    <2>4. r.id = Unit.id /\ (r.fingerprint = Fingerprint(Unit.content) \/ recover = r.id)
      BY <2>1 DEF IInv, RunInv
    <2>5. QED
      BY <2>2, <2>3, <2>4 DEF Fingerprint
  <1>4. CASE RunAtomic
    BY <1>4 DEF RunAtomic, IInv, RunInv
  <1>5. CASE Complete
    <2>1. phase = "admitted"
      BY <1>5 DEF Complete
    <2>2. PICK p \in history : q = IF p.id = Unit.id /\ p.status = "ACTIVE"
                                   THEN [p EXCEPT !.status = "SUCCESS"] ELSE p
      BY <1>5 DEF Complete
    <2>3. q.seq = p.seq /\ q.fingerprint = p.fingerprint
      BY <1>1, <2>2 DEF Rows
    <2>4. QED
      BY <1>2, <2>1, <2>3
  <1>6. ~EditByHand
    <2>1. edits \in Nat
      BY BoundsAssumption DEF IInv, TypeOK
    <2>2. EditByHand => edits' = edits + 1
      BY Zenon DEF EditByHand
    <2>3. edits + 1 # edits
      BY <2>1
    <2>4. QED
      BY <2>2, <2>3
  <1>7. CASE UNCHANGED history
    BY <1>2, <1>7
  <1>8. QED
    BY <1>3, <1>4, <1>5, <1>6, <1>7
       DEF Next, Approve, StartRun, RefuseRun, Checkpoint, Fail, Finish, vars

\* THEOREM: the source recorded for an ACTIVE migration is replaced only in a run that
\* named it with --recover (check_recovery_admission, update_active_attempt).
THEOREM AmendedOnlyByNameHolds == Spec => AmendedOnlyByName
  <1>1. IInv /\ KeysHold /\ [Next]_vars =>
          [\A r \in Actives, q \in history' :
              (edits' = edits /\ q.seq = r.seq /\ q.fingerprint # r.fingerprint) =>
                  recover = r.id /\ q.id = r.id]_vars
    BY AmendStep
  <1>2. QED
    BY <1>1, InductiveInvariant, KeysHoldHolds, PTL DEF Spec, AmendedOnlyByName

LEMMA DamageStep ==
  ASSUME IInv, [Next]_vars, edits' = edits
  PROVE  /\ Successes \subseteq history'
         /\ ~Shape => history' = history /\ progress' = progress
  <1>1. phase # "idle" => Shape
    BY DEF IInv, RunInv
  <1>2. Successes \subseteq history
    BY DEF Successes
  <1>3. CASE UNCHANGED <<history, progress>>
    BY <1>2, <1>3
  <1>4. CASE Admit
    BY <1>1, <1>4, AdmitRow DEF Admit
  <1>5. CASE RunAtomic
    BY <1>1, <1>2, <1>5 DEF RunAtomic
  <1>6. CASE Checkpoint
    BY <1>1, <1>2, <1>6 DEF Checkpoint
  <1>7. CASE Complete
    <2>1. Shape
      BY <1>1, <1>7 DEF Complete
    <2>2. ASSUME NEW r \in Successes PROVE r \in history'
      BY <1>7 DEF Complete, Successes
    <2>3. QED
      BY <2>1, <2>2
  <1>8. ~EditByHand
    <2>1. edits \in Nat
      BY BoundsAssumption DEF IInv, TypeOK
    <2>2. EditByHand => edits' = edits + 1
      BY Zenon DEF EditByHand
    <2>3. edits + 1 # edits
      BY <2>1
    <2>4. QED
      BY <2>2, <2>3
  <1>9. QED
    BY <1>3, <1>4, <1>5, <1>6, <1>7, <1>8
       DEF Next, Approve, StartRun, RefuseRun, Fail, Finish, vars

\* THEOREM: a run writes nothing into a history that is not a sound prefix, and never
\* changes or removes a SUCCESS row (validate_snapshot_shape, build_plan).
THEOREM DamageStopsRunsHolds == Spec => DamageStopsRuns
  <1>1. IInv /\ [Next]_vars =>
          [edits' = edits =>
              /\ Successes \subseteq history'
              /\ ~Shape => history' = history /\ progress' = progress]_vars
    BY DamageStep
  <1>2. QED
    BY <1>1, InductiveInvariant, PTL DEF Spec, DamageStopsRuns
=============================================================================
