------------------------- MODULE StreamPlansProofs -------------------------
(***************************************************************************)
(* The overlap check and the owned_paths gate draw one line, for any       *)
(* number of streams, tokens and files.                                    *)
(*                                                                         *)
(* The argument goes by prefixes.  A token that owns a file has its        *)
(* directory form among the prefixes of the file, so two tokens that own   *)
(* the same file have comparable directory forms, and then one covers the  *)
(* other (MeetMeansCover).  The other way round, a token owns every file   *)
(* of a token that it covers (CoverMeansMeet).                             *)
(***************************************************************************)
EXTENDS StreamPlans, SequenceTheorems, TLAPS

----------------------------------------------------------------------------
(* Prefixes, segment by segment.                                            *)

\* The first path leads to the second.
Leads(p, f) == Len(p) <= Len(f) /\ \A k \in 1..Len(p) : p[k] = f[k]

LEMMA StrictPrefixIsLonger ==
    ASSUME NEW S, NEW p \in Seq(S), NEW f \in Seq(S)
    PROVE  IsStrictPrefix(p, f) <=> Leads(p, f) /\ Len(p) < Len(f)
<1>1. IsPrefix(p, f) <=> Leads(p, f)
  <2>1. ASSUME Len(p) <= Len(f)
        PROVE  (SubSeq(p, 1, Len(p)) = SubSeq(f, 1, Len(p))) <=> (\A k \in 1..Len(p) : p[k] = f[k])
    <3>1. /\ SubSeq(p, 1, Len(p)) = p
          /\ Len(p) \in Nat /\ Len(f) \in Nat
      BY SubSeqFull, LenProperties
    <3>2. SubSeq(f, 1, Len(p)) = [k \in 1..Len(p) |-> f[k]]
      BY <2>1, <3>1, SubSeqProperties, SMTT(20)
    <3>3. p = [k \in 1..Len(p) |-> p[k]]
      BY LenProperties
    <3> QED
      BY <3>1, <3>2, <3>3
  <2> QED
    BY <2>1 DEF IsPrefix, Leads
<1>2. Leads(p, f) => (p = f <=> Len(p) = Len(f))
  BY SeqEqual, SMTT(20) DEF Leads
<1>3. Len(p) \in Nat /\ Len(f) \in Nat
  BY LenProperties
<1> QED
  BY <1>1, <1>2, <1>3 DEF IsStrictPrefix, Leads

LEMMA LeadsAllTheWay ==
    ASSUME NEW S, NEW p \in Seq(S), NEW f \in Seq(S), Leads(p, f)
    PROVE  p = f \/ IsStrictPrefix(p, f)
<1>1. Len(p) \in Nat /\ Len(f) \in Nat
  BY LenProperties
<1>2. Len(p) = Len(f) => p = f
  BY SeqEqual, SMTT(20) DEF Leads
<1> QED
  BY <1>1, <1>2, StrictPrefixIsLonger DEF Leads

----------------------------------------------------------------------------
(* Tokens and files.                                                        *)

Paths == Seq(STRING) \ {<<>>}

LEMMA PathLength ==
    ASSUME NEW p \in Paths
    PROVE  /\ p \in Seq(STRING)
           /\ Len(p) \in Nat \ {0}
           /\ DOMAIN p = 1..Len(p)
           /\ \A k \in 1..Len(p) : p[k] \in STRING
BY EmptySeq, LenProperties, ElementOfSeq DEF Paths

LEMMA FrontOfPath ==
    ASSUME NEW p \in Paths
    PROVE  /\ Front(p) \in Seq(STRING)
           /\ Len(Front(p)) = Len(p) - 1
           /\ \A k \in 1..(Len(p) - 1) : Front(p)[k] = p[k]
<1>1. Len(p) \in Nat \ {0} /\ \A k \in 1..Len(p) : p[k] \in STRING
  BY PathLength
<1>2. \A k \in 1..(Len(p) - 1) : p[k] \in STRING
  BY <1>1
<1>3. 1 \in Int /\ Len(p) - 1 \in Int
  BY <1>1
<1>4. Len(p) - 1 \in Nat /\ Len(p) - 1 - 1 + 1 = Len(p) - 1
  BY <1>1
<1>5. /\ SubSeq(p, 1, Len(p) - 1) \in Seq(STRING)
      /\ Len(SubSeq(p, 1, Len(p) - 1)) = IF 1 <= Len(p) - 1 THEN Len(p) - 1 - 1 + 1 ELSE 0
      /\ \A k \in 1..(Len(p) - 1 - 1 + 1) : SubSeq(p, 1, Len(p) - 1)[k] = p[1 + k - 1]
  BY <1>2, <1>3, SubSeqProperties
<1>6. /\ SubSeq(p, 1, Len(p) - 1) \in Seq(STRING)
      /\ Len(SubSeq(p, 1, Len(p) - 1)) = Len(p) - 1
  BY <1>4, <1>5
<1>7. \A k \in 1..(Len(p) - 1) : SubSeq(p, 1, Len(p) - 1)[k] = p[k]
  BY <1>4, <1>5
<1> QED
  BY <1>6, <1>7 DEF Front

LEMMA DirOfPath ==
    ASSUME NEW p \in Paths
    PROVE  /\ DirOf(p) \in Seq(STRING)
           /\ Len(DirOf(p)) = IF EndsWithSlash(p) THEN Len(p) - 1 ELSE Len(p)
           /\ Leads(DirOf(p), p)
<1>1. Len(p) \in Nat \ {0} /\ p \in Seq(STRING)
  BY PathLength
<1>2. CASE EndsWithSlash(p)
  <2>1. DirOf(p) = Front(p)
    BY <1>2 DEF DirOf
  <2>2. /\ Front(p) \in Seq(STRING)
        /\ Len(Front(p)) = Len(p) - 1
        /\ \A k \in 1..(Len(p) - 1) : Front(p)[k] = p[k]
    BY FrontOfPath
  <2>3. Leads(Front(p), p)
    BY <1>1, <2>2 DEF Leads
  <2> QED
    BY <1>2, <2>1, <2>2, <2>3
<1>3. CASE ~EndsWithSlash(p)
  BY <1>1, <1>3 DEF DirOf, Leads
<1> QED
  BY <1>2, <1>3

\* What git lists is normalised already (_norm_rel), and the gate looks at all of it.
LEMMA FilesAreNormal ==
    ASSUME NEW f \in Files
    PROVE  /\ f \in Paths
           /\ NormRel(f) = f
           /\ f \notin {<<"">>, <<".">>}
<1>1. /\ f \in Paths
      /\ \A i \in DOMAIN f : f[i] # "" /\ f[i] # "."
  BY StreamsAssumption DEF Paths
<1>2. /\ Len(f) \in Nat \ {0}
      /\ DOMAIN f = 1..Len(f)
      /\ f \in Seq(STRING)
  BY <1>1, PathLength
<1>3. 1 \in DOMAIN f
  BY <1>2
<1>4. f[1] # "" /\ f[1] # "."
  BY <1>1, <1>3, Zenon
<1>5. Min({Len(f)} \cup {i \in 1..Len(f) : f[i] # "."}) = 1
  <2> DEFINE All == {Len(f)} \cup {i \in 1..Len(f) : f[i] # "."}
  <2>1. 1 \in All /\ \A i \in All : i \in Nat /\ 1 <= i
    <3>1. 1 \in {i \in 1..Len(f) : f[i] # "."}
      BY <1>2, <1>3, <1>4, Zenon
    <3>2. 1 \in All
      BY <3>1
    <3>3. \A i \in All : i = Len(f) \/ i \in 1..Len(f)
      OBVIOUS
    <3> QED
      BY <1>2, <3>2, <3>3
  <2> HIDE DEF All
  <2>2. \E x \in All : \A y \in All : x <= y
    BY <2>1
  <2>3. Min(All) \in All /\ \A i \in All : Min(All) <= i
    BY <2>2 DEF Min
  <2>4. Min(All) = 1
    BY <2>1, <2>3
  <2> QED
    BY <2>4 DEF All
<1>6. NormRel(f) = f
  BY <1>2, <1>5, SubSeqFull DEF NormRel
<1>7. <<"">>[1] = "" /\ <<".">>[1] = "."
  OBVIOUS
<1>8. f # <<"">> /\ f # <<".">>
  BY <1>4, <1>7, Zenon
<1> QED
  BY <1>1, <1>6, <1>8

\* rstrip("/") gives the directory form of a token with one slash at most.
LEMMA RStripOfToken ==
    ASSUME NEW t \in Tokens
    PROVE  RStrip(t) = DirOf(t)
<1> DEFINE Ends == {1} \cup {i \in 1..Len(t) : t[i] # ""}
           n == Len(DirOf(t))
<1>1. t \in Paths
  BY StreamsAssumption DEF Paths
<1>2. /\ t \in Seq(STRING)
      /\ Len(t) \in Nat \ {0}
  BY <1>1, PathLength
<1>3. /\ EndsWithSlash(t) => t[Len(t)] = ""
      /\ ~EndsWithSlash(t) => ~(Len(t) > 1) \/ t[Len(t)] # ""
  BY Zenon DEF EndsWithSlash, Last
<1>4. /\ n = IF EndsWithSlash(t) THEN Len(t) - 1 ELSE Len(t)
      /\ n \in 1..Len(t)
  <2>1. EndsWithSlash(t) => Len(t) > 1
    BY Zenon DEF EndsWithSlash
  <2>2. n = IF EndsWithSlash(t) THEN Len(t) - 1 ELSE Len(t)
    BY <1>1, DirOfPath
  <2> HIDE DEF n
  <2> QED
    BY <1>2, <2>1, <2>2
<1>5. n = 1 \/ t[n] # ""
  <2>1. CASE EndsWithSlash(t)
    <3>1. /\ Len(Front(t)) = n
          /\ \A k \in 1..n : Front(t)[k] = t[k]
      BY <1>1, <1>2, <1>4, <2>1, FrontOfPath
    <3>2. ~(n > 1 /\ Front(t)[n] = "")
      <4>1. ~EndsWithSlash(Front(t))
        BY <2>1, StreamsAssumption
      <4> HIDE DEF n
      <4> QED
        BY <3>1, <4>1, Zenon DEF EndsWithSlash, Last
    <3>3. n \in 1..n /\ (n > 1 \/ n = 1)
      <4>1. n \in 1..Len(t) /\ Len(t) \in Nat
        BY <1>2, <1>4
      <4> HIDE DEF n
      <4> QED
        BY <4>1
    <3> QED
      BY <3>1, <3>2, <3>3, Zenon
  <2>2. CASE ~EndsWithSlash(t)
    <3>1. n = Len(t) /\ (n > 1 \/ n = 1)
      BY <1>2, <1>4, <2>2
    <3> QED
      BY <1>3, <2>2, <3>1, Zenon
  <2> QED
    BY <2>1, <2>2
<1>6. n \in Ends
  <2>1. CASE n = 1
    BY <2>1
  <2>2. CASE t[n] # ""
    BY <1>4, <2>2, Zenon
  <2> QED
    BY <1>5, <2>1, <2>2
<1>7. ASSUME NEW i \in Ends
      PROVE  i \in Nat /\ i <= n
  <2>1. CASE i = 1
    BY <1>2, <1>4, <2>1
  <2>2. CASE i \in 1..Len(t) /\ t[i] # ""
    <3>1. EndsWithSlash(t) => i # Len(t)
      BY <1>3, <2>2, Zenon
    <3>2. i \in 1..Len(t)
      BY <2>2
    <3> HIDE DEF n, Ends
    <3> QED
      BY <1>2, <1>4, <3>1, <3>2
  <2> QED
    BY <1>7, <2>1, <2>2, Zenon
<1> HIDE DEF Ends, n
<1>8. \E x \in Ends : \A y \in Ends : x >= y
  BY <1>6, <1>7
<1>9. Max(Ends) = n
  <2>1. Max(Ends) \in Ends /\ \A y \in Ends : Max(Ends) >= y
    BY <1>8 DEF Max
  <2> QED
    BY <1>6, <1>7, <2>1
<1>10. RStrip(t) = SubSeq(t, 1, n)
  BY <1>9 DEF RStrip, Ends
<1>11. CASE EndsWithSlash(t)
  BY <1>4, <1>10, <1>11 DEF DirOf, Front
<1>12. CASE ~EndsWithSlash(t)
  BY <1>2, <1>4, <1>10, <1>12, SubSeqFull DEF DirOf
<1> QED
  BY <1>11, <1>12

\* A token owns a file when its directory form leads to it, all the way if the
\* token is not a directory (path_is_owned).
LEMMA OwnsMeansLeads ==
    ASSUME NEW f \in Files, NEW t \in Tokens
    PROVE  OwnedBy(f, t) <=> /\ Leads(DirOf(t), f)
                             /\ IsDirectory(t) \/ f = DirOf(t)
<1>1. t \in Paths /\ f \in Paths
  BY StreamsAssumption DEF Paths
<1>2. /\ f \in Seq(STRING) /\ t \in Seq(STRING)
      /\ Front(t) \in Seq(STRING) /\ DirOf(t) \in Seq(STRING)
      /\ Len(f) \in Nat
  BY <1>1, PathLength, FrontOfPath, DirOfPath
<1>3. Leads(DirOf(t), f) <=> (f = DirOf(t) \/ IsStrictPrefix(DirOf(t), f))
  <2>1. Leads(f, f)
    BY <1>2 DEF Leads
  <2> QED
    BY <1>2, <2>1, LeadsAllTheWay, StrictPrefixIsLonger
<1>4. CASE EndsWithSlash(t)
  <2>1. RStrip(t) = Front(t)
    BY <1>4, RStripOfToken DEF DirOf
  <2> QED
    BY <1>3, <1>4, <2>1 DEF OwnedBy, DirOf, IsDirectory
<1>5. CASE ~EndsWithSlash(t)
  BY <1>3, <1>5 DEF OwnedBy, DirOf, IsDirectory
<1> QED
  BY <1>4, <1>5

\* Two tokens that own one file overlap.
LEMMA MeetMeansCover ==
    ASSUME NEW a \in Tokens, NEW b \in Tokens, NEW f \in Files,
           OwnedBy(f, a), OwnedBy(f, b), Len(DirOf(a)) <= Len(DirOf(b))
    PROVE  OwnedCovers(a, b) \/ OwnedCovers(b, a)
<1>1. a \in Paths /\ b \in Paths /\ f \in Paths
  BY StreamsAssumption DEF Paths
<1>2. /\ a \in Seq(STRING) /\ b \in Seq(STRING) /\ f \in Seq(STRING)
      /\ DirOf(a) \in Seq(STRING) /\ DirOf(b) \in Seq(STRING)
      /\ Len(DirOf(a)) \in Nat /\ Len(DirOf(b)) \in Nat
      /\ Len(a) \in Nat /\ Len(b) \in Nat
  BY <1>1, PathLength, DirOfPath, LenProperties
<1>3. /\ Leads(DirOf(a), f) /\ (IsDirectory(a) \/ f = DirOf(a))
      /\ Leads(DirOf(b), f) /\ (IsDirectory(b) \/ f = DirOf(b))
  BY OwnsMeansLeads
<1>4. CASE Len(DirOf(a)) < Len(DirOf(b))
  <2>1. IsDirectory(a)
    BY <1>2, <1>3, <1>4 DEF Leads
  <2>2. Leads(DirOf(a), DirOf(b))
    BY <1>2, <1>3, <1>4 DEF Leads
  <2>3. Leads(DirOf(b), b) /\ Len(DirOf(b)) <= Len(b)
    BY <1>1, DirOfPath DEF Leads
  <2>4. Leads(DirOf(a), b) /\ Len(DirOf(a)) < Len(b)
    BY <1>2, <1>4, <2>2, <2>3 DEF Leads
  <2>5. IsStrictPrefix(DirOf(a), b)
    BY <1>2, <2>4, StrictPrefixIsLonger
  <2> QED
    BY <2>1, <2>5 DEF OwnedCovers
<1>5. CASE Len(DirOf(a)) = Len(DirOf(b))
  <2>1. \A k \in 1..Len(DirOf(a)) : DirOf(a)[k] = DirOf(b)[k]
    BY <1>2, <1>3, <1>5 DEF Leads
  <2>2. DirOf(a) = DirOf(b)
    BY <1>2, <1>5, <2>1, SeqEqual
  <2>3. CASE EndsWithSlash(a) /\ EndsWithSlash(b)
    <3>1. Len(a) = Len(b)
      BY <1>1, <1>2, <1>5, <2>3, DirOfPath
    <3>2. \A k \in 1..Len(a) : a[k] = b[k]
      <4>1. a[Len(a)] = "" /\ b[Len(b)] = ""
        BY <2>3 DEF EndsWithSlash, Last
      <4>2. /\ \A k \in 1..(Len(a) - 1) : DirOf(a)[k] = a[k]
            /\ \A k \in 1..(Len(b) - 1) : DirOf(b)[k] = b[k]
        BY <1>1, <2>3, FrontOfPath DEF DirOf
      <4>3. a[Len(a)] = b[Len(a)]
        BY <3>1, <4>1, Zenon
      <4>4. \A k \in 1..(Len(a) - 1) : a[k] = b[k]
        BY <2>2, <3>1, <4>2
      <4> QED
        BY <1>2, <4>3, <4>4
    <3>3. a = b
      BY <1>2, <3>1, <3>2, SeqEqual
    <3> QED
      BY <3>3 DEF OwnedCovers
  <2>4. CASE EndsWithSlash(a) /\ ~EndsWithSlash(b)
    <3>1. b = RStrip(a)
      BY <2>2, <2>4, RStripOfToken DEF DirOf
    <3> QED
      BY <2>4, <3>1 DEF OwnedCovers, IsDirectory
  <2>5. CASE ~EndsWithSlash(a) /\ EndsWithSlash(b)
    <3>1. a = RStrip(b)
      BY <2>2, <2>5, RStripOfToken DEF DirOf
    <3> QED
      BY <2>5, <3>1 DEF OwnedCovers, IsDirectory
  <2>6. CASE ~EndsWithSlash(a) /\ ~EndsWithSlash(b)
    BY <2>2, <2>6 DEF DirOf, OwnedCovers
  <2> QED
    BY <2>3, <2>4, <2>5, <2>6
<1> QED
  BY <1>2, <1>4, <1>5

\* A token owns every file of a token that it covers.
LEMMA CoverMeansMeet ==
    ASSUME NEW a \in Tokens, NEW b \in Tokens, NEW f \in Files,
           OwnedCovers(a, b), OwnedBy(f, b)
    PROVE  OwnedBy(f, a)
<1>1. a \in Paths /\ b \in Paths /\ f \in Paths
  BY StreamsAssumption DEF Paths
<1>2. /\ a \in Seq(STRING) /\ b \in Seq(STRING) /\ f \in Seq(STRING)
      /\ DirOf(a) \in Seq(STRING) /\ DirOf(b) \in Seq(STRING)
      /\ Len(DirOf(a)) \in Nat /\ Len(DirOf(b)) \in Nat
      /\ Len(a) \in Nat /\ Len(b) \in Nat /\ Len(f) \in Nat
  BY <1>1, PathLength, DirOfPath, LenProperties
<1>3. Leads(DirOf(b), f)
  BY OwnsMeansLeads
<1>4. CASE a = b
  BY <1>4
<1>5. CASE IsDirectory(a) /\ b = RStrip(a)
  <2>1. b = DirOf(a)
    BY <1>5, RStripOfToken
  <2>2. ~EndsWithSlash(b)
    BY <2>1, StreamsAssumption DEF DirOf
  <2>3. Leads(DirOf(a), f)
    BY <1>3, <2>1, <2>2 DEF DirOf
  <2> QED
    BY <1>5, <2>3, OwnsMeansLeads
<1>6. CASE IsDirectory(a) /\ IsStrictPrefix(DirOf(a), b)
  <2>1. Leads(DirOf(a), b) /\ Len(DirOf(a)) < Len(b)
    BY <1>2, <1>6, StrictPrefixIsLonger
  <2>2. /\ Leads(DirOf(b), b)
        /\ Len(DirOf(b)) = Len(b) \/ Len(DirOf(b)) = Len(b) - 1
    BY <1>1, DirOfPath
  <2>3. Leads(DirOf(a), DirOf(b))
    BY <1>2, <2>1, <2>2 DEF Leads
  <2>4. Leads(DirOf(a), f)
    BY <1>2, <1>3, <2>3 DEF Leads
  <2> QED
    BY <1>6, <2>4, OwnsMeansLeads
<1> QED
  BY <1>4, <1>5, <1>6 DEF OwnedCovers

----------------------------------------------------------------------------
(* The plans.                                                               *)

\* Two tokens that own one file overlap, in whichever order they are asked.
LEMMA MeetMeansOverlap ==
    ASSUME NEW owned1 \in SUBSET Tokens, NEW owned2 \in SUBSET Tokens, NEW f \in Files,
           PathIsOwned(f, owned1), PathIsOwned(f, owned2)
    PROVE  Overlap(owned1, owned2)
<1>1. PICK a \in owned1, b \in owned2 : OwnedBy(f, a) /\ OwnedBy(f, b)
  BY FilesAreNormal DEF PathIsOwned
<1>2. Len(DirOf(a)) \in Nat /\ Len(DirOf(b)) \in Nat
  <2>1. a \in Paths /\ b \in Paths
    BY StreamsAssumption DEF Paths
  <2> QED
    BY <2>1, DirOfPath, LenProperties
<1>3. Len(DirOf(a)) <= Len(DirOf(b)) \/ Len(DirOf(b)) <= Len(DirOf(a))
  BY <1>2
<1>4. OwnedCovers(a, b) \/ OwnedCovers(b, a)
  BY <1>1, <1>3, MeetMeansCover
<1> QED
  BY <1>1, <1>4 DEF Overlap

\* Sets of tokens that overlap own a file in common.
LEMMA OverlapMeansMeet ==
    ASSUME NEW owned1 \in SUBSET Tokens, NEW owned2 \in SUBSET Tokens,
           Overlap(owned1, owned2)
    PROVE  \E f \in Files : PathIsOwned(f, owned1) /\ PathIsOwned(f, owned2)
<1>1. PICK a \in owned1, b \in owned2 : OwnedCovers(a, b) \/ OwnedCovers(b, a)
  BY DEF Overlap
<1>2. PICK f \in Files : OwnedBy(f, a) /\ OwnedBy(f, b)
  <2>1. CASE OwnedCovers(a, b)
    <3>1. PICK f \in Files : OwnedBy(f, b)
      BY StreamsAssumption
    <3> QED
      BY <2>1, <3>1, CoverMeansMeet
  <2>2. CASE OwnedCovers(b, a)
    <3>1. PICK f \in Files : OwnedBy(f, a)
      BY StreamsAssumption
    <3> QED
      BY <2>2, <3>1, CoverMeansMeet
  <2> QED
    BY <1>1, <2>1, <2>2
<1> QED
  BY <1>1, <1>2, FilesAreNormal DEF PathIsOwned

\* A stream whose changes passed the gate owns each of them.
LEMMA PassedMeansOwned ==
    ASSUME NEW files \in SUBSET Files, NEW owned, FilesOutsideOwned(files, owned) = {},
           NEW f \in files
    PROVE  PathIsOwned(f, owned)
BY FilesAreNormal DEF FilesOutsideOwned

\* What validation and the gate have found stays so.
PlansInv ==
    /\ TypeOK
    /\ phase = "run" => ValidPlans(plans)
    /\ phase = "rejected" => ~ValidPlans(plans)
    /\ \A i \in DOMAIN plans :
          plans[i].status = "STREAM_READY" => FilesOutsideOwned(changed[i], plans[i].owned_paths) = {}

LEMMA PlansInit == Init => PlansInv
<1> SUFFICES ASSUME Init PROVE PlansInv
  OBVIOUS
<1>1. plans \in Seq(StreamPlan) /\ Len(plans) = 0
  BY EmptySeq DEF Init
<1>2. DOMAIN plans = {}
  BY <1>1, LenProperties
<1>3. changed \in [1..Len(plans) -> SUBSET Files]
  BY <1>1 DEF Init
<1> QED
  BY <1>1, <1>2, <1>3 DEF Init, PlansInv, TypeOK

\* The plans that make the check of validate_stream_plans do not include a status.
LEMMA ValidityIsKept ==
    ASSUME NEW ps, NEW qs, Len(ps) = Len(qs), DOMAIN ps = DOMAIN qs,
           \A i \in DOMAIN ps : qs[i].name = ps[i].name /\ qs[i].owned_paths = ps[i].owned_paths
    PROVE  ValidPlans(qs) <=> ValidPlans(ps)
BY DEF ValidPlans

LEMMA ParseKeeps ==
    ASSUME PlansInv, NEW name \in Names, NEW owned \in (SUBSET Tokens) \ {{}},
           ParseSpec(name, owned)
    PROVE  PlansInv'
<1> DEFINE new == [name |-> name, owned_paths |-> owned, status |-> "PENDING"]
<1>1. /\ plans \in Seq(StreamPlan) /\ Len(plans) \in Nat /\ DOMAIN plans = 1..Len(plans)
      /\ changed \in [1..Len(plans) -> SUBSET Files]
      /\ phase = "parse" /\ phase' = "parse"
      /\ \A i \in DOMAIN plans : plans[i].status = "PENDING" /\ changed[i] = {}
  BY LenProperties DEF PlansInv, TypeOK, ParseSpec
<1>2. new \in StreamPlan
  BY DEF StreamPlan, Status
<1>3. /\ plans' \in Seq(StreamPlan) /\ Len(plans') = Len(plans) + 1
      /\ DOMAIN plans' = 1..(Len(plans) + 1)
      /\ \A i \in 1..Len(plans) : plans'[i] = plans[i]
      /\ plans'[Len(plans) + 1] = new
  <2> HIDE DEF new
  <2>1. plans' = Append(plans, new)
    BY DEF ParseSpec, new
  <2> QED
    BY <1>1, <1>2, <2>1, AppendProperties, LenProperties
<1>4. changed \in Seq(SUBSET Files) /\ Len(changed) = Len(plans)
  BY <1>1, SeqDef
<1>5. /\ changed' \in Seq(SUBSET Files) /\ Len(changed') = Len(plans) + 1
      /\ DOMAIN changed' = 1..(Len(plans) + 1)
      /\ \A i \in 1..Len(plans) : changed'[i] = changed[i]
      /\ changed'[Len(plans) + 1] = {}
  <2>1. changed' = Append(changed, {}) /\ {} \in SUBSET Files
    BY DEF ParseSpec
  <2> QED
    BY <1>1, <1>4, <2>1, AppendProperties, LenProperties
<1>6. changed' \in [1..Len(plans') -> SUBSET Files]
  BY <1>3, <1>5, LenProperties
<1>7. ASSUME NEW i \in DOMAIN plans'
      PROVE  plans'[i].status = "PENDING" /\ changed'[i] = {}
  <2>1. i \in 1..Len(plans) \/ i = Len(plans) + 1
    BY <1>1, <1>3
  <2>2. new.status = "PENDING"
    OBVIOUS
  <2> HIDE DEF new
  <2> QED
    BY <1>1, <1>3, <1>5, <2>1, <2>2
<1> QED
  BY <1>1, <1>3, <1>6, <1>7 DEF PlansInv, TypeOK

LEMMA ValidateKeeps == ASSUME PlansInv, ValidateStreamPlans PROVE PlansInv'
<1>1. /\ plans' = plans /\ changed' = changed
      /\ phase = "parse"
      /\ phase' = IF ValidPlans(plans) THEN "run" ELSE "rejected"
      /\ TypeOK
  BY DEF ValidateStreamPlans, PlansInv
<1>2. ValidPlans(plans') <=> ValidPlans(plans)
  BY <1>1
<1>3. \A i \in DOMAIN plans : plans[i].status = "PENDING" /\ changed[i] = {}
  BY <1>1 DEF TypeOK
<1>4. TypeOK'
  BY <1>1, <1>3 DEF TypeOK
<1>5. /\ phase' = "run" => ValidPlans(plans')
      /\ phase' = "rejected" => ~ValidPlans(plans')
  BY <1>1, <1>2
<1>6. \A i \in DOMAIN plans' : plans'[i].status # "STREAM_READY"
  BY <1>1, <1>3
<1> QED
  BY <1>4, <1>5, <1>6 DEF PlansInv

LEMMA CommitKeeps ==
    ASSUME PlansInv, NEW i \in DOMAIN plans, NEW f \in Files, Commit(i, f)
    PROVE  PlansInv'
<1>1. /\ plans \in Seq(StreamPlan) /\ DOMAIN plans = 1..Len(plans)
      /\ changed \in [1..Len(plans) -> SUBSET Files]
      /\ plans' = plans /\ phase' = phase /\ phase = "run"
      /\ changed' = [changed EXCEPT ![i] = @ \cup {f}]
      /\ plans[i].status = "PENDING"
  BY LenProperties DEF PlansInv, TypeOK, Commit
<1>2. /\ changed' \in [1..Len(plans) -> SUBSET Files]
      /\ \A k \in DOMAIN plans : k # i => changed'[k] = changed[k]
  BY <1>1
<1>3. TypeOK'
  BY <1>1, <1>2 DEF TypeOK
<1>4. ValidPlans(plans')
  BY <1>1 DEF PlansInv
<1>5. \A k \in DOMAIN plans' : plans'[k].status = "STREAM_READY"
          => FilesOutsideOwned(changed'[k], plans'[k].owned_paths) = {}
  BY <1>1, <1>2 DEF PlansInv
<1> QED
  BY <1>1, <1>3, <1>4, <1>5 DEF PlansInv

LEMMA GateKeeps ==
    ASSUME PlansInv, NEW i \in DOMAIN plans, OwnedPathsGate(i)
    PROVE  PlansInv'
<1> DEFINE passed == FilesOutsideOwned(changed[i], plans[i].owned_paths) = {}
           verdict == IF passed THEN "STREAM_READY" ELSE "BLOCKED"
<1>1. /\ plans \in Seq(StreamPlan) /\ DOMAIN plans = 1..Len(plans)
      /\ changed' = changed /\ phase' = phase /\ phase = "run"
      /\ TypeOK
  BY LenProperties DEF PlansInv, TypeOK, OwnedPathsGate
<1>2. plans' = [plans EXCEPT ![i] = [plans[i] EXCEPT !.status = verdict]]
  BY DEF OwnedPathsGate
<1>3. verdict \in Status
  BY DEF Status
<1>4. plans[i] \in StreamPlan
  BY <1>1, ElementOfSeq
<1>5. [plans[i] EXCEPT !.status = verdict] \in StreamPlan
  <2> HIDE DEF verdict
  <2> QED
    BY <1>3, <1>4 DEF StreamPlan
<1>6. /\ plans' \in Seq(StreamPlan) /\ Len(plans') = Len(plans) /\ DOMAIN plans' = DOMAIN plans
      /\ \A k \in DOMAIN plans : k # i => plans'[k] = plans[k]
      /\ plans'[i] = [plans[i] EXCEPT !.status = verdict]
  BY <1>1, <1>2, <1>5, ExceptSeq
<1>7. /\ plans'[i].name = plans[i].name /\ plans'[i].owned_paths = plans[i].owned_paths
      /\ plans'[i].status = verdict
  <2> HIDE DEF verdict
  <2> QED
    BY <1>4, <1>6 DEF StreamPlan
<1>8. TypeOK'
  BY <1>1, <1>6 DEF TypeOK
<1>9. ValidPlans(plans')
  <2>1. \A k \in DOMAIN plans : plans'[k].name = plans[k].name /\ plans'[k].owned_paths = plans[k].owned_paths
    BY <1>6, <1>7
  <2>2. ValidPlans(plans)
    BY <1>1 DEF PlansInv
  <2> QED
    BY <1>6, <2>1, <2>2, ValidityIsKept
<1>10. \A k \in DOMAIN plans' : plans'[k].status = "STREAM_READY"
          => FilesOutsideOwned(changed'[k], plans'[k].owned_paths) = {}
  <2>1. verdict = "STREAM_READY" => passed
    BY DEF verdict
  <2>2. ASSUME NEW k \in DOMAIN plans, k # i
        PROVE  plans'[k].status = "STREAM_READY"
                 => FilesOutsideOwned(changed'[k], plans'[k].owned_paths) = {}
    BY <1>1, <1>6, <2>2 DEF PlansInv
  <2>3. plans'[i].status = "STREAM_READY"
          => FilesOutsideOwned(changed'[i], plans'[i].owned_paths) = {}
    <3> HIDE DEF verdict
    <3> QED
      BY <1>1, <1>7, <2>1
  <2> QED
    BY <1>6, <2>2, <2>3
<1> QED
  BY <1>1, <1>8, <1>9, <1>10 DEF PlansInv

LEMMA PlansKeep == PlansInv /\ [Next]_vars => PlansInv'
<1> SUFFICES ASSUME PlansInv, [Next]_vars PROVE PlansInv'
  OBVIOUS
<1>1. ASSUME NEW name \in Names, NEW owned \in (SUBSET Tokens) \ {{}}, ParseSpec(name, owned)
      PROVE  PlansInv'
  BY <1>1, ParseKeeps
<1>2. CASE ValidateStreamPlans
  BY <1>2, ValidateKeeps
<1>3. ASSUME NEW i \in DOMAIN plans, NEW f \in Files, Commit(i, f)
      PROVE  PlansInv'
  BY <1>3, CommitKeeps
<1>4. ASSUME NEW i \in DOMAIN plans, OwnedPathsGate(i)
      PROVE  PlansInv'
  BY <1>4, GateKeeps
<1>5. CASE UNCHANGED vars
  BY <1>5 DEF PlansInv, TypeOK, vars
<1> QED
  BY <1>1, <1>2, <1>3, <1>4, <1>5 DEF Next

LEMMA PlansStay == Spec => []PlansInv
<1> QED
  BY PlansInit, PlansKeep, PTL DEF Spec

\* The plans, their phase and the changes of each stream have their types, for
\* any number of specs, tokens and changes.
THEOREM PlansTypes == Spec => []TypeOK
<1>1. PlansInv => TypeOK
  BY DEF PlansInv
<1> QED
  BY <1>1, PlansStay, PTL

\* The overlap check and the owned_paths gate draw one line: streams that both
\* passed the gate have changed different files, and plans with different names
\* are refused only if a file would belong to two of them (validate_stream_plans,
\* files_outside_owned).
THEOREM OverlapAndGateAgree == Spec => []OverlapMeetsGate
<1>1. PlansInv => ReadyStreamsDisjoint
  <2> SUFFICES ASSUME PlansInv,
                      NEW i \in DOMAIN plans, NEW j \in DOMAIN plans, i # j,
                      plans[i].status = "STREAM_READY", plans[j].status = "STREAM_READY",
                      NEW f \in changed[i] \cap changed[j]
               PROVE  FALSE
    BY DEF ReadyStreamsDisjoint
  <2>1. /\ plans \in Seq(StreamPlan) /\ DOMAIN plans = 1..Len(plans) /\ Len(plans) \in Nat
        /\ changed[i] \subseteq Files /\ changed[j] \subseteq Files
    BY LenProperties DEF PlansInv, TypeOK
  <2>2. plans[i] \in StreamPlan /\ plans[j] \in StreamPlan
    BY <2>1, ElementOfSeq
  <2>3. plans[i].owned_paths \in SUBSET Tokens /\ plans[j].owned_paths \in SUBSET Tokens
    BY <2>2 DEF StreamPlan
  <2>4. PathIsOwned(f, plans[i].owned_paths) /\ PathIsOwned(f, plans[j].owned_paths)
    BY <2>1, PassedMeansOwned DEF PlansInv
  <2>5. /\ Overlap(plans[i].owned_paths, plans[j].owned_paths)
        /\ Overlap(plans[j].owned_paths, plans[i].owned_paths)
    BY <2>1, <2>3, <2>4, MeetMeansOverlap
  <2>6. ValidPlans(plans)
    <3>1. phase = "run"
      BY DEF PlansInv, TypeOK
    <3> QED
      BY <3>1 DEF PlansInv
  <2>7. i < j \/ j < i
    BY <2>1
  <2> QED
    BY <2>5, <2>6, <2>7 DEF ValidPlans
<1>2. PlansInv => RejectionHasReason
  <2> SUFFICES ASSUME PlansInv, phase = "rejected", plans # <<>>
               PROVE  \E i, j \in DOMAIN plans : i < j /\
                        \/ plans[i].name = plans[j].name
                        \/ \E f \in Files : /\ PathIsOwned(f, plans[i].owned_paths)
                                            /\ PathIsOwned(f, plans[j].owned_paths)
    BY DEF RejectionHasReason
  <2>1. /\ plans \in Seq(StreamPlan) /\ DOMAIN plans = 1..Len(plans)
        /\ Len(plans) \in Nat /\ Len(plans) >= 1
    BY EmptySeq, LenProperties DEF PlansInv, TypeOK
  <2>2. PICK i \in DOMAIN plans, j \in DOMAIN plans :
          /\ i < j
          /\ plans[i].name = plans[j].name \/ Overlap(plans[i].owned_paths, plans[j].owned_paths)
    BY <2>1 DEF PlansInv, ValidPlans
  <2>3. plans[i] \in StreamPlan /\ plans[j] \in StreamPlan
    BY <2>1, ElementOfSeq
  <2>4. plans[i].owned_paths \in SUBSET Tokens /\ plans[j].owned_paths \in SUBSET Tokens
    BY <2>3 DEF StreamPlan
  <2> QED
    BY <2>2, <2>4, OverlapMeansMeet
<1>3. PlansInv => OverlapMeetsGate
  BY <1>1, <1>2 DEF OverlapMeetsGate
<1> QED
  BY <1>3, PlansStay, PTL
=============================================================================
