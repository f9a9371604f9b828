---------------------------- MODULE SafetyProofs ----------------------------
(***************************************************************************)
(* Proofs about Safety: that an override stays, that no pass over many     *)
(* domains asks the model with the write lock in its hands, that what a    *)
(* sync reports is stored and what a scan hits has its alert, for any      *)
(* number of threads, domains and queries.                                 *)
(***************************************************************************)
EXTENDS Safety, FiniteSetTheorems, TLAPS

-----------------------------------------------------------------------------
(* The rules: every name gets one of the categories.                       *)

Categorized(S) == {r \in S : r.category \in Categories}
IsTable(rules) == \E S : rules \in Seq(Categorized(S))

\* The rows of the table carry the category of their block.
LEMMA RuleCategory ==
  ASSUME NEW c \in Categories, NEW p
  PROVE  SuffixRule(c, p).category \in Categories /\ InfixRule(c, p).category \in Categories
  BY DEF SuffixRule, InfixRule

\* A block whose rows have categories is a table, and so are two joined.
LEMMA BlockIsTable ==
  ASSUME NEW S, NEW block \in Seq(S), \A i \in DOMAIN block : block[i].category \in Categories
  PROVE  IsTable(block)
<1>1. block \in Seq(Categorized(S))
  BY DEF Categorized
<1> QED
  BY <1>1 DEF IsTable

LEMMA Joins ==
  ASSUME NEW s, NEW t, IsTable(s), IsTable(t)
  PROVE  IsTable(s \o t)
<1>1. PICK S, T : s \in Seq(Categorized(S)) /\ t \in Seq(Categorized(T))
  BY DEF IsTable
<1>2. Categorized(S) \subseteq Categorized(S \cup T) /\ Categorized(T) \subseteq Categorized(S \cup T)
  BY DEF Categorized
<1>3. s \in Seq(Categorized(S \cup T)) /\ t \in Seq(Categorized(S \cup T))
  <2>1. \A A, B : A \subseteq B => Seq(A) \subseteq Seq(B)
    OBVIOUS
  <2> QED
    BY <1>1, <1>2, <2>1
<1>4. s \o t \in Seq(Categorized(S \cup T))
  BY <1>3
<1> QED
  BY <1>4 DEF IsTable

\* The rules of classifiers/rules.py, block by block.
LEMMA RulesAreTable == IsTable(Rules)
<1> DEFINE Of(block) == {block[i] : i \in DOMAIN block}
<1>1. IsTable(AdultRules)
  <2>1. AdultRules \in Seq(Of(AdultRules)) /\ \A i \in DOMAIN AdultRules : AdultRules[i].category \in Categories
    BY RuleCategory DEF AdultRules, Categories
  <2> QED
    BY <2>1, BlockIsTable
<1>2. IsTable(AdsRules)
  <2>1. AdsRules \in Seq(Of(AdsRules)) /\ \A i \in DOMAIN AdsRules : AdsRules[i].category \in Categories
    BY RuleCategory DEF AdsRules, Categories
  <2> QED
    BY <2>1, BlockIsTable
<1>3. IsTable(SocialRules)
  <2>1. SocialRules \in Seq(Of(SocialRules)) /\ \A i \in DOMAIN SocialRules : SocialRules[i].category \in Categories
    BY RuleCategory DEF SocialRules, Categories
  <2> QED
    BY <2>1, BlockIsTable
<1>4. IsTable(StreamingRules)
  <2>1. StreamingRules \in Seq(Of(StreamingRules)) /\ \A i \in DOMAIN StreamingRules : StreamingRules[i].category \in Categories
    BY RuleCategory DEF StreamingRules, Categories
  <2> QED
    BY <2>1, BlockIsTable
<1>5. IsTable(GamingRules)
  <2>1. GamingRules \in Seq(Of(GamingRules)) /\ \A i \in DOMAIN GamingRules : GamingRules[i].category \in Categories
    BY RuleCategory DEF GamingRules, Categories
  <2> QED
    BY <2>1, BlockIsTable
<1>6. IsTable(EducationRules)
  <2>1. EducationRules \in Seq(Of(EducationRules)) /\ \A i \in DOMAIN EducationRules : EducationRules[i].category \in Categories
    BY RuleCategory DEF EducationRules, Categories
  <2> QED
    BY <2>1, BlockIsTable
<1>7. IsTable(ConnectivityRules)
  <2>1. ConnectivityRules \in Seq(Of(ConnectivityRules)) /\ \A i \in DOMAIN ConnectivityRules : ConnectivityRules[i].category \in Categories
    BY RuleCategory DEF ConnectivityRules, Categories
  <2> QED
    BY <2>1, BlockIsTable
<1>8. IsTable(ProductivityRules)
  <2>1. ProductivityRules \in Seq(Of(ProductivityRules)) /\ \A i \in DOMAIN ProductivityRules : ProductivityRules[i].category \in Categories
    BY RuleCategory DEF ProductivityRules, Categories
  <2> QED
    BY <2>1, BlockIsTable
<1>9. IsTable(NewsRules)
  <2>1. NewsRules \in Seq(Of(NewsRules)) /\ \A i \in DOMAIN NewsRules : NewsRules[i].category \in Categories
    BY RuleCategory DEF NewsRules, Categories
  <2> QED
    BY <2>1, BlockIsTable
<1>10. IsTable(ShoppingRules)
  <2>1. ShoppingRules \in Seq(Of(ShoppingRules)) /\ \A i \in DOMAIN ShoppingRules : ShoppingRules[i].category \in Categories
    BY RuleCategory DEF ShoppingRules, Categories
  <2> QED
    BY <2>1, BlockIsTable
<1>11. IsTable(InfrastructureRules)
  <2>1. InfrastructureRules \in Seq(Of(InfrastructureRules)) /\ \A i \in DOMAIN InfrastructureRules : InfrastructureRules[i].category \in Categories
    BY RuleCategory DEF InfrastructureRules, Categories
  <2> QED
    BY <2>1, BlockIsTable
<1>12. IsTable(AdultRules \o AdsRules \o SocialRules \o StreamingRules)
  BY <1>1, <1>2, <1>3, <1>4, Joins
<1>13. IsTable(AdultRules \o AdsRules \o SocialRules \o StreamingRules \o GamingRules \o EducationRules
              \o ConnectivityRules)
  BY <1>5, <1>6, <1>7, <1>12, Joins
<1> QED
  BY <1>8, <1>9, <1>10, <1>11, <1>13, Joins DEF Rules

\* A non-empty set of naturals has a smallest element.
LEMMA SmallestExists ==
  ASSUME NEW M \in Nat, NEW S \in SUBSET (0 .. M), S # {}
  PROVE  \E x \in S : \A y \in S : x <= y
<1> DEFINE Lower(x) == {y \in S : y < x}
           T == {Lower(x) : x \in S}
           R == StrictSubsetOrdering(S)
<1>1. IsFiniteSet(S)
  BY FS_BoundedSetOfNaturals
<1>2. T \subseteq FiniteSubsetsOf(S) /\ T # {}
  <2>1. \A x \in S : Lower(x) \in SUBSET S /\ IsFiniteSet(Lower(x))
    BY <1>1, FS_Subset
  <2> QED
    BY <2>1 DEF FiniteSubsetsOf
<1>3. PICK t \in T : \A u \in T : ~ (<<u, t>> \in R)
  <2> HIDE DEF T, R
  <2>1. IsWellFoundedOn(R, FiniteSubsetsOf(S))
    BY FS_StrictSubsetOrderingWellFounded DEF R
  <2> QED
    BY <1>2, <2>1, WFMin
<1>4. PICK x \in S : t = Lower(x)
  OBVIOUS
<1>5. \A z \in S : z \in Nat
  OBVIOUS
<1>6. \A y \in S : x <= y
  <2> SUFFICES ASSUME NEW y \in S, y < x PROVE FALSE
    BY <1>5
  <2>1. \A z \in S : z < y => z < x
    BY <1>5
  <2>2. ~ (y < y)
    BY <1>5
  <2>3. Lower(y) \subseteq Lower(x) /\ y \in Lower(x) /\ y \notin Lower(y)
    BY <2>1, <2>2
  <2>4. Lower(y) \in T /\ Lower(x) \in SUBSET S /\ Lower(y) \in SUBSET S
    OBVIOUS
  <2> HIDE DEF Lower, T
  <2> QED
    BY <1>3, <1>4, <2>3, <2>4 DEF StrictSubsetOrdering
<1> QED
  BY <1>6

\* ... and, up to a bound, a largest one.
LEMMA LargestExists ==
  ASSUME NEW M \in Nat, NEW S \in SUBSET (0 .. M), S # {}
  PROVE  \E x \in S : \A y \in S : y <= x
<1> DEFINE T == {M - x : x \in S}
<1>1. T \in SUBSET (0 .. M) /\ T # {}
  <2>1. \A x \in S : M - x \in 0 .. M
    OBVIOUS
  <2> QED
    BY <2>1
<1>2. PICK y \in T : \A z \in T : y <= z
  <2> HIDE DEF T
  <2> QED
    BY <1>1, SmallestExists
<1>3. PICK x \in S : y = M - x
  OBVIOUS
<1>4. ASSUME NEW z \in S PROVE z <= x
  <2>1. M - x <= M - z
    BY <1>2, <1>3
  <2> QED
    BY <2>1
<1> QED
  BY <1>4

\* Induction up to N, for a property given as the set of numbers that have it.
LEMMA UpTo ==
  ASSUME NEW N \in Nat, NEW S \in SUBSET (0 .. N),
         0 \in S, \A n \in 1 .. N : n - 1 \in S => n \in S
  PROVE  S = 0 .. N
<1> DEFINE Bad == (0 .. N) \ S
<1>1. SUFFICES ASSUME Bad # {} PROVE FALSE
  BY <1>1
<1>2. PICK m \in Bad : \A n \in Bad : m <= n
  BY <1>1, SmallestExists
<1>3. m \in 1 .. N /\ m - 1 \in 0 .. N
  OBVIOUS
<1>4. m - 1 \in S
  BY <1>2, <1>3
<1> QED
  BY <1>3, <1>4

\* f starts with s0 and goes on, at each i, as F[i] says: for every F there is
\* such an f.
Steps(N, S) == [1 .. N -> [S -> S]]
Results(N, S) == [0 .. N -> S]
Folds(f, s0, N, F) == f[0] = s0 /\ \A i \in 1 .. N : f[i] = F[i][f[i - 1]]

LEMMA FoldExists ==
  ASSUME NEW S, NEW s0 \in S, NEW N \in Nat, NEW F \in Steps(N, S)
  PROVE  \E f \in Results(N, S) : Folds(f, s0, N, F)
<1> USE DEF Steps
<1> DEFINE Good(n, f) == f[0] = s0 /\ \A i \in 1 .. n : f[i] = F[i][f[i - 1]]
           Had == {n \in 0 .. N : \E f \in [0 .. n -> S] : Good(n, f)}
<1>1. 0 \in Had
  <2>1. [n \in 0 .. 0 |-> s0] \in [0 .. 0 -> S] /\ Good(0, [n \in 0 .. 0 |-> s0])
    OBVIOUS
  <2> HIDE DEF Good
  <2>2. \E f \in [0 .. 0 -> S] : Good(0, f)
    BY <2>1
  <2> QED
    BY <2>2
<1>2. ASSUME NEW m \in 1 .. N, m - 1 \in Had PROVE m \in Had
  <2>1. PICK f \in [0 .. m - 1 -> S] : Good(m - 1, f)
    BY <1>2
  <2> DEFINE g == [n \in 0 .. m |-> IF n = m THEN F[m][f[m - 1]] ELSE f[n]]
  <2>2. g \in [0 .. m -> S]
    <3>1. f[m - 1] \in S
      OBVIOUS
    <3>2. F[m][f[m - 1]] \in S
      BY <3>1
    <3> QED
      BY <3>2
  <2>3. g[0] = s0
    BY <2>1
  <2>4. ASSUME NEW i \in 1 .. m PROVE g[i] = F[i][g[i - 1]]
    <3>1. g[i - 1] = f[i - 1]
      OBVIOUS
    <3>2. CASE i = m
      <4>1. g[m] = F[m][f[m - 1]]
        OBVIOUS
      <4> HIDE DEF g
      <4> QED
        BY <3>1, <3>2, <4>1
    <3>3. CASE i # m
      <4>1. i \in 1 .. m - 1 /\ g[i] = f[i]
        BY <3>3
      <4> QED
        BY <2>1, <3>1, <4>1
    <3> QED
      BY <3>2, <3>3
  <2>5. Good(m, g)
    BY <2>3, <2>4
  <2> HIDE DEF Good, g
  <2>6. \E e \in [0 .. m -> S] : Good(m, e)
    BY <2>2, <2>5
  <2> QED
    BY <2>6
<1>3. Had = 0 .. N
  <2> HIDE DEF Had
  <2>1. Had \in SUBSET (0 .. N)
    BY DEF Had
  <2> QED
    BY <1>1, <1>2, <2>1, UpTo
<1>4. \E f \in [0 .. N -> S] : Good(N, f)
  <2> HIDE DEF Good
  <2>1. N \in 0 .. N
    OBVIOUS
  <2> QED
    BY <1>3, <2>1
<1> QED
  BY <1>4 DEF Results, Folds

\* classify gives every name a category: that of a rule of the table, the first
\* that matches, or UNCATEGORIZED.
LEMMA StaticType == ASSUME NEW d \in Domains PROVE Static[d] \in Categories
<1> DEFINE hits == {i \in DOMAIN Rules : Matches(Rules[i], d)}
<1>1. PICK S : Rules \in Seq(Categorized(S))
  BY RulesAreTable DEF IsTable
<1>2. Len(Rules) \in Nat /\ hits \in SUBSET (0 .. Len(Rules))
  <2> HIDE DEF Rules
  <2> QED
    BY <1>1
<1>3. \A i \in hits : Rules[i].category \in Categories
  BY <1>1 DEF Categorized
<1>4. Classify(d) \in Categories
  <2>1. CASE hits = {}
    BY <2>1 DEF Classify, Categories
  <2>2. CASE hits # {}
    <3> DEFINE i == CHOOSE i \in hits : \A j \in hits : i <= j
    <3>1. i \in hits
      <4> HIDE DEF hits
      <4>1. \E x \in hits : \A y \in hits : x <= y
        BY <1>2, <2>2, SmallestExists
      <4> QED
        BY <4>1
    <3>2. Classify(d) = Rules[i].category
      BY <2>2 DEF Classify
    <3> QED
      BY <1>3, <3>1, <3>2
  <2> QED
    BY <2>1, <2>2
<1> QED
  BY <1>4 DEF Static

-----------------------------------------------------------------------------
(* The invariant.                                                          *)

(***************************************************************************)
(* What a request relies on, given the classifications and who holds the   *)
(* write lock.                                                             *)
(***************************************************************************)
Bulk == {"sync", "aisync", "scan"}
Network == {"cached", "pick", "wait", "ask", "save"}
Ended == {"idle", "ok", "error"}

\* Which requests are where.
KindOK(r) ==
  /\ r.pc \in {"list", "get", "flush"} => r.kind \in {"sync", "scan"}
  /\ r.pc \in {"ai", "regard", "commit", "commit2"} => r.kind \in Bulk
  /\ r.pc \in {"scan", "store"} => r.kind = "scan"
  /\ r.pc = "look" => /\ r.kind \in {"override", "aiclassify"}
                      /\ r.dom \in Domains /\ r.todo = {r.dom} /\ r.seen = Nothing
                      /\ r.kind = "override" => r.cat \in Categories
  /\ r.pc = "flushone" => r.kind = "aiclassify"
  /\ r.pc = "final" => r.kind \notin {"ask", "reask"}
  /\ r.pc = "read" => r.kind \in Bulk \cup {"aiclassify"}
  /\ r.pc \in Network => r.kind \in Bulk \cup {"aiclassify", "ask", "reask"}

\* When a session holds the lock: a pass between its flush and its commit, a
\* single classification from its flush on.
LockOK(t, r, w) ==
  w = t => \/ r.kind \in Bulk /\ r.pc \in {"ai", "regard", "commit", "scan", "store", "final"}
           \/ r.kind = "aiclassify" /\ r.pc \in Network \cup {"read", "final"}

\* What a session has still to write.
PendOK(t, r, c, w) ==
  /\ r.pc \in Ended \cup {"list", "get", "look"} => r.pend = Nothing
  /\ r.pc \in Network \cup {"read"} /\ r.kind # "aiclassify" => r.pend = Nothing
  /\ r.pc \in {"ai", "regard"} => w = t \/ r.pend = Nothing
  /\ \A d \in Domains : r.pend[d] # None =>
       /\ r.pend[d].new => r.pend[d].cat # None
       /\ ~r.pend[d].new => c[d] # None
       /\ w = t /\ r.pend[d].new => c[d] = None
       /\ r.kind # "override" =>
            /\ ~r.pend[d].over
            /\ ~r.pend[d].new /\ r.pend[d].cat # None => r.seen[d] # None /\ ~r.seen[d].over
  /\ r.pc = "regard" /\ w = t => \A d \in r.todo : c[d] # None => ~c[d].over

\* The domains the model is asked about have a row, or will.
Written(r, c, d) == c[d] # None \/ (r.pend[d] # None /\ r.pend[d].new)
AskedOK(r, c) ==
  /\ r.pc \in {"pick", "wait", "ask", "save"} => r.dom \in Domains /\ (r.kind \in {"ask", "reask"} \/ r.dom \in r.todo)
  /\ r.pc = "save" => r.answer[r.dom] # None
  /\ r.pc \in {"list", "get", "flush", "ai", "regard", "commit", "look", "flushone"} => r.answer = Nothing
  /\ r.kind \in Bulk /\ r.pc = "commit" => \A d \in r.todo : Written(r, c, d)
  /\ r.kind \in Bulk /\ r.pc \in Network \cup {"read"} =>
       \A d \in Domains : d \in r.todo \/ r.answer[d] # None => c[d] # None
  /\ r.kind = "aiclassify" /\ r.pc = "flushone" => r.seen[r.dom] # None /\ r.todo = {r.dom}
  /\ r.kind = "aiclassify" /\ r.pc \in Network \cup {"flushone", "read"} =>
       \A d \in Domains : (d \in r.todo \/ r.answer[d] # None => r.seen[d] # None)
                          /\ (r.seen[d] # None => Written(r, c, d))

\* A sync's rows: the lock is kept from the flush to the commit.
SyncOK(t, r, c, w) ==
  r.kind = "sync" =>
    /\ r.pc = "get" => r.count = r.todo
    /\ r.pc \notin {"list", "get"} =>
         \A d \in r.count :
           \/ c[d] # None
           \/ /\ r.pend[d] # None /\ r.pend[d].new
              /\ r.pc = "flush" \/ (w = t /\ r.pc \in {"ai", "regard", "commit", "final"})

RequestOK(t, r, c, w) ==
  /\ KindOK(r) /\ LockOK(t, r, w) /\ PendOK(t, r, c, w) /\ AskedOK(r, c) /\ SyncOK(t, r, c, w)

\* The record of a request, as far as the proofs look into it.
Points == Ended \cup Network \cup {"list", "get", "flush", "ai", "regard", "commit", "commit2", "read",
                                   "look", "flushone", "final", "scan", "store"}
IsRequest(r) ==
  r \in [kind: Kinds \cup {None}, pc: Points, cat: {r.cat}, todo: SUBSET Domains,
         dom: Domains \cup {None}, left: {r.left}, seen: [Domains -> Row \cup {None}],
         pend: [Domains -> Change \cup {None}], answer: [Domains -> Verdicts \cup {None}],
         count: SUBSET Domains, bump: {r.bump}, hits: {r.hits}]

TablesOK ==
  /\ queries \in Seq(Query)
  /\ class \in [Domains -> Row \cup {None}] /\ cache \in [Domains -> Verdicts \cup {None}]
  /\ writer \in Threads \cup {None}
  /\ req = [t \in Threads |-> req[t]] /\ \A t \in Threads : IsRequest(req[t])

SafetyInv == TablesOK /\ \A t \in Threads : RequestOK(t, req[t], class, writer)

-----------------------------------------------------------------------------
(* Rows and changes.                                                       *)

IsRow(row) == row \in Row \cup {None}
IsChange(ch) == ch \in Change \cup {None}

\* A change is never None.
LEMMA ChangeIsReal == ASSUME NEW ch \in Change PROVE ch # None
  BY SafetyAssumption

\* Applied: a change that fits its row makes or keeps one.
LEMMA AppliedFacts ==
  ASSUME NEW row, IsRow(row), NEW ch, IsChange(ch),
         ch # None /\ ch.new => ch.cat # None, ch # None /\ ~ch.new => row # None
  PROVE  /\ IsRow(Applied(row, ch))
         /\ Applied(row, ch) = None <=> row = None /\ ch = None
         /\ ch = None => Applied(row, ch) = row
         /\ ch # None /\ ~ch.new => /\ Applied(row, ch).over = (row.over \/ ch.over)
                                    /\ ch.cat = None => Applied(row, ch).cat = row.cat
         /\ ch # None /\ ch.new => Applied(row, ch).over = ch.over
<1>1. CASE ch = None
  BY <1>1 DEF Applied, IsRow
<1>2. CASE ch # None
  <2>1. ch \in Change /\ ch.cat \in Categories \cup {None}
    BY <1>2 DEF IsChange, Change
  <2>2. CASE ch.new
    <3>1. [cat |-> ch.cat, over |-> ch.over] \in Row
      BY <2>1, <2>2, <1>2 DEF Change, Row
    <3> QED
      BY <1>2, <2>2, <3>1, SafetyAssumption DEF Applied, IsRow
  <2>3. CASE ~ch.new
    <3>1. row \in Row
      BY <1>2, <2>3 DEF IsRow
    <3>2. [cat |-> IF ch.cat = None THEN row.cat ELSE ch.cat, over |-> row.over \/ ch.over] \in Row
      BY <2>1, <3>1 DEF Change, Row
    <3> QED
      BY <1>2, <2>3, <3>1, <3>2, SafetyAssumption DEF Applied, IsRow
  <2> QED
    BY <2>2, <2>3
<1> QED
  BY <1>1, <1>2

\* upsert_classification: an INSERT exactly of a row that is not there; a row
\* that is overridden is left alone.
LEMMA RuleChangeFacts ==
  ASSUME NEW d \in Domains, NEW row, IsRow(row)
  PROVE  LET ch == RuleChange(d, row) IN
         /\ IsChange(ch) /\ (row = None => ch # None)
         /\ ch # None => /\ ch.new <=> row = None
                         /\ ch.new => ch.cat # None
                         /\ ~ch.over /\ (~ch.new => ~row.over)
<1> DEFINE insert == [new |-> TRUE, cat |-> Static[d], over |-> FALSE]
           update == [new |-> FALSE, cat |-> Differs(Static[d], row), over |-> FALSE]
<1>1. Static[d] \in Categories /\ Static[d] # None
  BY StaticType, SafetyAssumption
<1>2. insert \in Change /\ insert # None
  <2>1. insert \in Change
    BY <1>1 DEF Change
  <2> QED
    BY <2>1, ChangeIsReal
<1>3. update \in Change /\ update # None
  <2>1. update \in Change
    BY <1>1 DEF Change, Differs
  <2> QED
    BY <2>1, ChangeIsReal
<1> QED
  BY <1>1, <1>2, <1>3 DEF RuleChange, IsChange, IsRow

\* upsert_ai_classification: a row that is overridden is left alone.
LEMMA AiChangeFacts ==
  ASSUME NEW row \in Row, NEW verdict \in Verdicts
  PROVE  LET ch == AiChange(row, verdict) IN
         /\ IsChange(ch)
         /\ ch # None => ~ch.new /\ ~ch.over /\ ~row.over
<1> DEFINE cat == MapAiCategory[verdict]
           update == [new |-> FALSE, cat |-> Differs(cat, row), over |-> FALSE]
<1>1. cat \in Categories \cup {None}
  BY SafetyAssumption DEF MapAiCategory, Categories
<1>2. update \in Change /\ update # None
  <2> HIDE DEF cat
  <2>1. update \in Change
    BY <1>1 DEF Change, Differs
  <2> QED
    BY <2>1, ChangeIsReal
<1> QED
  BY <1>2 DEF AiChange, IsChange

\* set_override: an INSERT exactly of a row that is not there.
LEMMA OverrideChangeFacts ==
  ASSUME NEW row, IsRow(row), NEW cat \in Categories
  PROVE  LET ch == OverrideChange(row, cat) IN
         /\ IsChange(ch) /\ ch # None
         /\ ch.new <=> row = None
         /\ ch.new => ch.cat # None
<1> DEFINE insert == [new |-> TRUE, cat |-> cat, over |-> TRUE]
           update == [new |-> FALSE, cat |-> Differs(cat, row), over |-> TRUE]
<1>1. insert \in Change /\ insert # None
  <2>1. insert \in Change
    BY DEF Change
  <2> QED
    BY <2>1, ChangeIsReal
<1>2. update \in Change /\ update # None
  <2>1. update \in Change
    BY DEF Change, Differs
  <2> QED
    BY <2>1, ChangeIsReal
<1> QED
  BY <1>1, <1>2, SafetyAssumption DEF OverrideChange, IsChange

\* A later change joins the earlier one: what is new stays new.
LEMMA JoinedFacts ==
  ASSUME NEW old, IsChange(old), NEW ch, IsChange(ch)
  PROVE  LET both == Joined(old, ch) IN
         /\ IsChange(both)
         /\ old = None => both = ch
         /\ ch = None => both = old
         /\ old # None /\ ch # None =>
              /\ both # None /\ both.new = old.new /\ both.over = (old.over \/ ch.over)
              /\ both.cat = IF ch.cat = None THEN old.cat ELSE ch.cat
<1>1. CASE old = None \/ ch = None
  BY <1>1 DEF Joined
<1>2. CASE old # None /\ ch # None
  <2>1. old \in Change /\ ch \in Change
    BY <1>2 DEF IsChange
  <2> DEFINE both == [old EXCEPT !.cat = IF ch.cat = None THEN @ ELSE ch.cat, !.over = @ \/ ch.over]
  <2>2. /\ both \in Change /\ both.new = old.new /\ both.over = (old.over \/ ch.over)
        /\ both.cat = IF ch.cat = None THEN old.cat ELSE ch.cat
    BY <2>1 DEF Change
  <2>3. Joined(old, ch) = both
    BY <1>2 DEF Joined
  <2> QED
    BY <1>2, <2>2, <2>3, SafetyAssumption DEF IsChange
<1> QED
  BY <1>1, <1>2


-----------------------------------------------------------------------------
(* What the steps have in common.                                          *)

\* The map without entries.
LEMMA NothingFacts == ASSUME NEW S PROVE Nothing \in [Domains -> S \cup {None}] /\ \A d \in Domains : Nothing[d] = None
  BY DEF Nothing

LEMMA NothingTypes ==
  /\ Nothing \in [Domains -> Row \cup {None}] /\ Nothing \in [Domains -> Change \cup {None}]
  /\ Nothing \in [Domains -> Verdicts \cup {None}]
  BY NothingFacts

\* The other requests keep what they rely on when a request goes on, provided
\* that nobody writes past the holder of the lock and that no row goes away.
LEMMA OneRequest ==
  ASSUME SafetyInv, NEW t \in Threads, NEW r, Becomes(t, r), IsRequest(r),
         UNCHANGED queries, RequestOK(t, r, class', writer'),
         class' \in [Domains -> Row \cup {None}], cache' \in [Domains -> Verdicts \cup {None}],
         writer' \in {writer, t, None},
         writer' # writer \/ class' # class => writer \in {None, t},
         \A d \in Domains : class[d] # None => class'[d] # None
  PROVE  SafetyInv'
<1>1. req' = [req EXCEPT ![t] = r] /\ req = [u \in Threads |-> req[u]]
  BY DEF Becomes, SafetyInv, TablesOK
<1>2. /\ req' = [u \in Threads |-> req'[u]] /\ req'[t] = r
      /\ \A u \in Threads \ {t} : req'[u] = req[u]
  BY <1>1
<1>3. ASSUME NEW u \in Threads \ {t} PROVE RequestOK(u, req[u], class', writer')
  <2>1. RequestOK(u, req[u], class, writer) /\ u # None
    BY SafetyAssumption DEF SafetyInv
  <2>2. CASE writer = u
    BY <2>1, <2>2
  <2>3. CASE writer # u
    <3>1. writer' # u
      BY <2>1, <2>3
    <3>2. LockOK(u, req[u], writer')
      BY <3>1 DEF LockOK
    <3>3. PendOK(u, req[u], class', writer')
      BY <2>1, <2>3, <3>1 DEF RequestOK, PendOK
    <3>4. AskedOK(req[u], class')
      <4> DEFINE p == req[u]
      <4>0. AskedOK(p, class) /\ p.todo \subseteq Domains
        BY <2>1 DEF RequestOK, SafetyInv, TablesOK, IsRequest
      <4> HIDE DEF p
      <4>1. \A d \in Domains : Written(p, class, d) => Written(p, class', d)
        BY DEF Written
      <4> QED
        BY <4>0, <4>1 DEF AskedOK, p
    <3>5. SyncOK(u, req[u], class', writer')
      BY <2>1, <2>3, <3>1 DEF RequestOK, SyncOK, SafetyInv, TablesOK, IsRequest
    <3> QED
      BY <2>1, <3>2, <3>3, <3>4, <3>5 DEF RequestOK
  <2> QED
    BY <2>2, <2>3
<1>4. \A u \in Threads : RequestOK(u, req'[u], class', writer')
  BY <1>2, <1>3
<1>5. \A u \in Threads : IsRequest(req'[u])
  BY <1>2 DEF SafetyInv, TablesOK
<1>6. writer' \in Threads \cup {None}
  BY DEF SafetyInv, TablesOK
<1> QED
  BY <1>2, <1>4, <1>5, <1>6 DEF SafetyInv, TablesOK

\* The fields of a request, and what it relies on.
LEMMA RequestFacts ==
  ASSUME SafetyInv, NEW t \in Threads
  PROVE  /\ IsRequest(req[t]) /\ RequestOK(t, req[t], class, writer)
         /\ req[t].todo \subseteq Domains /\ req[t].count \subseteq Domains
         /\ req[t].kind \in Kinds \cup {None}
         /\ req[t].pend \in [Domains -> Change \cup {None}]
         /\ req[t].seen \in [Domains -> Row \cup {None}]
         /\ req[t].answer \in [Domains -> Verdicts \cup {None}]
         /\ class \in [Domains -> Row \cup {None}] /\ cache \in [Domains -> Verdicts \cup {None}]
         /\ writer \in Threads \cup {None} /\ t # None
  BY SafetyAssumption DEF SafetyInv, TablesOK, IsRequest

\* What the session of a request would make of the rows.
LEMMA AppliedPend ==
  ASSUME SafetyInv, NEW t \in Threads, NEW d \in Domains
  PROVE  LET row == Applied(class[d], req[t].pend[d]) IN
         /\ IsRow(row)
         /\ row # None <=> Written(req[t], class, d)
         /\ req[t].pend[d] = None => row = class[d]
         /\ req[t].pend[d] # None /\ ~req[t].pend[d].new => row.over = (class[d].over \/ req[t].pend[d].over)
         /\ req[t].pend[d] # None /\ req[t].pend[d].new => row.over = req[t].pend[d].over
<1> DEFINE ch == req[t].pend[d]
           row == class[d]
<1>1. IsRow(row) /\ IsChange(ch)
  BY RequestFacts DEF IsRow, IsChange
<1>2. (ch # None /\ ch.new => ch.cat # None) /\ (ch # None /\ ~ch.new => row # None)
  BY RequestFacts DEF RequestOK, PendOK
<1>3. Written(req[t], class, d) <=> row # None \/ ch # None
  BY <1>2 DEF Written
<1> HIDE DEF ch, row
<1>4. Applied(row, ch) # None <=> row # None \/ ch # None
  BY <1>1, <1>2, AppliedFacts
<1>5. /\ IsRow(Applied(row, ch)) /\ (ch = None => Applied(row, ch) = row)
      /\ (ch # None /\ ~ch.new => Applied(row, ch).over = (row.over \/ ch.over))
      /\ (ch # None /\ ch.new => Applied(row, ch).over = ch.over)
  BY <1>1, <1>2, AppliedFacts
<1> QED
  BY <1>3, <1>4, <1>5 DEF ch, row

\* What a SELECT of the session returns.
LEMMA ViewFacts ==
  ASSUME SafetyInv, NEW t \in Threads, NEW d \in Domains
  PROVE  /\ IsRow(View(t)[d])
         /\ class[d] # None => View(t)[d] # None
         /\ writer # t \/ req[t].pend[d] = None => View(t)[d] = class[d]
         /\ writer = t => View(t)[d] = Applied(class[d], req[t].pend[d])
<1>1. View(t)[d] = IF writer = t THEN Applied(class[d], req[t].pend[d]) ELSE class[d]
  BY DEF View
<1>2. IsRow(class[d])
  BY RequestFacts DEF IsRow
<1> QED
  BY <1>1, <1>2, AppliedPend DEF Written

\* session.commit() and session.flush()
LEMMA CommitFacts ==
  ASSUME SafetyInv, NEW t \in Threads, Commits(t)
  PROVE  /\ class' \in [Domains -> Row \cup {None}]
         /\ writer' \in {writer, t, None} /\ writer' # t
         /\ writer' # writer \/ class' # class => writer \in {None, t}
         /\ \A d \in Domains : (class[d] # None => class'[d] # None)
                               /\ (Written(req[t], class, d) => class'[d] # None)
<1>1. class' = [d \in Domains |-> Applied(class[d], req[t].pend[d])]
  BY DEF Commits
<1>2. \A d \in Domains : class'[d] \in Row \cup {None} /\ (Written(req[t], class, d) => class'[d] # None)
  BY <1>1, AppliedPend DEF IsRow
<1>3. class' # class => Dirty(t)
  <2> SUFFICES ASSUME req[t].pend = Nothing PROVE class' = class
    BY DEF Dirty
  <2>1. \A d \in Domains : class'[d] = class[d]
    BY <1>1, AppliedPend, NothingFacts
  <2> QED
    BY <1>1, <2>1, RequestFacts
<1>4. writer' = IF writer = t THEN None ELSE writer
  BY DEF Commits
<1>5. t # None
  BY RequestFacts
<1>6. writer' # writer \/ class' # class => writer \in {None, t}
  BY <1>3, <1>4 DEF Commits, Free
<1> QED
  BY <1>1, <1>2, <1>4, <1>5, <1>6 DEF Written

\* A flush takes the lock exactly when there is something to write, and fails
\* where a row it inserts is there already.
LEMMA FlushFacts ==
  ASSUME SafetyInv, NEW t \in Threads, Flushes(t)
  PROVE  /\ writer' \in {writer, t} /\ (writer' # writer => writer \in {None, t})
         /\ req[t].pend = Nothing => writer' = writer
         /\ req[t].pend # Nothing => writer' = t
         /\ \A d \in Domains : writer' = t /\ req[t].pend[d] # None /\ req[t].pend[d].new => class[d] = None
<1>1. /\ Dirty(t) => Free(t) /\ ~Clash(t)
      /\ writer' = IF Dirty(t) THEN t ELSE writer
  BY DEF Flushes
<1>2. /\ writer' \in {writer, t} /\ (writer' # writer => writer \in {None, t})
      /\ req[t].pend = Nothing => writer' = writer
      /\ req[t].pend # Nothing => writer' = t
  BY <1>1 DEF Dirty, Free
<1>3. ASSUME NEW d \in Domains, writer' = t, req[t].pend[d] # None, req[t].pend[d].new
      PROVE  class[d] = None
  <2>1. CASE writer = t
    BY <1>3, <2>1, RequestFacts DEF RequestOK, PendOK
  <2>2. CASE writer # t
    <3>1. Dirty(t)
      BY <1>3, NothingFacts DEF Dirty
    <3> QED
      BY <1>1, <1>3, <2>2, <3>1 DEF Clash
  <2> QED
    BY <2>1, <2>2
<1> QED
  BY <1>2, <1>3

\* A request that has been answered holds nothing.
LEMMA Ends ==
  ASSUME SafetyInv, NEW t \in Threads, NEW pc \in {"ok", "error"}, NEW count \in SUBSET Domains, NEW hits,
         End(t, pc, count, hits), UNCHANGED queries,
         class' \in [Domains -> Row \cup {None}], cache' \in [Domains -> Verdicts \cup {None}],
         class' # class => writer \in {None, t},
         \A d \in Domains : class[d] # None => class'[d] # None,
         req[t].kind = "sync" => \A d \in count : class'[d] # None
  PROVE  SafetyInv'
<1> DEFINE r == [Rest EXCEPT !.kind = req[t].kind, !.pc = pc, !.count = count, !.hits = hits]
<1>1. Becomes(t, r) /\ writer' = IF writer = t THEN None ELSE writer
  BY DEF End, Becomes
<1>2. /\ r.kind = req[t].kind /\ r.pc = pc /\ r.cat = None /\ r.todo = {} /\ r.dom = None
      /\ r.seen = Nothing /\ r.pend = Nothing /\ r.answer = Nothing /\ r.count = count
  BY DEF Rest
<1>3. IsRequest(r)
  <2>1. pc \in Points /\ req[t].kind \in Kinds \cup {None}
    BY RequestFacts DEF Points, Ended
  <2> QED
    BY <2>1, NothingTypes DEF IsRequest, Rest
<1>4. writer' # t
  BY <1>1, RequestFacts
<1> HIDE DEF r
<1>5. RequestOK(t, r, class', writer')
  <2>1. KindOK(r) /\ LockOK(t, r, writer')
    BY <1>2, <1>4 DEF KindOK, LockOK, Network
  <2>2. PendOK(t, r, class', writer')
    BY <1>2, <1>4, NothingFacts DEF PendOK, Network
  <2>3. AskedOK(r, class')
    BY <1>2 DEF AskedOK, Network
  <2>4. SyncOK(t, r, class', writer')
    BY <1>2 DEF SyncOK
  <2> QED
    BY <2>1, <2>2, <2>3, <2>4 DEF RequestOK
<1> QED
  BY <1>1, <1>3, <1>5, OneRequest

\* An error answers the request and rolls its session back.
LEMMA Fails ==
  ASSUME SafetyInv, NEW t \in Threads, Fail(t), UNCHANGED <<queries, class, cache>>
  PROVE  SafetyInv'
<1>1. End(t, "error", {}, <<>>)
  BY DEF Fail
<1> QED
  BY <1>1, Ends, RequestFacts

-----------------------------------------------------------------------------
(* The passes over the queried domains.                                    *)

\* A step that leaves the rows, the lock and what is to be written alone.
LEMMA GoesOn ==
  ASSUME SafetyInv, NEW t \in Threads, NEW r, Becomes(t, r), IsRequest(r),
         UNCHANGED <<queries, class, writer>>, cache' \in [Domains -> Verdicts \cup {None}],
         RequestOK(t, r, class, writer)
  PROVE  SafetyInv'
  BY OneRequest, RequestFacts

\* Each domain without a row gets the change that inserts it.
LEMMA GetKeeps == ASSUME SafetyInv, NEW t \in Threads, Get(t) PROVE SafetyInv'
<1> DEFINE p == req[t]
           r == [p EXCEPT !.pend = Planned(t), !.seen = Seen(t, p.todo), !.pc = "flush"]
<1>1. Becomes(t, r) /\ UNCHANGED <<queries, class, writer, cache>> /\ p.pc = "get"
  BY DEF Get, dataVars
<1>2. IsRequest(p) /\ RequestOK(t, p, class, writer)
  BY RequestFacts
<1>3. writer # t /\ p.pend = Nothing /\ p.kind \in {"sync", "scan"}
  BY <1>1, <1>2 DEF RequestOK, LockOK, PendOK, KindOK, Network, Ended
<1>4. \A d \in Domains : View(t)[d] = class[d] /\ p.pend[d] = None /\ IsRow(class[d])
  BY <1>3, ViewFacts, NothingFacts, RequestFacts DEF IsRow
<1>5. ASSUME NEW d \in Domains
      PROVE  /\ IsChange(Planned(t)[d])
             /\ Planned(t)[d] = IF d \in p.todo THEN RuleChange(d, class[d]) ELSE None
  <2>1. Planned(t)[d] = IF d \in p.todo THEN Joined(None, RuleChange(d, class[d])) ELSE None
    BY <1>4 DEF Planned
  <2>2. IsChange(RuleChange(d, class[d])) /\ IsChange(None)
    BY <1>4, RuleChangeFacts DEF IsChange
  <2> QED
    BY <2>1, <2>2, JoinedFacts
<1>6. Planned(t) \in [Domains -> Change \cup {None}]
  BY <1>5 DEF Planned, IsChange
<1>7. Seen(t, p.todo) \in [Domains -> Row \cup {None}] /\ \A d \in p.todo : Seen(t, p.todo)[d] = class[d]
  BY <1>4, RequestFacts DEF Seen, IsRow
<1>8. IsRequest(r)
  BY <1>2, <1>6, <1>7 DEF IsRequest, Points
<1>9. /\ r.kind = p.kind /\ r.pc = "flush" /\ r.todo = p.todo /\ r.pend = Planned(t)
      /\ r.seen = Seen(t, p.todo) /\ r.answer = p.answer /\ r.count = p.count
  BY <1>2 DEF IsRequest
<1> HIDE DEF r
<1>10. KindOK(r) /\ LockOK(t, r, writer)
  BY <1>3, <1>9 DEF KindOK, LockOK, Network
<1>11. PendOK(t, r, class, writer)
  <2>1. ASSUME NEW d \in Domains, r.pend[d] # None
        PROVE  /\ r.pend[d].new => r.pend[d].cat # None
               /\ ~r.pend[d].new => class[d] # None
               /\ ~r.pend[d].over
               /\ ~r.pend[d].new => r.seen[d] # None /\ ~r.seen[d].over
    BY <2>1, <1>4, <1>5, <1>7, <1>9, RuleChangeFacts
  <2> QED
    BY <2>1, <1>3, <1>9 DEF PendOK, Network, Ended
<1>12. AskedOK(r, class)
  BY <1>1, <1>2, <1>9 DEF RequestOK, AskedOK, Network, Bulk
<1>13. SyncOK(t, r, class, writer)
  <2>1. ASSUME r.kind = "sync", NEW d \in r.count
        PROVE  class[d] # None \/ (r.pend[d] # None /\ r.pend[d].new)
    <3>1. d \in p.todo /\ d \in Domains
      BY <2>1, <1>1, <1>2, <1>9, RequestFacts DEF RequestOK, SyncOK
    <3> QED
      BY <3>1, <1>4, <1>5, <1>9, RuleChangeFacts
  <2> QED
    BY <2>1, <1>9 DEF SyncOK
<1> QED
  BY <1>1, <1>8, <1>10, <1>11, <1>12, <1>13, GoesOn, RequestFacts DEF RequestOK

\* With rows to insert, the session holds the lock from the flush on.
LEMMA FlushKeeps == ASSUME SafetyInv, NEW t \in Threads, Flush(t) PROVE SafetyInv'
<1> DEFINE p == req[t]
           r == [p EXCEPT !.pc = "ai"]
<1>1. Becomes(t, r) /\ UNCHANGED <<queries, class, cache>> /\ p.pc = "flush" /\ Flushes(t)
  BY DEF Flush, dataVars
<1>2. IsRequest(p) /\ RequestOK(t, p, class, writer)
  BY RequestFacts
<1>3. writer # t /\ p.kind \in {"sync", "scan"}
  BY <1>1, <1>2 DEF RequestOK, LockOK, KindOK, Network
<1>4. IsRequest(r)
  BY <1>2 DEF IsRequest, Points
<1>5. /\ r.kind = p.kind /\ r.pc = "ai" /\ r.todo = p.todo /\ r.pend = p.pend
      /\ r.seen = p.seen /\ r.answer = p.answer /\ r.count = p.count
  BY <1>2 DEF IsRequest
<1>6. /\ writer' \in {writer, t} /\ (writer' # writer => writer \in {None, t})
      /\ p.pend = Nothing => writer' = writer
      /\ p.pend # Nothing => writer' = t
      /\ \A d \in Domains : writer' = t /\ p.pend[d] # None /\ p.pend[d].new => class[d] = None
  BY <1>1, FlushFacts
<1> HIDE DEF r
<1>7. KindOK(r) /\ LockOK(t, r, writer')
  BY <1>3, <1>5 DEF KindOK, LockOK, Network, Bulk
<1>8. PendOK(t, r, class, writer')
  BY <1>1, <1>2, <1>5, <1>6 DEF RequestOK, PendOK, Network, Ended
<1>9. AskedOK(r, class)
  BY <1>1, <1>2, <1>5 DEF RequestOK, AskedOK, Network, Bulk
<1>10. SyncOK(t, r, class, writer')
  <2>1. ASSUME p.kind = "sync", NEW d \in p.count, class[d] = None
        PROVE  writer' = t /\ p.pend[d] # None /\ p.pend[d].new
    <3>1. p.pend[d] # None /\ p.pend[d].new /\ d \in Domains
      BY <2>1, <1>1, <1>2, RequestFacts DEF RequestOK, SyncOK
    <3> QED
      BY <3>1, <1>6, NothingFacts
  <2> QED
    BY <2>1, <1>5 DEF SyncOK
<1> QED
  BY <1>1, <1>4, <1>6, <1>7, <1>8, <1>9, <1>10, OneRequest, RequestFacts DEF RequestOK

LEMMA FlushFailsKeeps == ASSUME SafetyInv, NEW t \in Threads, FlushFails(t) PROVE SafetyInv'
  BY Fails DEF FlushFails, dataVars

LEMMA SkipAiKeeps == ASSUME SafetyInv, NEW t \in Threads, SkipAi(t) PROVE SafetyInv'
<1> DEFINE p == req[t]
           r == [p EXCEPT !.pc = AfterAi(p.kind)]
<1>1. Becomes(t, r) /\ UNCHANGED <<queries, class, writer, cache>> /\ p.pc = "ai"
  BY DEF SkipAi, dataVars
<1>2. IsRequest(p) /\ RequestOK(t, p, class, writer)
  BY RequestFacts
<1>3. p.kind \in Bulk
  BY <1>1, <1>2 DEF RequestOK, KindOK
<1>4. IsRequest(r)
  BY <1>2 DEF IsRequest, Points, AfterAi
<1>5. /\ r.kind = p.kind /\ r.pc = AfterAi(p.kind) /\ r.todo = p.todo /\ r.pend = p.pend
      /\ r.seen = p.seen /\ r.answer = p.answer /\ r.count = p.count
  BY <1>2 DEF IsRequest
<1> HIDE DEF r
<1>6. KindOK(r) /\ LockOK(t, r, writer)
  BY <1>1, <1>2, <1>3, <1>5 DEF RequestOK, KindOK, LockOK, Network, Bulk, AfterAi
<1>7. PendOK(t, r, class, writer)
  BY <1>1, <1>2, <1>5 DEF RequestOK, PendOK, Network, Ended, AfterAi
<1>8. AskedOK(r, class)
  BY <1>1, <1>2, <1>5 DEF RequestOK, AskedOK, Network, Bulk, AfterAi
<1>9. SyncOK(t, r, class, writer)
  BY <1>1, <1>2, <1>5 DEF RequestOK, SyncOK, AfterAi
<1> QED
  BY <1>1, <1>4, <1>6, <1>7, <1>8, <1>9, GoesOn, RequestFacts DEF RequestOK

\* What is asked about are domains.
LEMMA QueriedFacts == ASSUME SafetyInv PROVE Queried \subseteq Domains
<1>1. \A q \in ToSet(queries) : q \in Query
  BY DEF SafetyInv, TablesOK, ToSet
<1> QED
  BY <1>1 DEF Queried, Query

\* A sync counts what it is going to insert.
LEMMA ListKeeps == ASSUME SafetyInv, NEW t \in Threads, List(t) PROVE SafetyInv'
<1> DEFINE p == req[t]
           todo == {d \in Queried : class[d] = None}
           r == [p EXCEPT !.todo = todo, !.count = todo, !.pc = IF todo = {} THEN "ai" ELSE "get"]
<1>1. Becomes(t, r) /\ UNCHANGED <<queries, class, writer, cache>> /\ p.pc = "list"
  BY DEF List, dataVars
<1>2. IsRequest(p) /\ RequestOK(t, p, class, writer)
  BY RequestFacts
<1>3. writer # t /\ p.kind \in {"sync", "scan"} /\ p.pend = Nothing
  BY <1>1, <1>2 DEF RequestOK, LockOK, KindOK, PendOK, Network
<1>4. todo \subseteq Domains
  BY QueriedFacts
<1> HIDE DEF todo
<1>5. IsRequest(r)
  BY <1>2, <1>4 DEF IsRequest, Points
<1>6. /\ r.kind = p.kind /\ r.pc = (IF todo = {} THEN "ai" ELSE "get") /\ r.todo = todo /\ r.pend = p.pend
      /\ r.seen = p.seen /\ r.answer = p.answer /\ r.count = todo
  BY <1>2 DEF IsRequest
<1> HIDE DEF r
<1>7. KindOK(r) /\ LockOK(t, r, writer)
  BY <1>3, <1>6 DEF KindOK, LockOK, Network, Bulk
<1>8. PendOK(t, r, class, writer)
  BY <1>3, <1>6, NothingFacts DEF PendOK, Network
<1>9. AskedOK(r, class)
  BY <1>1, <1>2, <1>6 DEF RequestOK, AskedOK, Network, Bulk
<1>10. SyncOK(t, r, class, writer)
  BY <1>6 DEF SyncOK
<1> QED
  BY <1>1, <1>5, <1>7, <1>8, <1>9, <1>10, GoesOn, RequestFacts DEF RequestOK

\* What a session has still to write is never an override in a pass, and a
\* change of a row there is one of a row that is no override.
LEMMA PassPend ==
  ASSUME SafetyInv, NEW t \in Threads, req[t].kind # "override", NEW d \in Domains, req[t].pend[d] # None
  PROVE  /\ req[t].pend[d] \in Change /\ ~req[t].pend[d].over
         /\ req[t].pend[d].new => req[t].pend[d].cat # None
         /\ ~req[t].pend[d].new => class[d] # None
         /\ writer = t /\ req[t].pend[d].new => class[d] = None
         /\ ~req[t].pend[d].new /\ req[t].pend[d].cat # None => req[t].seen[d] # None /\ ~req[t].seen[d].over
  BY RequestFacts DEF RequestOK, PendOK

\* A pass never takes an overridden domain among its candidates.
LEMMA CandidatesKeeps == ASSUME SafetyInv, NEW t \in Threads, Candidates(t) PROVE SafetyInv'
<1> DEFINE p == req[t]
           open == {d \in Queried : \/ View(t)[d] = None
                                    \/ View(t)[d].cat = "UNCATEGORIZED" /\ ~View(t)[d].over}
<1>1. UNCHANGED <<queries, class, writer, cache>> /\ p.pc = "ai"
  BY DEF Candidates, dataVars
<1>2. PICK S \in SUBSET open : Becomes(t, [p EXCEPT !.todo = S, !.pc = "regard"])
  BY DEF Candidates, kSubset
<1> DEFINE r == [p EXCEPT !.todo = S, !.pc = "regard"]
<1>3. IsRequest(p) /\ RequestOK(t, p, class, writer)
  BY RequestFacts
<1>4. p.kind \in Bulk
  BY <1>1, <1>3 DEF RequestOK, KindOK
<1>5. open \subseteq Domains
  BY QueriedFacts
<1>6. ASSUME writer = t, NEW d \in open, class[d] # None PROVE ~class[d].over
  <2>1. d \in Domains /\ View(t)[d] # None /\ ~View(t)[d].over
    BY <1>5, <1>6, ViewFacts
  <2>2. CASE p.pend[d] = None
    BY <1>6, <2>1, <2>2, ViewFacts
  <2>3. CASE p.pend[d] # None
    <3>1. ~p.pend[d].new
      BY <1>4, <1>6, <2>1, <2>3, PassPend DEF Bulk
    <3> QED
      BY <1>6, <2>1, <2>3, <3>1, ViewFacts, AppliedPend
  <2> QED
    BY <2>2, <2>3
<1> HIDE DEF open
<1>7. IsRequest(r)
  BY <1>3, <1>5 DEF IsRequest, Points
<1>8. /\ r.kind = p.kind /\ r.pc = "regard" /\ r.todo = S /\ r.pend = p.pend
      /\ r.seen = p.seen /\ r.answer = p.answer /\ r.count = p.count
  BY <1>3 DEF IsRequest
<1>9. Becomes(t, r)
  BY <1>2
<1> HIDE DEF r
<1>10. KindOK(r) /\ LockOK(t, r, writer)
  BY <1>4, <1>8 DEF KindOK, LockOK, Network, Bulk
<1>11. PendOK(t, r, class, writer)
  BY <1>1, <1>3, <1>6, <1>8 DEF RequestOK, PendOK, Network, Ended
<1>12. AskedOK(r, class)
  BY <1>1, <1>3, <1>8 DEF RequestOK, AskedOK, Network, Bulk
<1>13. SyncOK(t, r, class, writer)
  BY <1>1, <1>3, <1>8 DEF RequestOK, SyncOK
<1> QED
  BY <1>1, <1>7, <1>9, <1>10, <1>11, <1>12, <1>13, GoesOn, RequestFacts DEF RequestOK

\* What a pass plans for one of its domains when the rules have been asked.
LEMMA RegardPlans ==
  ASSUME SafetyInv, NEW t \in Threads, req[t].pc = "regard", NEW d \in req[t].todo
  PROVE  LET ch == Planned(t)[d]
             row == View(t)[d]
         IN  /\ IsChange(ch) /\ IsRow(row)
             /\ row = None => ch # None /\ ch.new
             /\ req[t].pend[d] # None => ch # None /\ ch.new = req[t].pend[d].new
             /\ ch # None => /\ ch.new => ch.cat # None
                             /\ ~ch.new => class[d] # None
                             /\ writer = t /\ ch.new => class[d] = None
                             /\ ~ch.over
                             /\ ~ch.new /\ ch.cat # None => row # None /\ ~row.over
<1> DEFINE old == req[t].pend[d]
           row == View(t)[d]
           rule == RuleChange(d, row)
<1>1. d \in Domains /\ req[t].kind \in Bulk
  BY RequestFacts DEF RequestOK, KindOK
<1>2. IsRow(row) /\ IsChange(old) /\ IsRow(class[d])
  BY <1>1, ViewFacts, RequestFacts DEF IsRow, IsChange
<1>3. Planned(t)[d] = Joined(old, rule)
  BY <1>1 DEF Planned
<1>4. /\ IsChange(rule) /\ (row = None => rule # None)
      /\ rule # None => /\ rule.new <=> row = None
                        /\ rule.new => rule.cat # None
                        /\ ~rule.over /\ (~rule.new => ~row.over)
  BY <1>1, <1>2, RuleChangeFacts
<1>5. CASE old = None
  <2>1. row = class[d] /\ Planned(t)[d] = rule
    BY <1>1, <1>2, <1>3, <1>4, <1>5, ViewFacts, JoinedFacts
  <2> QED
    BY <1>2, <1>4, <1>5, <2>1
<1>6. CASE old # None
  <2>1. writer = t
    BY <1>1, <1>6, RequestFacts, NothingFacts DEF RequestOK, PendOK
  <2>2. /\ ~old.over /\ (old.new => old.cat # None) /\ (~old.new => class[d] # None)
        /\ old.new => class[d] = None
    BY <1>1, <1>6, <2>1, PassPend DEF Bulk
  <2>3. row = Applied(class[d], old)
    BY <1>1, <2>1, ViewFacts
  <2>4. row # None
    BY <1>1, <1>6, <2>2, <2>3, AppliedPend DEF Written
  <2>5. class[d] # None => ~class[d].over
    BY <1>1, <2>1, RequestFacts DEF RequestOK, PendOK
  <2>6. ~row.over
    BY <1>1, <1>6, <2>2, <2>3, <2>5, AppliedPend
  <2> DEFINE both == Joined(old, rule)
  <2>7. CASE rule = None
    <3>1. both = old
      BY <1>2, <1>4, <2>7, JoinedFacts
    <3> QED
      BY <1>2, <1>3, <1>6, <2>2, <2>4, <2>6, <3>1
  <2>8. CASE rule # None
    <3>1. /\ IsChange(both) /\ both # None /\ both.new = old.new /\ both.over = (old.over \/ rule.over)
          /\ both.cat = IF rule.cat = None THEN old.cat ELSE rule.cat
      <4> HIDE DEF old, rule
      <4> QED
        BY <1>2, <1>4, <1>6, <2>8, JoinedFacts
    <3> QED
      BY <1>2, <1>3, <1>4, <1>6, <2>2, <2>4, <2>6, <2>8, <3>1
  <2> QED
    BY <2>7, <2>8
<1> QED
  BY <1>5, <1>6

\* The domains that are left for the model have a row or an INSERT that waits.
LEMMA RegardKeeps == ASSUME SafetyInv, NEW t \in Threads, Regard(t) PROVE SafetyInv'
<1> DEFINE p == req[t]
           needsAi == {d \in p.todo : /\ View(t)[d] = None \/ ~View(t)[d].over
                                      /\ Static[d] = "UNCATEGORIZED"}
           r == [p EXCEPT !.pend = Planned(t), !.seen = Seen(t, p.todo), !.todo = needsAi, !.pc = "commit"]
<1>1. Becomes(t, r) /\ UNCHANGED <<queries, class, writer, cache>> /\ p.pc = "regard"
  BY DEF Regard, dataVars
<1>2. IsRequest(p) /\ RequestOK(t, p, class, writer)
  BY RequestFacts
<1>3. p.kind \in Bulk /\ p.todo \subseteq Domains /\ needsAi \subseteq p.todo
  BY <1>1, <1>2, RequestFacts DEF RequestOK, KindOK
<1> HIDE DEF needsAi
<1>4. \A d \in Domains : d \notin p.todo => Planned(t)[d] = p.pend[d] /\ Seen(t, p.todo)[d] = p.seen[d]
  BY DEF Planned, Seen
<1>5. \A d \in p.todo : Seen(t, p.todo)[d] = View(t)[d]
  BY <1>3 DEF Seen
<1>6. Planned(t) \in [Domains -> Change \cup {None}]
  <2>1. \A d \in Domains : Planned(t)[d] \in Change \cup {None}
    BY <1>1, <1>4, RegardPlans, RequestFacts DEF IsChange
  <2> QED
    BY <2>1 DEF Planned
<1>7. Seen(t, p.todo) \in [Domains -> Row \cup {None}]
  <2>1. \A d \in Domains : Seen(t, p.todo)[d] \in Row \cup {None}
    BY <1>4, <1>5, ViewFacts, RequestFacts DEF IsRow
  <2> QED
    BY <2>1 DEF Seen
<1>8. IsRequest(r)
  BY <1>2, <1>3, <1>6, <1>7 DEF IsRequest, Points
<1>9. /\ r.kind = p.kind /\ r.pc = "commit" /\ r.todo = needsAi /\ r.pend = Planned(t)
      /\ r.seen = Seen(t, p.todo) /\ r.answer = p.answer /\ r.count = p.count
  BY <1>2 DEF IsRequest
<1> HIDE DEF r
<1>10. KindOK(r) /\ LockOK(t, r, writer)
  BY <1>1, <1>2, <1>3, <1>9 DEF RequestOK, KindOK, LockOK, Network, Bulk
<1>11. PendOK(t, r, class, writer)
  <2>1. ASSUME NEW d \in Domains, r.pend[d] # None
        PROVE  /\ r.pend[d].new => r.pend[d].cat # None
               /\ ~r.pend[d].new => class[d] # None
               /\ writer = t /\ r.pend[d].new => class[d] = None
               /\ ~r.pend[d].over
               /\ ~r.pend[d].new /\ r.pend[d].cat # None => r.seen[d] # None /\ ~r.seen[d].over
    <3>1. CASE d \in p.todo
      BY <1>1, <1>5, <1>9, <2>1, <3>1, RegardPlans
    <3>2. CASE d \notin p.todo
      BY <1>3, <1>4, <1>9, <2>1, <3>2, PassPend DEF Bulk
    <3> QED
      BY <3>1, <3>2
  <2> QED
    BY <2>1, <1>9 DEF PendOK, Network, Ended
<1>12. AskedOK(r, class)
  <2>1. ASSUME NEW d \in needsAi PROVE Written(r, class, d)
    <3>1. d \in p.todo /\ d \in Domains
      BY <1>3
    <3>2. CASE View(t)[d] = None
      BY <1>1, <1>9, <3>1, <3>2, RegardPlans DEF Written
    <3>3. CASE View(t)[d] # None
      <4>1. Written(p, class, d)
        BY <3>1, <3>3, ViewFacts, AppliedPend DEF Written
      <4> QED
        BY <1>1, <1>9, <3>1, <4>1, RegardPlans DEF Written
    <3> QED
      BY <3>2, <3>3
  <2> QED
    BY <1>1, <1>2, <1>9, <2>1 DEF RequestOK, AskedOK, Network, Bulk
<1>13. SyncOK(t, r, class, writer)
  <2>1. ASSUME p.kind = "sync", NEW d \in p.count, class[d] = None
        PROVE  writer = t /\ r.pend[d] # None /\ r.pend[d].new
    <3>1. writer = t /\ p.pend[d] # None /\ p.pend[d].new /\ d \in Domains
      BY <2>1, <1>1, <1>2, RequestFacts DEF RequestOK, SyncOK
    <3>2. CASE d \in p.todo
      BY <1>1, <1>9, <3>1, <3>2, RegardPlans
    <3>3. CASE d \notin p.todo
      BY <1>4, <1>9, <3>1, <3>3
    <3> QED
      BY <3>1, <3>2, <3>3
  <2> QED
    BY <2>1, <1>9 DEF SyncOK
<1> QED
  BY <1>1, <1>8, <1>10, <1>11, <1>12, <1>13, GoesOn, RequestFacts DEF RequestOK

\* A commit within a pass: the session starts anew.
LEMMA Committed ==
  ASSUME SafetyInv, NEW t \in Threads, req[t].pc \in {"commit", "commit2"}, Commits(t),
         NEW pc \in {"cached", AfterAi(req[t].kind)}, Becomes(t, [Clean(t) EXCEPT !.pc = pc]),
         pc = "cached" => req[t].pc = "commit",
         UNCHANGED <<queries, cache>>
  PROVE  SafetyInv'
<1> DEFINE p == req[t]
           r == [Clean(t) EXCEPT !.pc = pc]
<1>1. IsRequest(p) /\ RequestOK(t, p, class, writer)
  BY RequestFacts
<1>2. p.kind \in Bulk
  BY <1>1 DEF RequestOK, KindOK
<1>3. IsRequest(r)
  BY <1>1, NothingFacts DEF IsRequest, Points, Clean, AfterAi, Network
<1>4. /\ r.kind = p.kind /\ r.pc = pc /\ r.todo = p.todo /\ r.pend = Nothing
      /\ r.seen = Nothing /\ r.answer = p.answer /\ r.count = p.count
  BY <1>1 DEF IsRequest, Clean
<1> HIDE DEF r
<1>5. /\ class' \in [Domains -> Row \cup {None}]
      /\ writer' \in {writer, t, None} /\ writer' # t
      /\ writer' # writer \/ class' # class => writer \in {None, t}
      /\ \A d \in Domains : (class[d] # None => class'[d] # None)
                            /\ (Written(p, class, d) => class'[d] # None)
  BY CommitFacts
<1>6. KindOK(r) /\ LockOK(t, r, writer')
  BY <1>2, <1>4, <1>5 DEF KindOK, LockOK, Network, Bulk, AfterAi
<1>7. PendOK(t, r, class', writer')
  BY <1>4, <1>5, NothingFacts DEF PendOK, AfterAi
<1>8. AskedOK(r, class')
  <2>1. CASE pc = "cached"
    <3>1. \A d \in p.todo : d \in Domains /\ class'[d] # None
      BY <1>1, <1>2, <1>5, <2>1, RequestFacts DEF RequestOK, AskedOK
    <3>2. \A d \in Domains : r.answer[d] = None
      BY <1>1, <1>4, <2>1, NothingFacts DEF RequestOK, AskedOK
    <3> QED
      BY <1>2, <1>4, <2>1, <3>1, <3>2 DEF AskedOK, Network, Bulk
  <2>2. CASE pc # "cached"
    BY <1>2, <1>4, <2>2 DEF AskedOK, Network, Bulk, AfterAi
  <2> QED
    BY <2>1, <2>2
<1>9. SyncOK(t, r, class', writer')
  <2>1. ASSUME p.kind = "sync", NEW d \in p.count PROVE class'[d] # None
    <3>1. Written(p, class, d) /\ d \in Domains
      BY <1>1, <2>1, RequestFacts DEF RequestOK, SyncOK, Written
    <3> QED
      BY <1>5, <3>1
  <2> QED
    BY <1>4, <2>1 DEF SyncOK, AfterAi
<1> QED
  BY <1>3, <1>4, <1>5, <1>6, <1>7, <1>8, <1>9, OneRequest, RequestFacts DEF RequestOK, r

LEMMA CommitRulesKeeps == ASSUME SafetyInv, NEW t \in Threads, CommitRules(t) PROVE SafetyInv'
<1> DEFINE pc == IF req[t].todo = {} THEN AfterAi(req[t].kind) ELSE "cached"
<1>1. /\ req[t].pc = "commit" /\ Commits(t) /\ Becomes(t, [Clean(t) EXCEPT !.pc = pc])
      /\ UNCHANGED <<queries, cache>> /\ pc \in {"cached", AfterAi(req[t].kind)}
  BY DEF CommitRules, aiVars
<1> HIDE DEF pc
<1> QED
  BY <1>1, Committed

LEMMA CommitVerdictsKeeps == ASSUME SafetyInv, NEW t \in Threads, CommitVerdicts(t) PROVE SafetyInv'
<1> DEFINE pc == AfterAi(req[t].kind)
<1>1. /\ req[t].pc = "commit2" /\ Commits(t) /\ Becomes(t, [Clean(t) EXCEPT !.pc = pc])
      /\ UNCHANGED <<queries, cache>> /\ pc \in {"cached", AfterAi(req[t].kind)} /\ pc # "cached"
  BY DEF CommitVerdicts, aiVars, AfterAi
<1> HIDE DEF pc
<1> QED
  BY <1>1, Committed

\* A pass goes on after its AI pass failed; what it counted is stored.
LEMMA AiFailsKeeps ==
  ASSUME SafetyInv, NEW t \in Threads, AiFails(t), UNCHANGED <<queries, class, cache>>,
         req[t].kind = "sync" => \A d \in req[t].count : class[d] # None
  PROVE  SafetyInv'
<1> DEFINE p == req[t]
           r == [Rest EXCEPT !.kind = p.kind, !.count = p.count, !.pc = AfterAi(p.kind)]
<1>1. CASE p.kind \notin {"sync", "scan"}
  BY <1>1, Fails DEF AiFails
<1>2. CASE p.kind \in {"sync", "scan"}
  <2>1. Becomes(t, r) /\ writer' = IF writer = t THEN None ELSE writer
    BY <1>2 DEF AiFails
  <2>2. /\ r.kind = p.kind /\ r.pc = AfterAi(p.kind) /\ r.todo = {} /\ r.pend = Nothing
        /\ r.seen = Nothing /\ r.answer = Nothing /\ r.count = p.count
    BY DEF Rest
  <2>3. IsRequest(r)
    <3>1. AfterAi(p.kind) \in Points
      BY DEF AfterAi, Points
    <3>2. p.kind \in Kinds \cup {None} /\ p.count \in SUBSET Domains
      BY RequestFacts
    <3> QED
      BY <3>1, <3>2, NothingTypes DEF IsRequest, Rest
  <2>4. writer' # t
    BY <2>1, RequestFacts
  <2> HIDE DEF r
  <2>5. KindOK(r) /\ LockOK(t, r, writer')
    BY <1>2, <2>2, <2>4 DEF KindOK, LockOK, Network, AfterAi
  <2>6. PendOK(t, r, class, writer')
    BY <2>2, <2>4, NothingFacts DEF PendOK, AfterAi
  <2>7. AskedOK(r, class)
    BY <1>2, <2>2 DEF AskedOK, Network, Bulk, AfterAi
  <2>8. SyncOK(t, r, class, writer')
    BY <2>2 DEF SyncOK, AfterAi
  <2> QED
    BY <2>1, <2>3, <2>5, <2>6, <2>7, <2>8, OneRequest, RequestFacts DEF RequestOK
<1> QED
  BY <1>1, <1>2

\* A session with the lock cannot fail to commit: what was flushed stays.
LEMMA CommitFailsKeeps == ASSUME SafetyInv, NEW t \in Threads, CommitFails(t) PROVE SafetyInv'
<1>1. req[t].pc \in {"commit", "commit2"} /\ Raises(t) /\ AiFails(t) /\ UNCHANGED <<queries, class, cache>>
  BY DEF CommitFails, dataVars
<1>2. writer # t
  BY <1>1 DEF Raises, Busy, Free, Clash
<1>3. req[t].kind = "sync" => \A d \in req[t].count : class[d] # None
  BY <1>1, <1>2, RequestFacts DEF RequestOK, SyncOK
<1> QED
  BY <1>1, <1>3, AiFailsKeeps

\* What a sync has counted was committed before the model was asked.
LEMMA SaveFailsKeeps == ASSUME SafetyInv, NEW t \in Threads, SaveFails(t) PROVE SafetyInv'
<1>1. req[t].pc = "save" /\ AiFails(t) /\ UNCHANGED <<queries, class, cache>>
  BY DEF SaveFails, dataVars
<1>2. req[t].kind = "sync" => \A d \in req[t].count : class[d] # None
  BY <1>1, RequestFacts DEF RequestOK, SyncOK
<1> QED
  BY <1>1, <1>2, AiFailsKeeps

\* A verdict joined to a row the session knows, no override by what it knows.
LEMMA VerdictJoins ==
  ASSUME NEW row \in Row, NEW verdict \in Verdicts, NEW old, IsChange(old),
         old # None => ~old.over /\ (old.new => old.cat # None)
  PROVE  LET ch == AiChange(row, verdict)
             both == Joined(old, ch)
         IN  /\ IsChange(ch) /\ IsChange(both) /\ (ch = None => both = old)
             /\ ch # None => ~row.over
             /\ both # None => /\ both.new => both.cat # None
                               /\ ~both.over
                               /\ both.new <=> old # None /\ old.new
             /\ old # None => both # None
<1> DEFINE ch == AiChange(row, verdict)
<1>1. IsChange(ch) /\ (ch # None => ~ch.new /\ ~ch.over /\ ~row.over)
  BY AiChangeFacts
<1> HIDE DEF ch
<1>2. CASE ch = None
  <2>1. Joined(old, ch) = old
    BY <1>1, <1>2, JoinedFacts
  <2> QED
    BY <1>1, <1>2, <2>1 DEF ch
<1>3. CASE ch # None /\ old = None
  <2>1. Joined(old, ch) = ch
    BY <1>1, <1>3, JoinedFacts
  <2> QED
    BY <1>1, <1>3, <2>1 DEF ch
<1>4. CASE ch # None /\ old # None
  <2> DEFINE both == Joined(old, ch)
  <2>1. /\ IsChange(both) /\ both # None /\ both.new = old.new /\ both.over = (old.over \/ ch.over)
        /\ both.cat = IF ch.cat = None THEN old.cat ELSE ch.cat
    BY <1>1, <1>4, JoinedFacts
  <2> HIDE DEF both
  <2>2. /\ both.new => both.cat # None
        /\ ~both.over
        /\ both.new <=> old # None /\ old.new
    BY <1>1, <1>4, <2>1
  <2> QED
    BY <1>1, <1>4, <2>1, <2>2 DEF ch, both
<1> QED
  BY <1>2, <1>3, <1>4

\* A verdict is joined to a row that is there or to its own INSERT.
LEMMA ReadBackKeeps == ASSUME SafetyInv, NEW t \in Threads, ReadBack(t) PROVE SafetyInv'
<1> DEFINE p == req[t]
           single == p.kind = "aiclassify"
           answered == {d \in Domains : p.answer[d] # None}
           rows == IF single THEN p.seen ELSE Seen(t, answered)
           written == [d \in Domains |-> IF d \in answered THEN AiChange(rows[d], p.answer[d]) ELSE None]
           pend == [d \in Domains |-> Joined(p.pend[d], written[d])]
           pc == IF single THEN "final" ELSE IF written = Nothing THEN AfterAi(p.kind) ELSE "commit2"
           r == [p EXCEPT !.seen = rows, !.pend = pend, !.pc = pc]
<1>1. p.pc = "read" /\ UNCHANGED <<queries, class, writer, cache>>
  BY DEF ReadBack, dataVars
<1>2. IsRequest(p) /\ RequestOK(t, p, class, writer)
  BY RequestFacts
<1>3. Becomes(t, r)
  <2>1. [p EXCEPT !.seen = rows, !.pend = [d \in Domains |-> Joined(@[d], written[d])], !.pc = pc] = r
    BY <1>2 DEF IsRequest
  <2> QED
    BY <2>1 DEF ReadBack
<1>4. p.kind \in Bulk \cup {"aiclassify"} /\ (~single => p.kind \in Bulk /\ writer # t /\ p.pend = Nothing)
  BY <1>1, <1>2 DEF RequestOK, KindOK, LockOK, PendOK, Bulk, Network
<1>5. ASSUME NEW d \in answered
      PROVE  rows[d] \in Row /\ p.answer[d] \in Verdicts /\ (~single => class[d] # None)
  <2>1. p.answer[d] \in Verdicts /\ d \in Domains
    BY RequestFacts
  <2>2. CASE single
    BY <1>1, <1>2, <2>1, <2>2, RequestFacts DEF RequestOK, AskedOK
  <2>3. CASE ~single
    <3>1. rows[d] = class[d]
      BY <1>4, <2>1, <2>3, ViewFacts DEF Seen
    <3> QED
      BY <1>1, <1>2, <1>4, <2>1, <2>3, <3>1, RequestFacts DEF RequestOK, AskedOK
  <2> QED
    BY <2>2, <2>3
<1>6. rows \in [Domains -> Row \cup {None}]
  <2>1. \A d \in Domains : Seen(t, answered)[d] \in Row \cup {None}
    BY ViewFacts, RequestFacts DEF Seen, IsRow
  <2>2. Seen(t, answered) \in [Domains -> Row \cup {None}]
    BY <2>1 DEF Seen
  <2> QED
    BY <2>2, RequestFacts
<1>7. \A d \in Domains \ answered : pend[d] = p.pend[d] /\ rows[d] = p.seen[d]
  BY DEF Joined, Seen
<1>8. ASSUME NEW d \in answered
      PROVE  /\ IsChange(pend[d])
             /\ pend[d] # None => /\ pend[d].new => pend[d].cat # None
                                  /\ ~pend[d].new => class[d] # None
                                  /\ writer = t /\ pend[d].new => class[d] = None
                                  /\ ~pend[d].over
                                  /\ ~pend[d].new /\ pend[d].cat # None => rows[d] # None /\ ~rows[d].over
  <2> DEFINE old == p.pend[d]
             ch == AiChange(rows[d], p.answer[d])
  <2>1. d \in Domains /\ IsChange(old) /\ pend[d] = Joined(old, ch)
    BY RequestFacts DEF IsChange
  <2>2. old # None => /\ ~old.over /\ (old.new => old.cat # None) /\ (~old.new => class[d] # None)
                      /\ writer = t /\ old.new => class[d] = None
                      /\ ~old.new /\ old.cat # None => p.seen[d] # None /\ ~p.seen[d].over
    BY <1>4, <2>1, PassPend DEF Bulk
  <2>3. old = None => class[d] # None
    BY <1>1, <1>2, <1>4, <1>5, <2>1 DEF RequestOK, AskedOK, Written
  <2>4. ~single => old = None
    BY <1>4, <2>1, NothingFacts
  <2>5. rows[d] \in Row /\ p.answer[d] \in Verdicts /\ rows[d] # None
    BY <1>5, SafetyAssumption
  <2>6. single => rows[d] = p.seen[d]
    OBVIOUS
  <2> DEFINE row == rows[d]
             verdict == p.answer[d]
             both == Joined(old, AiChange(row, verdict))
  <2>7. row \in Row /\ verdict \in Verdicts /\ (old # None => ~old.over /\ (old.new => old.cat # None))
    BY <2>2, <2>5
  <2>8. pend[d] = both
    BY <2>1
  <2> HIDE DEF row, verdict, old, rows, pend
  <2>9. /\ IsChange(both)
        /\ AiChange(row, verdict) = None => both = old
        /\ AiChange(row, verdict) # None => ~row.over
        /\ both # None => /\ both.new => both.cat # None
                          /\ ~both.over
                          /\ both.new <=> old # None /\ old.new
        /\ old # None => both # None
    BY <2>1, <2>7, VerdictJoins
  <2>10. both # None /\ ~both.new => class[d] # None
    BY <2>2, <2>3, <2>9
  <2>11. both # None /\ writer = t /\ both.new => class[d] = None
    BY <2>2, <2>9
  <2>12. both # None /\ ~both.new /\ both.cat # None => ~row.over
    BY <2>2, <2>4, <2>6, <2>9 DEF row
  <2> QED
    BY <2>5, <2>8, <2>9, <2>10, <2>11, <2>12 DEF row
<1>9. pend \in [Domains -> Change \cup {None}]
  <2>1. ASSUME NEW d \in Domains PROVE IsChange(pend[d])
    <3>1. IsChange(p.pend[d])
      BY RequestFacts DEF IsChange
    <3> HIDE DEF pend, rows, answered
    <3> QED
      BY <1>7, <1>8, <3>1
  <2> QED
    BY <2>1 DEF IsChange
<1>10. pc \in {"final", "commit2", AfterAi(p.kind)} /\ (single <=> pc = "final" /\ single)
  OBVIOUS
<1> HIDE DEF answered, written, rows, pend
<1>11. IsRequest(r)
  <2>1. pc \in Points
    BY DEF Points, AfterAi
  <2> HIDE DEF pc
  <2> QED
    BY <1>2, <1>6, <1>9, <2>1 DEF IsRequest
<1>12. /\ r.kind = p.kind /\ r.pc = pc /\ r.todo = p.todo /\ r.pend = pend
       /\ r.seen = rows /\ r.answer = p.answer /\ r.count = p.count
  BY <1>2 DEF IsRequest
<1> HIDE DEF r
<1>13. KindOK(r) /\ LockOK(t, r, writer)
  BY <1>4, <1>12 DEF KindOK, LockOK, Network, Bulk, AfterAi
<1>14. PendOK(t, r, class, writer)
  <2>1. ASSUME NEW d \in Domains, r.pend[d] # None
        PROVE  /\ r.pend[d].new => r.pend[d].cat # None
               /\ ~r.pend[d].new => class[d] # None
               /\ writer = t /\ r.pend[d].new => class[d] = None
               /\ ~r.pend[d].over
               /\ ~r.pend[d].new /\ r.pend[d].cat # None => r.seen[d] # None /\ ~r.seen[d].over
    <3>1. CASE d \in answered
      BY <1>8, <1>12, <2>1, <3>1
    <3>2. CASE d \notin answered
      BY <1>4, <1>7, <1>12, <2>1, <3>2, PassPend DEF Bulk
    <3> QED
      BY <3>1, <3>2
  <2> QED
    BY <2>1, <1>12 DEF PendOK, Network, Ended, AfterAi
<1>15. AskedOK(r, class)
  BY <1>4, <1>12 DEF AskedOK, Network, Bulk, AfterAi
<1>16. SyncOK(t, r, class, writer)
  BY <1>1, <1>2, <1>4, <1>12 DEF RequestOK, SyncOK, AfterAi
<1> QED
  BY <1>1, <1>3, <1>11, <1>13, <1>14, <1>15, <1>16, GoesOn, RequestFacts DEF RequestOK

LEMMA PassKeeps == ASSUME SafetyInv, NEW t \in Threads, Pass(t) PROVE SafetyInv'
<1>1. CASE List(t)          BY <1>1, ListKeeps
<1>2. CASE Get(t)           BY <1>2, GetKeeps
<1>3. CASE Flush(t)         BY <1>3, FlushKeeps
<1>4. CASE FlushFails(t)    BY <1>4, FlushFailsKeeps
<1>5. CASE SkipAi(t)        BY <1>5, SkipAiKeeps
<1>6. CASE Candidates(t)    BY <1>6, CandidatesKeeps
<1>7. CASE Regard(t)        BY <1>7, RegardKeeps
<1>8. CASE CommitRules(t)   BY <1>8, CommitRulesKeeps
<1>9. CASE CommitFails(t)   BY <1>9, CommitFailsKeeps
<1>10. CASE ReadBack(t)     BY <1>10, ReadBackKeeps
<1>11. CASE CommitVerdicts(t) BY <1>11, CommitVerdictsKeeps
<1> QED
  BY <1>1, <1>2, <1>3, <1>4, <1>5, <1>6, <1>7, <1>8, <1>9, <1>10, <1>11 DEF Pass

-----------------------------------------------------------------------------
(* One domain.                                                             *)

\* The row a single request is about, with its change.
LEMMA LookKeeps == ASSUME SafetyInv, NEW t \in Threads, Look(t) PROVE SafetyInv'
<1> DEFINE p == req[t]
           d == p.dom
           row == class[d]
           manual == p.kind = "override"
           change == IF manual THEN OverrideChange(row, p.cat) ELSE RuleChange(d, row)
           touched == [new |-> FALSE, cat |-> None, over |-> FALSE]
           next == IF manual THEN "final" ELSE "flushone"
<1>1. p.pc = "look" /\ UNCHANGED <<queries, class, writer, cache>>
  BY DEF Look, dataVars
<1>2. PICK ch \in {change} \cup (IF change = touched THEN {None} ELSE {}) :
        Becomes(t, [p EXCEPT !.pend[d] = ch, !.seen[d] = Applied(row, ch), !.pc = next])
  BY DEF Look
<1>3. IsRequest(p) /\ RequestOK(t, p, class, writer)
  BY RequestFacts
<1>4. /\ p.kind \in {"override", "aiclassify"} /\ d \in Domains /\ p.todo = {d} /\ p.seen = Nothing
      /\ manual => p.cat \in Categories
      /\ writer # t /\ p.pend = Nothing /\ p.answer = Nothing
  BY <1>1, <1>3 DEF RequestOK, KindOK, LockOK, PendOK, AskedOK, Network
<1>5. IsRow(row)
  BY <1>4, RequestFacts DEF IsRow
<1>6. /\ IsChange(change) /\ (row = None => change # None)
      /\ change # None => /\ change.new <=> row = None
                          /\ change.new => change.cat # None
                          /\ ~manual => ~change.over /\ (~change.new => ~row.over)
  <2> HIDE DEF row
  <2>1. CASE manual
    BY <1>4, <1>5, <2>1, OverrideChangeFacts
  <2>2. CASE ~manual
    BY <1>4, <1>5, <2>2, RuleChangeFacts
  <2> QED
    BY <2>1, <2>2
<1>7. /\ IsChange(ch) /\ (row = None => ch # None)
      /\ ch # None => /\ ch.new <=> row = None
                      /\ ch.new => ch.cat # None
                      /\ ~manual => ~ch.over /\ (~ch.new => ~row.over)
  <2>1. CASE ch = change
    <3> HIDE DEF change, row
    <3> QED
      BY <1>6, <2>1
  <2>2. CASE change = touched /\ ch = None
    <3>1. change # None /\ ~change.new
      <4>1. touched \in Change
        BY DEF Change
      <4> QED
        BY <2>2, <4>1, ChangeIsReal
    <3>2. row # None
      <4> HIDE DEF change, row
      <4> QED
        BY <1>6, <3>1
    <3> QED
      BY <2>2, <3>2 DEF IsChange
  <2> QED
    BY <2>1, <2>2
<1> DEFINE applied == Applied(row, ch)
           r == [p EXCEPT !.pend[d] = ch, !.seen[d] = applied, !.pc = next]
<1> HIDE DEF change
<1>8. /\ IsRow(applied) /\ applied # None
      /\ ch = None => applied = row
      /\ ch # None /\ ~ch.new => applied.over = (row.over \/ ch.over)
  <2> HIDE DEF row
  <2> QED
    BY <1>5, <1>7, AppliedFacts
<1>9. Becomes(t, r)
  BY <1>2
<1> HIDE DEF row, applied, next
<1>10. next \in {"final", "flushone"} /\ (next = "final" <=> manual)
  BY DEF next
<1>11. IsRequest(r)
  BY <1>3, <1>4, <1>7, <1>8, <1>10 DEF IsRequest, IsRow, IsChange, Points
<1>12. /\ r.kind = p.kind /\ r.pc = next /\ r.todo = p.todo /\ r.dom = d
       /\ r.pend = [Nothing EXCEPT ![d] = ch] /\ r.seen = [Nothing EXCEPT ![d] = applied]
       /\ r.answer = p.answer /\ r.count = p.count
  BY <1>3, <1>4 DEF IsRequest
<1>13. /\ r.pend[d] = ch /\ r.seen[d] = applied
       /\ \A e \in Domains \ {d} : r.pend[e] = None /\ r.seen[e] = None
  BY <1>4, <1>12 DEF Nothing
<1> HIDE DEF r
<1>14. KindOK(r) /\ LockOK(t, r, writer)
  BY <1>4, <1>10, <1>12 DEF KindOK, LockOK, Network, Bulk
<1>15. PendOK(t, r, class, writer)
  <2>1. ASSUME NEW e \in Domains, r.pend[e] # None
        PROVE  /\ r.pend[e].new => r.pend[e].cat # None
               /\ ~r.pend[e].new => class[e] # None
               /\ r.kind # "override" =>
                    /\ ~r.pend[e].over
                    /\ ~r.pend[e].new => r.seen[e] # None /\ ~r.seen[e].over
    <3>1. e = d
      BY <1>13, <2>1
    <3>2. row = class[e]
      BY <3>1 DEF row
    <3> QED
      BY <1>7, <1>8, <1>12, <1>13, <2>1, <3>1, <3>2
  <2> QED
    BY <2>1, <1>4, <1>10, <1>12 DEF PendOK, Network, Ended
<1>16. AskedOK(r, class)
  <2>1. r.answer = Nothing /\ \A e \in Domains : r.answer[e] = None
    BY <1>4, <1>12, NothingFacts
  <2>2. Written(r, class, d)
    BY <1>7, <1>13 DEF Written, row
  <2>3. CASE next = "final"
    BY <1>12, <2>1, <2>3 DEF AskedOK, Network
  <2>4. CASE next = "flushone"
    <3>1. r.kind = "aiclassify"
      BY <1>4, <1>10, <1>12, <2>4
    <3>2. r.seen[d] # None /\ r.todo = {d}
      BY <1>4, <1>8, <1>12, <1>13
    <3> QED
      BY <1>12, <1>13, <2>1, <2>2, <2>4, <3>1, <3>2 DEF AskedOK, Network, Bulk
  <2> QED
    BY <1>10, <2>3, <2>4
<1>17. SyncOK(t, r, class, writer)
  BY <1>4, <1>12 DEF SyncOK
<1> QED
  BY <1>1, <1>9, <1>11, <1>14, <1>15, <1>16, <1>17, GoesOn, RequestFacts DEF RequestOK, r

\* A single classification may take the lock before it asks the model.
LEMMA FlushOneKeeps == ASSUME SafetyInv, NEW t \in Threads, FlushOne(t) PROVE SafetyInv'
<1> DEFINE p == req[t]
           row == p.seen[p.dom]
           next == IF row.over \/ row.cat # "UNCATEGORIZED" THEN "final" ELSE "cached"
           r == [p EXCEPT !.pc = next]
<1>1. Becomes(t, r) /\ UNCHANGED <<queries, class, cache>> /\ p.pc = "flushone" /\ Flushes(t)
  BY DEF FlushOne, dataVars
<1>2. IsRequest(p) /\ RequestOK(t, p, class, writer)
  BY RequestFacts
<1>3. writer # t /\ p.kind = "aiclassify"
  BY <1>1, <1>2 DEF RequestOK, LockOK, KindOK, Network
<1>4. next \in {"final", "cached"}
  OBVIOUS
<1> HIDE DEF next
<1>5. IsRequest(r)
  BY <1>2, <1>4 DEF IsRequest, Points, Network
<1>6. /\ r.kind = p.kind /\ r.pc = next /\ r.todo = p.todo /\ r.pend = p.pend
      /\ r.seen = p.seen /\ r.answer = p.answer /\ r.count = p.count
  BY <1>2 DEF IsRequest
<1>7. /\ writer' \in {writer, t} /\ (writer' # writer => writer \in {None, t})
      /\ \A d \in Domains : writer' = t /\ p.pend[d] # None /\ p.pend[d].new => class[d] = None
  BY <1>1, FlushFacts
<1> HIDE DEF r
<1>8. KindOK(r) /\ LockOK(t, r, writer')
  BY <1>3, <1>4, <1>6 DEF KindOK, LockOK, Network, Bulk
<1>9. PendOK(t, r, class, writer')
  BY <1>2, <1>3, <1>4, <1>6, <1>7 DEF RequestOK, PendOK, Network, Ended
<1>10. AskedOK(r, class)
  BY <1>1, <1>2, <1>3, <1>4, <1>6 DEF RequestOK, AskedOK, Network, Bulk, Written
<1>11. SyncOK(t, r, class, writer')
  BY <1>3, <1>6 DEF SyncOK
<1> QED
  BY <1>1, <1>5, <1>7, <1>8, <1>9, <1>10, <1>11, OneRequest, RequestFacts DEF RequestOK, r

\* The commit of a handler: what it counted is stored.
LEMMA CommitsAndEnds ==
  ASSUME SafetyInv, NEW t \in Threads, Commits(t), Succeed(t), req[t].pc \in {"final", "store"},
         UNCHANGED <<queries, cache>>
  PROVE  SafetyInv'
<1> DEFINE p == req[t]
<1>1. End(t, "ok", p.count, p.hits) /\ p.count \in SUBSET Domains
  BY RequestFacts DEF Succeed
<1>2. /\ class' \in [Domains -> Row \cup {None}]
      /\ writer' # writer \/ class' # class => writer \in {None, t}
      /\ \A d \in Domains : (class[d] # None => class'[d] # None)
                            /\ (Written(p, class, d) => class'[d] # None)
  BY CommitFacts
<1>3. ASSUME p.kind = "sync", NEW d \in p.count PROVE class'[d] # None
  <2>1. Written(p, class, d) /\ d \in Domains
    BY <1>3, RequestFacts DEF RequestOK, SyncOK, Written
  <2> QED
    BY <1>2, <2>1
<1> QED
  BY <1>1, <1>2, <1>3, Ends, RequestFacts

LEMMA SingleKeeps == ASSUME SafetyInv, NEW t \in Threads, Single(t) PROVE SafetyInv'
<1>1. CASE Look(t)        BY <1>1, LookKeeps
<1>2. CASE FlushOne(t)    BY <1>2, FlushOneKeeps
<1>3. CASE Final(t)       BY <1>3, CommitsAndEnds DEF Final, aiVars
<1>4. CASE WriteFails(t)  BY <1>4, Fails DEF WriteFails, dataVars
<1> QED
  BY <1>1, <1>2, <1>3, <1>4 DEF Single

-----------------------------------------------------------------------------
(* The AI model.                                                           *)

LEMMA VerdictsAreReal == "UNKNOWN" \in Verdicts /\ \A v \in Verdicts : v # None
  BY SafetyAssumption

\* The domain a request asks about.
LEMMA AskedDomain ==
  ASSUME SafetyInv, NEW t \in Threads, req[t].pc \in {"pick", "wait", "ask", "save"}
  PROVE  /\ req[t].dom \in Domains
         /\ req[t].kind \in Bulk \cup {"aiclassify"} => req[t].dom \in req[t].todo
         /\ req[t].kind \in Bulk \cup {"aiclassify", "ask", "reask"}
  BY RequestFacts DEF RequestOK, AskedOK, KindOK, Network, Bulk

\* Another model is tried, or the wait for one begins.
LEMMA TryKeeps ==
  ASSUME SafetyInv, NEW t \in Threads, req[t].pc \in {"pick", "wait", "ask"},
         NEW left, NEW pc \in {"wait", "ask"}, Becomes(t, [req[t] EXCEPT !.left = left, !.pc = pc]),
         UNCHANGED <<queries, class, writer, cache>>
  PROVE  SafetyInv'
<1> DEFINE p == req[t]
           r == [p EXCEPT !.left = left, !.pc = pc]
<1>1. IsRequest(p) /\ RequestOK(t, p, class, writer)
  BY RequestFacts
<1>2. IsRequest(r)
  BY <1>1 DEF IsRequest, Points, Network
<1>3. /\ r.kind = p.kind /\ r.pc = pc /\ r.dom = p.dom /\ r.todo = p.todo /\ r.pend = p.pend
      /\ r.seen = p.seen /\ r.answer = p.answer /\ r.count = p.count
  BY <1>1 DEF IsRequest
<1> HIDE DEF r
<1>4. KindOK(r) /\ LockOK(t, r, writer)
  BY <1>1, <1>3 DEF RequestOK, KindOK, LockOK, Network, Bulk
<1>5. PendOK(t, r, class, writer)
  BY <1>1, <1>3 DEF RequestOK, PendOK, Network, Ended
<1>6. AskedOK(r, class)
  BY <1>1, <1>3 DEF RequestOK, AskedOK, Network, Bulk, Written
<1>7. SyncOK(t, r, class, writer)
  BY <1>1, <1>3 DEF RequestOK, SyncOK
<1> QED
  BY <1>2, <1>4, <1>5, <1>6, <1>7, GoesOn, RequestFacts DEF RequestOK, r

\* A request relies on the same when one of its domains gets its verdict.
LEMMA VerdictKept ==
  ASSUME SafetyInv, NEW t \in Threads, req[t].pc \in Network, NEW d \in Domains, NEW v \in Verdicts,
         req[t].kind \in Bulk \cup {"aiclassify"} => d \in req[t].todo,
         NEW r, IsRequest(r), r.pc \in {"save", "cached", "read"}, r.kind = req[t].kind,
         r.answer = [req[t].answer EXCEPT ![d] = v], r.todo \subseteq req[t].todo,
         r.pend = req[t].pend, r.seen = req[t].seen, r.count = req[t].count,
         r.pc = "save" => r.dom = d /\ r.todo = req[t].todo,
         r.pc = "read" => r.kind \in Bulk \cup {"aiclassify"},
         Becomes(t, r), UNCHANGED <<queries, class, writer>>,
         cache' \in [Domains -> Verdicts \cup {None}]
  PROVE  SafetyInv'
<1> DEFINE p == req[t]
<1>1. /\ RequestOK(t, p, class, writer) /\ p.answer \in [Domains -> Verdicts \cup {None}]
      /\ p.kind \in Bulk \cup {"aiclassify", "ask", "reask"}
  BY RequestFacts DEF RequestOK, KindOK
<1>2. /\ r.answer[d] = v /\ v # None
      /\ \A e \in Domains : r.answer[e] # None => e = d \/ p.answer[e] # None
  BY <1>1, VerdictsAreReal
<1>3. KindOK(r) /\ LockOK(t, r, writer)
  BY <1>1 DEF RequestOK, KindOK, LockOK, Network, Bulk
<1>4. PendOK(t, r, class, writer)
  BY <1>1 DEF RequestOK, PendOK, Network, Ended
<1>5. AskedOK(r, class)
  <2>1. ASSUME p.kind \in Bulk, NEW e \in Domains, e \in r.todo \/ r.answer[e] # None PROVE class[e] # None
    BY <1>1, <1>2, <2>1 DEF RequestOK, AskedOK
  <2>2. ASSUME p.kind = "aiclassify", NEW e \in Domains
        PROVE  /\ e \in r.todo \/ r.answer[e] # None => r.seen[e] # None
               /\ r.seen[e] # None => Written(r, class, e)
    BY <1>1, <1>2, <2>2 DEF RequestOK, AskedOK, Written
  <2>3. r.pc = "save" => r.dom \in Domains /\ (r.kind \in {"ask", "reask"} \/ r.dom \in r.todo)
                         /\ r.answer[r.dom] # None
    BY <1>1, <1>2
  <2> QED
    BY <1>2, <2>1, <2>2, <2>3 DEF AskedOK, Network, Bulk
<1>6. SyncOK(t, r, class, writer)
  BY <1>1 DEF RequestOK, SyncOK, Network
<1> QED
  BY <1>3, <1>4, <1>5, <1>6, GoesOn, RequestFacts DEF RequestOK

\* A model, or nobody, has answered.
LEMMA TellKeeps ==
  ASSUME SafetyInv, NEW t \in Threads, req[t].pc \in {"pick", "wait", "ask"},
         NEW v \in Verdicts, Becomes(t, Told(t, v)), UNCHANGED <<queries, class, writer, cache>>
  PROVE  SafetyInv'
<1> DEFINE p == req[t]
           d == p.dom
           r == Told(t, v)
<1>1. /\ IsRequest(p) /\ d \in Domains /\ (p.kind \in Bulk \cup {"aiclassify"} => d \in p.todo)
      /\ p.answer \in [Domains -> Verdicts \cup {None}]
  BY RequestFacts, AskedDomain
<1>2. r = [p EXCEPT !.answer = [p.answer EXCEPT ![d] = v], !.left = <<>>, !.pc = "save"]
  BY <1>1 DEF Told, IsRequest
<1>3. [p.answer EXCEPT ![d] = v] \in [Domains -> Verdicts \cup {None}]
  BY <1>1
<1> HIDE DEF r
<1>4. IsRequest(r)
  BY <1>1, <1>2, <1>3 DEF IsRequest, Points, Network
<1>5. /\ r.kind = p.kind /\ r.pc = "save" /\ r.dom = d /\ r.todo = p.todo /\ r.pend = p.pend
      /\ r.seen = p.seen /\ r.answer = [p.answer EXCEPT ![d] = v] /\ r.count = p.count
  BY <1>1, <1>2 DEF IsRequest
<1>6. p.pc \in Network /\ Becomes(t, r) /\ cache' \in [Domains -> Verdicts \cup {None}]
  BY RequestFacts DEF Network, r
<1> HIDE DEF p, d
<1> QED
  BY <1>1, <1>4, <1>5, <1>6, VerdictKept DEF p, d

\* The next domain of a batch, or the answer of a request for a verdict.
LEMMA SettlesKeeps ==
  ASSUME SafetyInv, NEW t \in Threads, req[t].pc \in {"cached", "save"}, NEW d \in Domains, NEW v \in Verdicts,
         req[t].kind \in Bulk \cup {"aiclassify"} => d \in req[t].todo,
         Settles(t, d, v), UNCHANGED <<queries, class>>, cache' \in [Domains -> Verdicts \cup {None}]
  PROVE  SafetyInv'
<1> DEFINE p == req[t]
<1>1. p.kind \in Bulk \cup {"aiclassify", "ask", "reask"} /\ p.pc \in Network
  BY RequestFacts DEF RequestOK, KindOK, Network
<1>2. CASE p.kind \in {"ask", "reask"}
  <2>1. End(t, "ok", p.count, p.hits)
    BY <1>2 DEF Settles, Succeed
  <2> QED
    BY <1>2, <2>1, Ends, RequestFacts
<1>3. CASE p.kind \notin {"ask", "reask"}
  <2> DEFINE r == Answered(t, d, v)
             todo == p.todo \ {d}
  <2>1. Becomes(t, r) /\ UNCHANGED writer /\ p.kind \in Bulk \cup {"aiclassify"}
    BY <1>1, <1>3 DEF Settles
  <2>2. IsRequest(p) /\ p.answer \in [Domains -> Verdicts \cup {None}] /\ p.todo \subseteq Domains
    BY RequestFacts
  <2>3. r = [p EXCEPT !.answer = [p.answer EXCEPT ![d] = v], !.todo = todo, !.dom = None, !.left = <<>>,
                      !.pc = IF todo = {} THEN "read" ELSE "cached"]
    BY <2>2 DEF Answered, IsRequest
  <2>4. [p.answer EXCEPT ![d] = v] \in [Domains -> Verdicts \cup {None}]
    BY <2>2
  <2> HIDE DEF r
  <2>5. IsRequest(r)
    <3> DEFINE pc == IF todo = {} THEN "read" ELSE "cached"
               answer == [p.answer EXCEPT ![d] = v]
    <3>1. pc \in Points /\ todo \in SUBSET Domains
      BY <2>2 DEF Points, Network
    <3> HIDE DEF pc, answer, p, todo
    <3>2. IsRequest([p EXCEPT !.answer = answer, !.todo = todo, !.dom = None, !.left = <<>>, !.pc = pc])
      BY <2>2, <2>4, <3>1 DEF IsRequest, answer
    <3> QED
      BY <2>3, <3>2 DEF answer, pc
  <2>6. /\ r.kind = p.kind /\ r.pc \in {"read", "cached"} /\ r.todo = todo /\ r.pend = p.pend
        /\ r.seen = p.seen /\ r.answer = [p.answer EXCEPT ![d] = v] /\ r.count = p.count
    BY <2>2, <2>3 DEF IsRequest
  <2>7. r.pc \in {"save", "cached", "read"} /\ r.pc # "save" /\ r.todo \subseteq p.todo
    BY <2>6
  <2> HIDE DEF p, todo
  <2> QED
    BY <1>1, <2>1, <2>5, <2>6, <2>7, VerdictKept DEF p, r
<1> QED
  BY <1>2, <1>3

LEMMA CachedKeeps == ASSUME SafetyInv, NEW t \in Threads, Cached(t) PROVE SafetyInv'
<1> DEFINE p == req[t]
<1>1. p.pc = "cached" /\ UNCHANGED <<queries, class, cache>>
  BY DEF Cached, dataVars
<1>2. PICK d \in p.todo :
        IF cache[d] # None THEN Settles(t, d, cache[d])
        ELSE Becomes(t, [p EXCEPT !.dom = d, !.pc = "pick"]) /\ UNCHANGED writer
  BY DEF Cached
<1>3. IsRequest(p) /\ RequestOK(t, p, class, writer) /\ d \in Domains
  BY RequestFacts
<1>4. CASE cache[d] # None
  <2>1. cache[d] \in Verdicts
    BY <1>3, <1>4, RequestFacts
  <2> QED
    BY <1>1, <1>2, <1>3, <1>4, <2>1, SettlesKeeps, RequestFacts
<1>5. CASE cache[d] = None
  <2> DEFINE r == [p EXCEPT !.dom = d, !.pc = "pick"]
  <2>1. Becomes(t, r) /\ UNCHANGED writer
    BY <1>2, <1>5
  <2>2. IsRequest(r)
    BY <1>3 DEF IsRequest, Points, Network
  <2>3. /\ r.kind = p.kind /\ r.pc = "pick" /\ r.dom = d /\ r.todo = p.todo /\ r.pend = p.pend
        /\ r.seen = p.seen /\ r.answer = p.answer /\ r.count = p.count
    BY <1>3 DEF IsRequest
  <2> HIDE DEF r
  <2>4. KindOK(r) /\ LockOK(t, r, writer)
    BY <1>1, <1>3, <2>3 DEF RequestOK, KindOK, LockOK, Network, Bulk
  <2>5. PendOK(t, r, class, writer)
    BY <1>1, <1>3, <2>3 DEF RequestOK, PendOK, Network, Ended
  <2>6. AskedOK(r, class)
    BY <1>1, <1>2, <1>3, <2>3 DEF RequestOK, AskedOK, Network, Bulk, Written
  <2>7. SyncOK(t, r, class, writer)
    BY <1>1, <1>3, <2>3 DEF RequestOK, SyncOK
  <2> QED
    BY <1>1, <2>1, <2>2, <2>4, <2>5, <2>6, <2>7, GoesOn, RequestFacts DEF RequestOK
<1> QED
  BY <1>4, <1>5

LEMMA PickKeeps == ASSUME SafetyInv, NEW t \in Threads, Pick(t) PROVE SafetyInv'
<1> DEFINE fresh == Without(Models, cooling)
<1>1. req[t].pc = "pick" /\ UNCHANGED <<queries, class, writer, cache>>
  BY DEF Pick, dataVars
<1>2. CASE ~key
  BY <1>1, <1>2, TellKeeps, VerdictsAreReal DEF Pick
<1>3. CASE key
  <2>1. Becomes(t, [req[t] EXCEPT !.left = fresh, !.pc = IF fresh = <<>> THEN "wait" ELSE "ask"])
    BY <1>3 DEF Pick
  <2> HIDE DEF fresh
  <2> QED
    BY <1>1, <2>1, TryKeeps
<1> QED
  BY <1>2, <1>3

LEMMA WakeKeeps == ASSUME SafetyInv, NEW t \in Threads, Wake(t) PROVE SafetyInv'
<1>1. req[t].pc = "wait" /\ UNCHANGED <<queries, class, writer, cache>>
  BY DEF Wake
<1>2. \E left : Becomes(t, [req[t] EXCEPT !.left = left, !.pc = "ask"])
  BY DEF Wake
<1> QED
  BY <1>1, <1>2, TryKeeps

LEMMA AskKeeps == ASSUME SafetyInv, NEW t \in Threads, Ask(t) PROVE SafetyInv'
<1>1. req[t].pc = "ask" /\ UNCHANGED <<queries, class, writer, cache>>
  BY DEF Ask
<1>2. \/ \E v \in Verdicts : Becomes(t, Told(t, v))
      \/ \E left : Becomes(t, [req[t] EXCEPT !.left = left])
  BY VerdictsAreReal DEF Ask
<1>3. CASE \E v \in Verdicts : Becomes(t, Told(t, v))
  BY <1>1, <1>3, TellKeeps
<1>4. CASE \E left : Becomes(t, [req[t] EXCEPT !.left = left])
  <2>1. PICK left : Becomes(t, [req[t] EXCEPT !.left = left])
    BY <1>4
  <2>2. [req[t] EXCEPT !.left = left] = [req[t] EXCEPT !.left = left, !.pc = "ask"]
    BY <1>1, RequestFacts DEF IsRequest
  <2> QED
    BY <1>1, <2>1, <2>2, TryKeeps
<1> QED
  BY <1>2, <1>3, <1>4

\* The verdict that is stored is one of the model.
LEMMA SaveKeeps == ASSUME SafetyInv, NEW t \in Threads, Save(t) PROVE SafetyInv'
<1> DEFINE d == req[t].dom
           v == req[t].answer[d]
<1>1. /\ req[t].pc = "save" /\ UNCHANGED <<queries, class>> /\ Settles(t, d, v)
      /\ cache' \in {cache, [cache EXCEPT ![d] = v]}
  BY DEF Save
<1>2. d \in Domains /\ (req[t].kind \in Bulk \cup {"aiclassify"} => d \in req[t].todo)
  BY <1>1, AskedDomain
<1>3. v \in Verdicts
  BY <1>1, <1>2, RequestFacts DEF RequestOK, AskedOK
<1>4. cache' \in [Domains -> Verdicts \cup {None}]
  BY <1>1, <1>3, RequestFacts
<1> HIDE DEF d, v
<1> QED
  BY <1>1, <1>2, <1>3, <1>4, SettlesKeeps

LEMMA ModelKeeps == ASSUME SafetyInv, NEW t \in Threads, Model(t) PROVE SafetyInv'
<1>1. CASE Cached(t)     BY <1>1, CachedKeeps
<1>2. CASE Pick(t)       BY <1>2, PickKeeps
<1>3. CASE Wake(t)       BY <1>3, WakeKeeps
<1>4. CASE Ask(t)        BY <1>4, AskKeeps
<1>5. CASE Save(t)       BY <1>5, SaveKeeps
<1>6. CASE SaveFails(t)  BY <1>6, SaveFailsKeeps
<1> QED
  BY <1>1, <1>2, <1>3, <1>4, <1>5, <1>6 DEF Model

-----------------------------------------------------------------------------
(* Alerts, the world outside, and new requests.                            *)

\* A scan with its limit.
Scanned(t, limit) ==
  LET hits == HitsOf(t, limit)
      read == AlertsAfter(alerts, hits)
      first == CHOOSE n \in 0 .. Len(hits) :
                 /\ Len(read[n]) = Len(alerts)
                 /\ n < Len(hits) => Len(read[n + 1]) > Len(alerts)
      bump == {<<i, read[first][i].last>> : i \in {k \in DOMAIN alerts : read[first][k] # alerts[k]}}
  IN  Becomes(t, [req[t] EXCEPT
        !.hits = hits, !.bump = bump, !.left = SubSeq(hits, first + 1, Len(hits)),
        !.pc = IF hits = <<>> THEN "final" ELSE "store"])

LEMMA ScanByLimit == ASSUME NEW t, Scan(t) PROVE \E limit \in ScanLimits : Scanned(t, limit)
  BY DEF Scan, Scanned

\* A scan of the queries reads only.
LEMMA ScanKeeps == ASSUME SafetyInv, NEW t \in Threads, Scan(t) PROVE SafetyInv'
<1> DEFINE p == req[t]
<1>1. p.pc = "scan" /\ UNCHANGED <<queries, class, writer, cache>>
  BY DEF Scan, dataVars
<1>2. PICK hits, bump, left, pc :
        pc \in {"final", "store"} /\ Becomes(t, [p EXCEPT !.hits = hits, !.bump = bump, !.left = left, !.pc = pc])
  <2> PICK limit \in ScanLimits : Scanned(t, limit)
    BY ScanByLimit
  <2> DEFINE hs == HitsOf(t, limit)
             read == AlertsAfter(alerts, hs)
             first == CHOOSE n \in 0 .. Len(hs) :
                        /\ Len(read[n]) = Len(alerts)
                        /\ n < Len(hs) => Len(read[n + 1]) > Len(alerts)
             bs == {<<i, read[first][i].last>> : i \in {k \in DOMAIN alerts : read[first][k] # alerts[k]}}
             ls == SubSeq(hs, first + 1, Len(hs))
             next == IF hs = <<>> THEN "final" ELSE "store"
  <2>1. Becomes(t, [p EXCEPT !.hits = hs, !.bump = bs, !.left = ls, !.pc = next])
    BY DEF Scanned
  <2>2. next \in {"final", "store"}
    OBVIOUS
  <2> HIDE DEF hs, bs, ls, next
  <2> QED
    BY <2>1, <2>2
<1> DEFINE r == [p EXCEPT !.hits = hits, !.bump = bump, !.left = left, !.pc = pc]
<1>3. IsRequest(p) /\ RequestOK(t, p, class, writer)
  BY RequestFacts
<1>4. IsRequest(r)
  BY <1>2, <1>3 DEF IsRequest, Points
<1>5. /\ r.kind = p.kind /\ r.pc = pc /\ r.dom = p.dom /\ r.todo = p.todo /\ r.pend = p.pend
      /\ r.seen = p.seen /\ r.answer = p.answer /\ r.count = p.count
  BY <1>3 DEF IsRequest
<1>6. Becomes(t, r) /\ p.kind = "scan"
  BY <1>1, <1>2, <1>3 DEF RequestOK, KindOK
<1> HIDE DEF r
<1>7. KindOK(r) /\ LockOK(t, r, writer)
  BY <1>1, <1>2, <1>3, <1>5, <1>6 DEF RequestOK, KindOK, LockOK, Network, Bulk
<1>8. PendOK(t, r, class, writer)
  BY <1>1, <1>2, <1>3, <1>5 DEF RequestOK, PendOK, Network, Ended
<1>9. AskedOK(r, class)
  BY <1>2, <1>5, <1>6 DEF AskedOK, Network, Bulk
<1>10. SyncOK(t, r, class, writer)
  BY <1>5, <1>6 DEF SyncOK
<1> QED
  BY <1>1, <1>4, <1>6, <1>7, <1>8, <1>9, <1>10, GoesOn, RequestFacts DEF RequestOK

LEMMA AlertingKeeps == ASSUME SafetyInv, NEW t \in Threads, Alerting(t) PROVE SafetyInv'
<1>1. CASE Scan(t)        BY <1>1, ScanKeeps
<1>2. CASE Store(t)       BY <1>2, CommitsAndEnds DEF Store, aiVars
<1>3. CASE StoreFails(t)  BY <1>3, Fails DEF StoreFails, dataVars
<1> QED
  BY <1>1, <1>2, <1>3 DEF Alerting

\* A request at rest relies on nothing.
LEMMA AtRest ==
  ASSUME NEW t \in Threads, NEW c, NEW w, w # t
  PROVE  IsRequest(Rest) /\ RequestOK(t, Rest, c, w)
<1>1. /\ Rest.kind = None /\ Rest.pc = "idle" /\ Rest.todo = {} /\ Rest.pend = Nothing
      /\ Rest.seen = Nothing /\ Rest.answer = Nothing /\ Rest.count = {}
  BY DEF Rest
<1>2. IsRequest(Rest)
  BY NothingTypes DEF IsRequest, Rest, Points, Ended
<1>3. KindOK(Rest) /\ LockOK(t, Rest, w) /\ SyncOK(t, Rest, c, w)
  BY <1>1 DEF KindOK, LockOK, SyncOK, Network
<1>4. PendOK(t, Rest, c, w)
  BY <1>1, NothingFacts DEF PendOK, Network
<1>5. AskedOK(Rest, c)
  BY <1>1 DEF AskedOK, Network
<1> QED
  BY <1>2, <1>3, <1>4, <1>5 DEF RequestOK

\* Nobody does anything at the start, nor after a restart.
LEMMA AllAtRest ==
  ASSUME queries \in Seq(Query), class \in [Domains -> Row \cup {None}],
         cache \in [Domains -> Verdicts \cup {None}], writer = None, req = [t \in Threads |-> Rest]
  PROVE  SafetyInv
  BY AtRest, SafetyAssumption DEF SafetyInv, TablesOK

LEMMA InitInv == Init => SafetyInv
  BY AllAtRest, NothingFacts DEF Init

LEMMA RestartKeeps == ASSUME SafetyInv, Restart PROVE SafetyInv'
<1>1. /\ UNCHANGED <<queries, class, cache>> /\ writer' = None /\ req' = [t \in Threads |-> Rest]
  BY DEF Restart
<1>2. \A t \in Threads : IsRequest(Rest) /\ RequestOK(t, Rest, class, None)
  BY AtRest, SafetyAssumption
<1> QED
  BY <1>1, <1>2 DEF SafetyInv, TablesOK

LEMMA OutsideKeeps == ASSUME SafetyInv, Outside PROVE SafetyInv'
<1>1. CASE Restart
  BY <1>1, RestartKeeps
<1>2. CASE ~Restart
  <2>1. UNCHANGED <<class, cache, writer, req>> /\ queries' \in Seq(Query)
    BY <1>2 DEF Outside, LogQuery, SaveKey, UpdateAlert, Recover, SafetyInv, TablesOK
  <2> QED
    BY <2>1 DEF SafetyInv, TablesOK
<1> QED
  BY <1>1, <1>2

\* A request starts with a new session.
LEMMA StartKeeps ==
  ASSUME SafetyInv, NEW t \in Threads, NEW kind \in Kinds, NEW d \in Domains, NEW cat \in Chosen,
         Start(t, kind, d, cat)
  PROVE  SafetyInv'
<1> DEFINE one == [Rest EXCEPT !.kind = kind, !.cat = cat, !.todo = {d}, !.dom = d]
           bare == [Rest EXCEPT !.kind = kind]
<1>1. /\ req[t].pc \in Ended /\ UNCHANGED <<queries, class, writer, cache>>
      /\ cache \in [Domains -> Verdicts \cup {None}]
  BY RequestFacts DEF Start, dataVars, Ended
<1>2. writer # t
  BY <1>1, RequestFacts DEF RequestOK, LockOK, Ended, Network
<1>3. kind \in Request /\ cat \in Categories
  BY SafetyAssumption
<1>4. \/ Becomes(t, [bare EXCEPT !.pc = "list"]) /\ kind \in {"sync", "scan"}
      \/ Becomes(t, [bare EXCEPT !.pc = "ai"]) /\ kind = "aisync"
      \/ Becomes(t, [bare EXCEPT !.pc = "error"])
      \/ Becomes(t, [one EXCEPT !.pc = "look"]) /\ kind \in {"aiclassify", "override"}
      \/ Becomes(t, [one EXCEPT !.pc = "cached"]) /\ kind = "ask"
      \/ Becomes(t, [one EXCEPT !.pc = "pick"]) /\ kind = "reask"
  <2> USE DEF Start
  <2>1. CASE kind \in {"sync", "scan"}          BY <2>1 DEF Rest
  <2>2. CASE kind = "aisync"                    BY <2>2 DEF Rest
  <2>3. CASE kind = "aiclassify" /\ ~key        BY <2>3 DEF Rest
  <2>4. CASE kind = "override"                  BY <2>4
  <2>5. CASE kind = "aiclassify" /\ key         BY <2>5
  <2>6. CASE kind = "ask"                       BY <2>6
  <2>7. CASE kind = "reask"                     BY <2>7
  <2> QED
    BY <1>3, <2>1, <2>2, <2>3, <2>4, <2>5, <2>6, <2>7 DEF Request
<1>5. ASSUME NEW pc, \/ pc = "list" /\ kind \in {"sync", "scan"}
                     \/ pc = "ai" /\ kind = "aisync"
                     \/ pc = "error",
             Becomes(t, [bare EXCEPT !.pc = pc])
      PROVE  SafetyInv'
  <2> DEFINE r == [bare EXCEPT !.pc = pc]
  <2>1. /\ r.kind = kind /\ r.pc = pc /\ r.todo = {} /\ r.pend = Nothing
        /\ r.seen = Nothing /\ r.answer = Nothing /\ r.count = {}
    BY DEF Rest
  <2>2. IsRequest(r)
    <3>1. pc \in Points
      BY <1>5 DEF Points, Ended
    <3> QED
      BY <3>1, NothingTypes DEF IsRequest, Rest
  <2>3. Becomes(t, r)
    BY <1>5
  <2> HIDE DEF r
  <2>4. KindOK(r) /\ LockOK(t, r, writer)
    BY <1>2, <1>5, <2>1 DEF KindOK, LockOK, Network, Bulk
  <2>5. PendOK(t, r, class, writer)
    BY <1>2, <1>5, <2>1, NothingFacts DEF PendOK, Network
  <2>6. AskedOK(r, class)
    BY <1>5, <2>1 DEF AskedOK, Network
  <2>7. SyncOK(t, r, class, writer)
    BY <2>1 DEF SyncOK
  <2> QED
    BY <1>1, <2>2, <2>3, <2>4, <2>5, <2>6, <2>7, GoesOn, RequestFacts DEF RequestOK
<1>6. ASSUME NEW pc, \/ pc = "look" /\ kind \in {"aiclassify", "override"}
                     \/ pc = "cached" /\ kind = "ask"
                     \/ pc = "pick" /\ kind = "reask",
             Becomes(t, [one EXCEPT !.pc = pc])
      PROVE  SafetyInv'
  <2> DEFINE r == [one EXCEPT !.pc = pc]
  <2>1. /\ r.kind = kind /\ r.pc = pc /\ r.todo = {d} /\ r.pend = Nothing /\ r.cat = cat /\ r.dom = d
        /\ r.seen = Nothing /\ r.answer = Nothing /\ r.count = {}
    BY DEF Rest
  <2>2. IsRequest(r)
    <3>1. pc \in Points /\ {d} \in SUBSET Domains
      BY <1>6 DEF Points, Network
    <3> QED
      BY <3>1, NothingTypes DEF IsRequest, Rest
  <2>3. Becomes(t, r)
    BY <1>6
  <2> HIDE DEF r
  <2>4. KindOK(r) /\ LockOK(t, r, writer)
    BY <1>2, <1>3, <1>6, <2>1 DEF KindOK, LockOK, Network, Bulk
  <2>5. PendOK(t, r, class, writer)
    BY <1>2, <1>6, <2>1, NothingFacts DEF PendOK, Network
  <2>6. AskedOK(r, class)
    BY <1>6, <2>1, NothingFacts DEF AskedOK, Network, Bulk
  <2>7. SyncOK(t, r, class, writer)
    BY <1>6, <2>1 DEF SyncOK
  <2> QED
    BY <1>1, <2>2, <2>3, <2>4, <2>5, <2>6, <2>7, GoesOn, RequestFacts DEF RequestOK
<1> HIDE DEF one, bare
<1> QED
  BY <1>4, <1>5, <1>6

\* Every step keeps the invariant.
LEMMA NextKeeps == ASSUME SafetyInv, [Next]_vars PROVE SafetyInv'
<1>1. CASE Outside
  BY <1>1, OutsideKeeps
<1>2. CASE \E t \in Threads, k \in Kinds, d \in Domains, c \in Chosen : Start(t, k, d, c)
  BY <1>2, StartKeeps
<1>3. CASE \E t \in Threads : Pass(t)
  BY <1>3, PassKeeps
<1>4. CASE \E t \in Threads : Single(t)
  BY <1>4, SingleKeeps
<1>5. CASE \E t \in Threads : Model(t)
  BY <1>5, ModelKeeps
<1>6. CASE \E t \in Threads : Alerting(t)
  BY <1>6, AlertingKeeps
<1>7. CASE UNCHANGED vars
  BY <1>7 DEF vars, SafetyInv, TablesOK
<1> QED
  BY <1>1, <1>2, <1>3, <1>4, <1>5, <1>6, <1>7 DEF Next

-----------------------------------------------------------------------------
(* Sequences that are built step by step.                                  *)

\* The equations that define the local functions of Without and AlertsAfter.
IsWithout(kept, s, S) ==
  kept = [i \in 0 .. Len(s) |->
            IF i = 0 THEN <<>>
            ELSE IF s[i] \in S THEN kept[i - 1] ELSE Append(kept[i - 1], s[i])]
IsAfter(after, al, hits) ==
  after = [n \in 0 .. Len(hits) |-> IF n = 0 THEN al ELSE Aggregate(after[n - 1], hits[n])]

\* What a filter leaves are members of the sequence that the set has not.
LEMMA WithoutFacts ==
  ASSUME NEW T, NEW s \in Seq(T), NEW S
  PROVE  /\ Without(s, S) \in Seq(T)
         /\ \A i \in DOMAIN Without(s, S) : Without(s, S)[i] \notin S
<1> DEFINE N == Len(s)
           F == [i \in 1 .. N |-> [k \in Seq(T) |-> IF s[i] \in S THEN k ELSE Append(k, s[i])]]
<1>1. N \in Nat /\ <<>> \in Seq(T) /\ \A i \in 1 .. N : s[i] \in T
  OBVIOUS
<1>2. F \in Steps(N, Seq(T))
  <2>1. \A i \in 1 .. N, k \in Seq(T) : Append(k, s[i]) \in Seq(T)
    BY <1>1
  <2> QED
    BY <2>1 DEF Steps
<1>3. \E f \in Results(N, Seq(T)) : Folds(f, <<>>, N, F)
  <2> DEFINE none == <<>>
             U == Seq(T)
  <2>1. N \in Nat /\ none \in U /\ F \in Steps(N, U)
    BY <1>1, <1>2
  <2> HIDE DEF N, F, none, U
  <2>2. \E f \in Results(N, U) : Folds(f, none, N, F)
    BY <2>1, FoldExists
  <2> QED
    BY <2>2 DEF none, U
<1>4. PICK f \in Results(N, Seq(T)) : Folds(f, <<>>, N, F)
  BY <1>3
<1>5. IsWithout(f, s, S)
  <2>1. DOMAIN f = 0 .. N /\ f = [i \in 0 .. N |-> f[i]]
    BY DEF Results
  <2>2. ASSUME NEW i \in 1 .. N
        PROVE  f[i] = IF s[i] \in S THEN f[i - 1] ELSE Append(f[i - 1], s[i])
    <3>1. i - 1 \in 0 .. N
      BY <1>1
    <3>2. f[i - 1] \in Seq(T)
      BY <3>1 DEF Results
    <3>3. f[i] = F[i][f[i - 1]]
      BY <1>4 DEF Folds
    <3> QED
      BY <3>2, <3>3
  <2>3. f[0] = <<>>
    BY <1>4 DEF Folds
  <2>4. \A i \in 0 .. N : i # 0 => i \in 1 .. N
    BY <1>1
  <2> QED
    BY <2>1, <2>2, <2>3, <2>4 DEF IsWithout
<1>6. PICK kept : IsWithout(kept, s, S) /\ Without(s, S) = kept[N]
  BY <1>5 DEF Without, IsWithout
<1> DEFINE Fine(k) == k \in Seq(T) /\ \A i \in DOMAIN k : k[i] \notin S
           Had == {n \in 0 .. N : Fine(kept[n])}
<1>7. Had = 0 .. N
  <2>1. 0 \in Had
    BY <1>1, <1>6 DEF IsWithout
  <2>2. ASSUME NEW n \in 1 .. N, n - 1 \in Had PROVE n \in Had
    <3>1. n \in 0 .. N /\ n # 0
      BY <1>1
    <3>2. kept[n] = IF s[n] \in S THEN kept[n - 1] ELSE Append(kept[n - 1], s[n])
      BY <1>6, <3>1, ZenonT(30) DEF IsWithout
    <3>3. Fine(kept[n - 1])
      BY <2>2
    <3>4. ASSUME s[n] \notin S PROVE Fine(Append(kept[n - 1], s[n]))
      <4> DEFINE k == kept[n - 1]
                 l == Append(k, s[n])
      <4>1. k \in Seq(T) /\ s[n] \in T
        BY <1>1, <3>3
      <4>2. /\ l \in Seq(T) /\ DOMAIN l = 1 .. Len(k) + 1 /\ DOMAIN k = 1 .. Len(k)
            /\ \A i \in 1 .. Len(k) + 1 : l[i] = IF i = Len(k) + 1 THEN s[n] ELSE k[i]
        BY <4>1
      <4> HIDE DEF k, l
      <4>3. \A i \in DOMAIN l : i = Len(k) + 1 \/ i \in DOMAIN k
        BY <4>1, <4>2
      <4>4. \A i \in DOMAIN k : k[i] \notin S
        BY <3>3 DEF k
      <4>5. \A i \in DOMAIN l : l[i] \notin S
        BY <3>4, <4>2, <4>3, <4>4
      <4> QED
        BY <4>2, <4>5 DEF l, k
    <3> HIDE DEF Fine
    <3> QED
      BY <3>1, <3>2, <3>3, <3>4
  <2> HIDE DEF Had
  <2>3. Had \in SUBSET (0 .. N)
    BY DEF Had
  <2> QED
    BY <1>1, <2>1, <2>2, <2>3, UpTo
<1>8. N \in Had
  BY <1>1, <1>7
<1> QED
  BY <1>6, <1>8

-----------------------------------------------------------------------------
(* Alerts.                                                                 *)

\* Alerts only become more, and keep their key.
Grows(al, bs) ==
  /\ Len(al) <= Len(bs)
  /\ \A i \in 1 .. Len(al) : DedupKey(bs[i]) = DedupKey(al[i])
Covered(al, h) == \E i \in 1 .. Len(al) : DedupKey(al[i]) = DedupKey(h)

LEMMA GrowsFacts ==
  ASSUME NEW al \in Seq(Alert), NEW bs \in Seq(Alert), NEW cs \in Seq(Alert),
         Grows(al, bs), Grows(bs, cs)
  PROVE  /\ Grows(al, cs)
         /\ \A h : Covered(al, h) => Covered(bs, h)
         /\ \A h : Len(al) = Len(bs) /\ Covered(bs, h) => Covered(al, h)
<1>1. Len(al) \in Nat /\ Len(bs) \in Nat /\ Len(cs) \in Nat /\ Len(al) <= Len(bs) /\ Len(bs) <= Len(cs)
  BY DEF Grows
<1>2. \A i \in 1 .. Len(al) : i \in 1 .. Len(bs)
  BY <1>1
<1>3. Len(al) <= Len(cs)
  BY <1>1
<1>4. Grows(al, cs)
  BY <1>2, <1>3 DEF Grows
<1>5. ASSUME NEW h, Covered(al, h) PROVE Covered(bs, h)
  BY <1>2, <1>5 DEF Covered, Grows
<1>6. ASSUME NEW h, Len(al) = Len(bs), Covered(bs, h) PROVE Covered(al, h)
  BY <1>6 DEF Covered, Grows
<1> QED
  BY <1>4, <1>5, <1>6

LEMMA GrowsSame == ASSUME NEW al \in Seq(Alert) PROVE Grows(al, al)
  BY DEF Grows

\* create_or_dedup_alert finds an alert of the hit's own key, or adds one.
LEMMA DedupFacts ==
  ASSUME NEW al \in Seq(Alert), NEW h, Dedup(al, h) # 0
  PROVE  LET i == Dedup(al, h) IN
         i \in 1 .. Len(al) /\ DedupKey(al[i]) = DedupKey(h)
<1> DEFINE same == {i \in DOMAIN al : al[i].active /\ DedupKey(al[i]) = DedupKey(h)}
           c == CHOOSE n \in same : \A m \in same : m <= n
           i == IF same = {} THEN 0 ELSE c
<1>1. Dedup(al, h) = i /\ i # 0
  BY DEF Dedup
<1>2. same # {} /\ i = c
  BY <1>1
<1>3. \E n \in same : \A m \in same : m <= n
  <2>1. Len(al) \in Nat /\ same \in SUBSET (0 .. Len(al))
    OBVIOUS
  <2> HIDE DEF same
  <2> QED
    BY <1>2, <2>1, LargestExists
<1>4. c \in same
  <2> HIDE DEF same
  <2> QED
    BY <1>3
<1>5. Dedup(al, h) \in same
  BY <1>1, <1>2, <1>4
<1> QED
  BY <1>5

LEMMA AggregateFacts ==
  ASSUME NEW al \in Seq(Alert), NEW h \in Hit
  PROVE  LET bs == Aggregate(al, h) IN
         bs \in Seq(Alert) /\ Grows(al, bs) /\ Covered(bs, h)
<1>1. Len(al) \in Nat /\ \A i \in 1 .. Len(al) : al[i] \in Alert
  OBVIOUS
<1>2. CASE Dedup(al, h) = 0
  <2> DEFINE a == NewAlert(h)
             bs == Append(al, a)
  <2>1. Aggregate(al, h) = bs
    BY <1>2 DEF Aggregate
  <2>2. a \in Alert /\ DedupKey(a) = DedupKey(h)
    BY DEF NewAlert, Alert, Hit, DedupKey
  <2> HIDE DEF a
  <2>3. /\ bs \in Seq(Alert) /\ Len(bs) = Len(al) + 1
        /\ bs[Len(al) + 1] = a /\ \A i \in 1 .. Len(al) : bs[i] = al[i]
    BY <2>2
  <2> HIDE DEF bs
  <2>4. Grows(al, bs)
    BY <1>1, <2>3 DEF Grows
  <2>5. Covered(bs, h)
    BY <1>1, <2>2, <2>3 DEF Covered
  <2> QED
    BY <2>1, <2>3, <2>4, <2>5
<1>3. CASE Dedup(al, h) # 0
  <2> DEFINE i == Dedup(al, h)
             a == [al[i] EXCEPT !.last = h.at]
             bs == [al EXCEPT ![i] = a]
  <2>1. Aggregate(al, h) = bs
    BY <1>3 DEF Aggregate
  <2>2. i \in 1 .. Len(al) /\ DedupKey(al[i]) = DedupKey(h) /\ h.at \in Nat
    BY <1>3, DedupFacts DEF Hit
  <2> HIDE DEF i
  <2>3. bs = [j \in 1 .. Len(al) |-> IF j = i THEN a ELSE al[j]]
    <3> HIDE DEF a
    <3> QED
      BY <1>1, <2>2
  <2>4. a \in Alert /\ DedupKey(a) = DedupKey(al[i])
    <3>1. al[i] \in Alert
      BY <1>1, <2>2
    <3> QED
      BY <2>2, <3>1 DEF Alert, DedupKey
  <2> HIDE DEF bs, a
  <2>5. bs \in [1 .. Len(al) -> Alert]
    BY <1>1, <2>3, <2>4
  <2>6. bs \in Seq(Alert) /\ Len(bs) = Len(al)
    BY <1>1, <2>5
  <2>7. Grows(al, bs)
    BY <1>1, <2>2, <2>3, <2>4, <2>6 DEF Grows
  <2>8. Covered(bs, h)
    BY <1>1, <2>2, <2>3, <2>4, <2>6 DEF Covered
  <2> QED
    BY <2>1, <2>6, <2>7, <2>8
<1> QED
  BY <1>2, <1>3

\* After each hit the alerts have grown, and cover the hits so far.
LEMMA AfterFacts ==
  ASSUME NEW al \in Seq(Alert), NEW hits \in Seq(Hit)
  PROVE  /\ AlertsAfter(al, hits)[0] = al
         /\ \A n \in 0 .. Len(hits) :
              /\ AlertsAfter(al, hits)[n] \in Seq(Alert) /\ Grows(al, AlertsAfter(al, hits)[n])
              /\ \A i \in 1 .. n : Covered(AlertsAfter(al, hits)[n], hits[i])
         /\ \A n \in 1 .. Len(hits) : Grows(AlertsAfter(al, hits)[n - 1], AlertsAfter(al, hits)[n])
<1> DEFINE N == Len(hits)
           F == [n \in 1 .. N |-> [s \in Seq(Alert) |-> Aggregate(s, hits[n])]]
<1>1. N \in Nat /\ \A n \in 1 .. N : hits[n] \in Hit
  OBVIOUS
<1>2. F \in Steps(N, Seq(Alert))
  <2>1. \A n \in 1 .. N, s \in Seq(Alert) : Aggregate(s, hits[n]) \in Seq(Alert)
    BY <1>1, AggregateFacts
  <2> QED
    BY <2>1 DEF Steps
<1>3. PICK f \in Results(N, Seq(Alert)) : Folds(f, al, N, F)
  <2> DEFINE U == Seq(Alert)
  <2>1. N \in Nat /\ al \in U /\ F \in Steps(N, U)
    BY <1>1, <1>2
  <2> HIDE DEF N, F, U
  <2>2. \E f \in Results(N, U) : Folds(f, al, N, F)
    BY <2>1, FoldExists
  <2> QED
    BY <2>2 DEF U
<1>4. IsAfter(f, al, hits)
  <2>1. DOMAIN f = 0 .. N /\ f = [n \in 0 .. N |-> f[n]]
    BY DEF Results
  <2>2. ASSUME NEW n \in 1 .. N PROVE f[n] = Aggregate(f[n - 1], hits[n])
    <3>1. n - 1 \in 0 .. N
      BY <1>1
    <3>2. f[n - 1] \in Seq(Alert)
      BY <3>1 DEF Results
    <3>3. f[n] = F[n][f[n - 1]]
      BY <1>3 DEF Folds
    <3> QED
      BY <3>2, <3>3
  <2>3. f[0] = al
    BY <1>3 DEF Folds
  <2>4. \A n \in 0 .. N : n # 0 => n \in 1 .. N
    BY <1>1
  <2> QED
    BY <2>1, <2>2, <2>3, <2>4 DEF IsAfter
<1>5. IsAfter(AlertsAfter(al, hits), al, hits)
  BY <1>4 DEF AlertsAfter, IsAfter
<1> DEFINE a == AlertsAfter(al, hits)
<1>6. a[0] = al /\ \A n \in 1 .. N : a[n] = Aggregate(a[n - 1], hits[n])
  <2> HIDE DEF a
  <2>1. IsAfter(a, al, hits)
    BY <1>5 DEF a
  <2>2. 0 \in 0 .. N /\ \A n \in 1 .. N : n \in 0 .. N /\ n # 0
    BY <1>1
  <2> QED
    BY <2>1, <2>2, ZenonT(30) DEF IsAfter
<1> HIDE DEF a
<1> DEFINE Fine(n) == /\ a[n] \in Seq(Alert) /\ Grows(al, a[n])
                      /\ \A i \in 1 .. n : Covered(a[n], hits[i])
           Had == {n \in 0 .. N : Fine(n)}
<1>7. ASSUME NEW n \in 1 .. N, Fine(n - 1) PROVE Fine(n) /\ Grows(a[n - 1], a[n])
  <2>1. /\ a[n] \in Seq(Alert) /\ Grows(a[n - 1], a[n]) /\ Covered(a[n], hits[n])
    BY <1>1, <1>6, <1>7, AggregateFacts
  <2>2. Grows(a[n], a[n])
    BY <2>1, GrowsSame
  <2>3. Grows(al, a[n])
    BY <1>7, <2>1, GrowsFacts
  <2>4. \A h : Covered(a[n - 1], h) => Covered(a[n], h)
    BY <1>7, <2>1, <2>2, GrowsFacts
  <2>5. \A i \in 1 .. n : i = n \/ i \in 1 .. n - 1
    OBVIOUS
  <2>6. \A i \in 1 .. n : Covered(a[n], hits[i])
    BY <1>7, <2>1, <2>4, <2>5
  <2> QED
    BY <2>1, <2>3, <2>6
<1>8. Had = 0 .. N
  <2>1. Fine(0)
    BY <1>6, GrowsSame
  <2>2. ASSUME NEW n \in 1 .. N, n - 1 \in Had PROVE n \in Had
    <3>1. Fine(n - 1) /\ n \in 0 .. N
      BY <1>1, <2>2
    <3>2. Fine(n)
      BY <1>7, <3>1
    <3> HIDE DEF Fine
    <3> QED
      BY <3>1, <3>2
  <2> HIDE DEF Fine
  <2>3. 0 \in Had /\ Had \in SUBSET (0 .. N)
    BY <1>1, <2>1
  <2> HIDE DEF Had
  <2> QED
    BY <1>1, <2>2, <2>3, UpTo
<1>9. \A n \in 0 .. N : Fine(n)
  BY <1>8
<1>10. \A n \in 1 .. N : Grows(a[n - 1], a[n])
  <2>1. \A n \in 1 .. N : n - 1 \in 0 .. N
    BY <1>1
  <2> HIDE DEF Fine
  <2> QED
    BY <1>7, <1>9, <2>1
<1> QED
  BY <1>6, <1>9, <1>10 DEF a

-----------------------------------------------------------------------------
(* The alerts of a scan.                                                   *)

(***************************************************************************)
(* What a scan that waits for the lock, or has ended, relies on: each hit  *)
(* has an alert, or is still to get one.                                   *)
(***************************************************************************)
HitsOK(r, al) ==
  /\ r.hits \in Seq(Hit)
  /\ r.pc \notin {"store", "ok"} => r.hits = <<>>
  /\ r.pc = "ok" => \A h \in ToSet(r.hits) : Covered(al, h)
  /\ r.pc = "store" =>
       /\ r.left \in Seq(Hit) /\ \A b \in r.bump : b[2] \in Nat
       /\ \A h \in ToSet(r.hits) : Covered(al, h) \/ h \in ToSet(r.left)

\* The models that a request has still to try.
ModelsOK(r) == r.pc = "ask" => r.left \in Seq(ToSet(Models))

AlertInv == alerts \in Seq(Alert) /\ \A t \in Threads : HitsOK(req[t], alerts) /\ ModelsOK(req[t])

\* New alerts take nothing away from a request.
LEMMA HitsStay ==
  ASSUME NEW r, NEW al \in Seq(Alert), NEW bs \in Seq(Alert), Grows(al, bs), HitsOK(r, al)
  PROVE  HitsOK(r, bs)
<1>1. \A h : Covered(al, h) => Covered(bs, h)
  BY GrowsFacts, GrowsSame
<1> QED
  BY <1>1 DEF HitsOK

\* A step of one request, which may add alerts.
LEMMA OneScan ==
  ASSUME SafetyInv, AlertInv, NEW t \in Threads, NEW r, Becomes(t, r),
         alerts' \in Seq(Alert), Grows(alerts, alerts'), HitsOK(r, alerts'), ModelsOK(r)
  PROVE  AlertInv'
<1>1. req = [u \in Threads |-> req[u]] /\ req' = [req EXCEPT ![t] = r]
  BY DEF SafetyInv, TablesOK, Becomes
<1>2. req'[t] = r /\ \A u \in Threads \ {t} : req'[u] = req[u]
  BY <1>1
<1>3. \A u \in Threads \ {t} : HitsOK(req'[u], alerts') /\ ModelsOK(req'[u])
  BY <1>2, HitsStay DEF AlertInv
<1> QED
  BY <1>2, <1>3 DEF AlertInv

LEMMA NoHits ==
  ASSUME NEW r, NEW al, r.hits = <<>>, r.pc # "store"
  PROVE  HitsOK(r, al)
<1>1. ToSet(<<>>) = {} /\ <<>> \in Seq(Hit)
  BY DEF ToSet
<1> QED
  BY <1>1 DEF HitsOK

\* Most steps leave the alerts alone, of a request that has no hits.
LEMMA WithoutHits ==
  ASSUME SafetyInv, AlertInv, NEW t \in Threads, NEW r, Becomes(t, r), UNCHANGED alerts,
         r.pc # "store", r.hits = <<>>, ModelsOK(r)
  PROVE  AlertInv'
  BY NoHits, OneScan, GrowsSame DEF AlertInv

LEMMA HitsLater ==
  ASSUME SafetyInv, AlertInv, NEW t \in Threads, req[t].pc \notin {"store", "ok"}
  PROVE  /\ req[t].hits = <<>>
         /\ req[t] \in [kind: {req[t].kind}, pc: {req[t].pc}, cat: {req[t].cat}, todo: {req[t].todo},
                        dom: {req[t].dom}, left: {req[t].left}, seen: {req[t].seen}, pend: {req[t].pend},
                        answer: {req[t].answer}, count: {req[t].count}, bump: {req[t].bump},
                        hits: {req[t].hits}]
  BY RequestFacts DEF AlertInv, HitsOK, IsRequest

LEMMA EndsWithoutHits ==
  ASSUME SafetyInv, AlertInv, NEW t \in Threads, UNCHANGED alerts,
         \/ Fail(t)
         \/ Succeed(t) /\ req[t].pc \notin {"store", "ok"}
  PROVE  AlertInv'
<1>1. \E pc, count : pc \in {"ok", "error"} /\ End(t, pc, count, <<>>)
  BY HitsLater DEF Fail, Succeed
<1>2. PICK pc, count : pc \in {"ok", "error"} /\ End(t, pc, count, <<>>)
  BY <1>1
<1> DEFINE r == [Rest EXCEPT !.kind = req[t].kind, !.pc = pc, !.count = count, !.hits = <<>>]
<1>3. Becomes(t, r)
  BY <1>2 DEF End, Becomes
<1>4. r.pc = pc /\ r.hits = <<>>
  BY DEF Rest
<1> HIDE DEF r
<1> QED
  BY <1>2, <1>3, <1>4, WithoutHits DEF ModelsOK

LEMMA AiFailsWithoutHits ==
  ASSUME SafetyInv, AlertInv, NEW t \in Threads, UNCHANGED alerts, AiFails(t)
  PROVE  AlertInv'
<1>1. CASE Fail(t)
  BY <1>1, EndsWithoutHits
<1>2. CASE ~Fail(t)
  <2> DEFINE r == [Rest EXCEPT !.kind = req[t].kind, !.count = req[t].count, !.pc = AfterAi(req[t].kind)]
  <2>1. Becomes(t, r)
    BY <1>2 DEF AiFails
  <2>2. r.pc \notin {"store", "ask"} /\ r.hits = <<>>
    BY DEF Rest, AfterAi
  <2> HIDE DEF r
  <2> QED
    BY <2>1, <2>2, WithoutHits DEF ModelsOK
<1> QED
  BY <1>1, <1>2

LEMMA PassAlerts == ASSUME SafetyInv, AlertInv, NEW t \in Threads, Pass(t) PROVE AlertInv'
<1> USE DEF dataVars, aiVars
<1>1. CASE List(t)
  <2>1. req[t].pc = "list" /\ UNCHANGED alerts
    BY <1>1 DEF List
  <2>2. \E todo, pc : pc \notin {"store", "ask"} /\ Becomes(t, [req[t] EXCEPT !.todo = todo, !.count = todo, !.pc = pc])
    BY <1>1 DEF List
  <2> QED
    BY <2>1, <2>2, HitsLater, WithoutHits DEF ModelsOK
<1>2. CASE Get(t)
  <2>1. req[t].pc = "get" /\ UNCHANGED alerts
    BY <1>2 DEF Get
  <2>2. \E pend, seen : Becomes(t, [req[t] EXCEPT !.pend = pend, !.seen = seen, !.pc = "flush"])
    BY <1>2 DEF Get
  <2> QED
    BY <2>1, <2>2, HitsLater, WithoutHits DEF ModelsOK
<1>3. CASE Flush(t)
  BY <1>3, HitsLater, WithoutHits DEF ModelsOK, Flush
<1>4. CASE FlushFails(t)
  BY <1>4, EndsWithoutHits DEF FlushFails
<1>5. CASE SkipAi(t)
  BY <1>5, HitsLater, WithoutHits DEF ModelsOK, SkipAi, AfterAi
<1>6. CASE Candidates(t)
  <2>1. req[t].pc = "ai" /\ UNCHANGED alerts
    BY <1>6 DEF Candidates
  <2>2. \E todo : Becomes(t, [req[t] EXCEPT !.todo = todo, !.pc = "regard"])
    BY <1>6 DEF Candidates
  <2> QED
    BY <2>1, <2>2, HitsLater, WithoutHits DEF ModelsOK
<1>7. CASE Regard(t)
  <2>1. req[t].pc = "regard" /\ UNCHANGED alerts
    BY <1>7 DEF Regard
  <2>2. \E pend, seen, todo : Becomes(t, [req[t] EXCEPT !.pend = pend, !.seen = seen, !.todo = todo, !.pc = "commit"])
    BY <1>7 DEF Regard
  <2> QED
    BY <2>1, <2>2, HitsLater, WithoutHits DEF ModelsOK
<1>8. CASE CommitRules(t) \/ CommitVerdicts(t)
  <2>1. req[t].pc \in {"commit", "commit2"} /\ UNCHANGED alerts
    BY <1>8 DEF CommitRules, CommitVerdicts
  <2>2. \E pc : pc \notin {"store", "ask"} /\ Becomes(t, [Clean(t) EXCEPT !.pc = pc])
    BY <1>8 DEF CommitRules, CommitVerdicts, AfterAi
  <2> QED
    BY <2>1, <2>2, HitsLater, WithoutHits DEF ModelsOK, Clean
<1>9. CASE CommitFails(t)
  BY <1>9, AiFailsWithoutHits DEF CommitFails
<1>10. CASE ReadBack(t)
  <2>1. req[t].pc = "read" /\ UNCHANGED alerts
    BY <1>10 DEF ReadBack
  <2>2. \E seen, pend, pc : pc \notin {"store", "ask"} /\ Becomes(t, [req[t] EXCEPT !.seen = seen, !.pend = pend, !.pc = pc])
    BY <1>10 DEF ReadBack, AfterAi
  <2> QED
    BY <2>1, <2>2, HitsLater, WithoutHits DEF ModelsOK
<1> QED
  BY <1>1, <1>2, <1>3, <1>4, <1>5, <1>6, <1>7, <1>8, <1>9, <1>10 DEF Pass

LEMMA SingleAlerts == ASSUME SafetyInv, AlertInv, NEW t \in Threads, Single(t) PROVE AlertInv'
<1> USE DEF dataVars, aiVars
<1>1. CASE Look(t)
  <2>1. req[t].pc = "look" /\ UNCHANGED alerts
    BY <1>1 DEF Look
  <2>2. \E ch, row, pc : pc \notin {"store", "ask"} /\ Becomes(t, [req[t] EXCEPT !.pend[req[t].dom] = ch, !.seen[req[t].dom] = row, !.pc = pc])
    BY <1>1 DEF Look
  <2> QED
    BY <2>1, <2>2, HitsLater, WithoutHits DEF ModelsOK
<1>2. CASE FlushOne(t)
  <2>1. req[t].pc = "flushone" /\ UNCHANGED alerts
    BY <1>2 DEF FlushOne
  <2>2. \E pc : pc \notin {"store", "ask"} /\ Becomes(t, [req[t] EXCEPT !.pc = pc])
    BY <1>2 DEF FlushOne
  <2> QED
    BY <2>1, <2>2, HitsLater, WithoutHits DEF ModelsOK
<1>3. CASE Final(t)
  BY <1>3, EndsWithoutHits DEF Final
<1>4. CASE WriteFails(t)
  BY <1>4, EndsWithoutHits DEF WriteFails
<1> QED
  BY <1>1, <1>2, <1>3, <1>4 DEF Single

LEMMA SettlesWithoutHits ==
  ASSUME SafetyInv, AlertInv, NEW t \in Threads, NEW d, NEW v, UNCHANGED alerts,
         Settles(t, d, v), req[t].pc \in Network
  PROVE  AlertInv'
<1>1. req[t].pc \notin {"store", "ok"}
  BY DEF Network
<1>2. CASE Succeed(t)
  BY <1>1, <1>2, EndsWithoutHits
<1>3. CASE Becomes(t, Answered(t, d, v))
  <2>1. \E ans, todo, pc : pc \notin {"store", "ask"} /\ Becomes(t, [req[t] EXCEPT !.answer = ans, !.todo = todo, !.dom = None, !.left = <<>>, !.pc = pc])
    BY <1>3 DEF Answered
  <2> QED
    BY <1>1, <2>1, HitsLater, WithoutHits DEF ModelsOK
<1> QED
  BY <1>2, <1>3 DEF Settles

\* The models that are tried are those of the list.
LEMMA StillToTry == Models \in Seq(ToSet(Models)) /\ Without(Models, cooling) \in Seq(ToSet(Models))
<1>1. Models \in Seq(ToSet(Models))
  <2>1. Models \in [1 .. Len(Models) -> ToSet(Models)] /\ Len(Models) \in Nat
    BY SafetyAssumption DEF ToSet
  <2> QED
    BY <2>1
<1> QED
  BY <1>1, WithoutFacts

LEMMA LeftToTry ==
  ASSUME AlertInv, NEW t \in Threads, Ask(t)
  PROVE  Without(req[t].left, cooling) \in Seq(ToSet(Models))
<1>1. req[t].left \in Seq(ToSet(Models))
  BY DEF AlertInv, ModelsOK, Ask
<1> QED
  BY <1>1, WithoutFacts

LEMMA ModelAlerts == ASSUME SafetyInv, AlertInv, NEW t \in Threads, Model(t) PROVE AlertInv'
<1> USE DEF dataVars, aiVars
<1>1. CASE Cached(t)
  <2>1. req[t].pc = "cached" /\ UNCHANGED alerts
    BY <1>1 DEF Cached
  <2>2. \/ \E d : Settles(t, d, cache[d])
        \/ \E d : Becomes(t, [req[t] EXCEPT !.dom = d, !.pc = "pick"])
    BY <1>1 DEF Cached
  <2>3. CASE \E d : Settles(t, d, cache[d])
    BY <2>1, <2>3, SettlesWithoutHits DEF Network
  <2>4. CASE \E d : Becomes(t, [req[t] EXCEPT !.dom = d, !.pc = "pick"])
    BY <2>1, <2>4, HitsLater, WithoutHits DEF ModelsOK
  <2> QED
    BY <2>2, <2>3, <2>4
<1>2. CASE Pick(t) \/ Wake(t) \/ Ask(t)
  <2>1. req[t].pc \in {"pick", "wait", "ask"} /\ UNCHANGED alerts
    BY <1>2 DEF Pick, Wake, Ask
  <2>2. \/ \E v : Becomes(t, Told(t, v))
        \/ \E left : Becomes(t, [req[t] EXCEPT !.left = left, !.pc = "wait"])
        \/ \E left \in Seq(ToSet(Models)) : Becomes(t, [req[t] EXCEPT !.left = left, !.pc = "ask"])
    <3>1. CASE Pick(t)
      <4> DEFINE fresh == Without(Models, cooling)
      <4>1. \/ Becomes(t, Told(t, "UNKNOWN"))
            \/ Becomes(t, [req[t] EXCEPT !.left = fresh, !.pc = "wait"])
            \/ Becomes(t, [req[t] EXCEPT !.left = fresh, !.pc = "ask"])
        BY <3>1 DEF Pick
      <4>2. fresh \in Seq(ToSet(Models))
        BY StillToTry
      <4> HIDE DEF fresh
      <4> QED
        BY <4>1, <4>2
    <3>2. CASE Wake(t)
      <4> DEFINE recovered == Without(Models, cooling)
      <4>1. \/ Becomes(t, [req[t] EXCEPT !.left = recovered, !.pc = "ask"])
            \/ Becomes(t, [req[t] EXCEPT !.left = Models, !.pc = "ask"])
        BY <3>2 DEF Wake
      <4>2. recovered \in Seq(ToSet(Models)) /\ Models \in Seq(ToSet(Models))
        BY StillToTry
      <4> HIDE DEF recovered
      <4> QED
        BY <4>1, <4>2
    <3>3. CASE Ask(t)
      <4> DEFINE left == Without(req[t].left, cooling)
      <4>1. \/ \E v : Becomes(t, Told(t, v))
            \/ left # <<>> /\ Becomes(t, [req[t] EXCEPT !.left = Tail(left)])
        BY <3>3 DEF Ask
      <4>2. left \in Seq(ToSet(Models))
        BY <3>3, LeftToTry
      <4>3. [req[t] EXCEPT !.left = Tail(left)] = [req[t] EXCEPT !.left = Tail(left), !.pc = "ask"]
        <5>1. req[t].pc = "ask"
          BY <3>3 DEF Ask
        <5> HIDE DEF left
        <5> QED
          BY <5>1, HitsLater
      <4> HIDE DEF left
      <4>4. left # <<>> => Tail(left) \in Seq(ToSet(Models))
        BY <4>2
      <4> QED
        BY <4>1, <4>3, <4>4
    <3> QED
      BY <1>2, <3>1, <3>2, <3>3
  <2>3. CASE \E v : Becomes(t, Told(t, v))
    <3>1. PICK v : Becomes(t, Told(t, v))
      BY <2>3
    <3> DEFINE ans == [req[t].answer EXCEPT ![req[t].dom] = v]
    <3>2. Told(t, v) = [req[t] EXCEPT !.answer = ans, !.left = <<>>, !.pc = "save"]
      BY DEF Told
    <3> HIDE DEF ans
    <3> QED
      BY <2>1, <3>1, <3>2, HitsLater, WithoutHits DEF ModelsOK
  <2>4. CASE \E left : Becomes(t, [req[t] EXCEPT !.left = left, !.pc = "wait"])
    BY <2>1, <2>4, HitsLater, WithoutHits DEF ModelsOK
  <2>5. CASE \E left \in Seq(ToSet(Models)) : Becomes(t, [req[t] EXCEPT !.left = left, !.pc = "ask"])
    BY <2>1, <2>5, HitsLater, WithoutHits DEF ModelsOK
  <2> QED
    BY <2>2, <2>3, <2>4, <2>5
<1>3. CASE Save(t)
  BY <1>3, SettlesWithoutHits DEF Save, Network
<1>4. CASE SaveFails(t)
  BY <1>4, AiFailsWithoutHits DEF SaveFails
<1> QED
  BY <1>1, <1>2, <1>3, <1>4 DEF Model

\* evaluate gives an alert type, that of the first check that answers.
LEMMA EvaluateType ==
  ASSUME NEW d, NEW c, NEW v
  PROVE  Evaluate(d, c, v).type \in AlertType \cup {"NONE"}
<1> DEFINE Typed(x) == x.type \in AlertType \cup {"NONE"}
           c1 == CheckUnsafeCategory(d, c)
           c2 == CheckExplicitKeywords(d)
           c3 == CheckPhishing(d)
           c4 == CheckBypass(d, v)
           c5 == CheckTunnel(d)
           checks == <<c1, c2, c3, c4, c5>>
           hits == {i \in DOMAIN checks : checks[i] # Quiet}
           i == CHOOSE i \in hits : \A j \in hits : i <= j
<1>1. /\ Typed(Quiet)
      /\ \A s, u : /\ Typed(Result("UNSAFE_CATEGORY", s, u)) /\ Typed(Result("PHISHING_SUSPICIOUS", s, u))
                   /\ Typed(Result("BYPASS_ATTEMPT", s, u))
  <2>1. \A x, s, u : Result(x, s, u).type = x
    BY DEF Result
  <2>2. Quiet.type = "NONE"
    BY DEF Quiet
  <2> QED
    BY <2>1, <2>2 DEF AlertType
<1>2. Typed(c1) /\ Typed(c2) /\ Typed(c3) /\ Typed(c4) /\ Typed(c5)
  <2> HIDE DEF Typed
  <2>1. Typed(c1)
    BY <1>1, Zenon DEF CheckUnsafeCategory
  <2>2. Typed(c2)
    BY <1>1, Zenon DEF CheckExplicitKeywords
  <2>3. Typed(c3)
    BY <1>1, Zenon DEF CheckPhishing
  <2>4. Typed(c4)
    BY <1>1, Zenon DEF CheckBypass
  <2>5. Typed(c5)
    BY <1>1, Zenon DEF CheckTunnel
  <2> QED
    BY <2>1, <2>2, <2>3, <2>4, <2>5
<1>3. Evaluate(d, c, v) = IF hits = {} THEN Quiet ELSE checks[i]
  BY DEF Evaluate
<1> HIDE DEF c1, c2, c3, c4, c5, Typed
<1>4. \A n \in DOMAIN checks : Typed(checks[n])
  BY <1>2
<1>5. hits # {} => i \in hits
  <2>1. 5 \in Nat /\ hits \in SUBSET (0 .. 5)
    OBVIOUS
  <2> HIDE DEF hits
  <2>2. hits # {} => \E x \in hits : \A y \in hits : x <= y
    BY <2>1, SmallestExists
  <2> QED
    BY <2>2
<1>6. hits # {} => i \in DOMAIN checks
  BY <1>5
<1> HIDE DEF checks, hits, i
<1> QED
  BY <1>1, <1>3, <1>4, <1>6 DEF Typed

\* The hits are queries that raise an alert.
LEMMA HitsOfType ==
  ASSUME SafetyInv, NEW t \in Threads, NEW limit \in ScanLimits
  PROVE  HitsOf(t, limit) \in Seq(Hit)
<1> DEFINE n == Len(queries)
           m == IF n < limit THEN n ELSE limit
           cat(d) == IF View(t)[d] = None THEN Static[d] ELSE View(t)[d].cat
           type(d) == AlertFor[d][cat(d)].type
           hit(i) == [dev |-> queries[i].dev, dom |-> queries[i].dom, type |-> type(queries[i].dom), at |-> i]
           scanned == [i \in 1 .. m |-> hit(n + 1 - i)]
           all == ToSet(scanned)
           quiet == {h \in ToSet(scanned) : h.type = "NONE"}
<1>1. /\ n \in Nat /\ m \in Nat /\ m <= n
      /\ \A i \in 1 .. n : queries[i].dom \in Domains /\ queries[i].dev \in Askers
  <2>1. n \in Nat /\ \A i \in 1 .. n : queries[i] \in Query
    BY DEF SafetyInv, TablesOK
  <2>2. limit \in Nat
    BY SafetyAssumption
  <2> QED
    BY <2>1, <2>2 DEF Query
<1>2. \A d \in Domains : cat(d) \in Categories
  <2>1. \A d \in Domains : IsRow(View(t)[d])
    BY ViewFacts
  <2> QED
    BY <2>1, StaticType DEF IsRow, Row
<1>3. \A d \in Domains, c \in Categories : AlertFor[d][c].type \in AlertType \cup {"NONE"}
  <2>1. \A d \in Domains, c \in Categories : AlertFor[d][c] = Evaluate(d, c, "FULL")
    BY DEF AlertFor
  <2> QED
    BY <2>1, EvaluateType
<1>4. \A i \in 1 .. n : hit(i) \in [dev: Askers, dom: Domains, type: AlertType \cup {"NONE"}, at: Nat]
  <2> HIDE DEF cat
  <2> QED
    BY <1>1, <1>2, <1>3
<1>5. scanned \in Seq(all) /\ \A h \in all : h.type # "NONE" => h \in Hit
  <2> HIDE DEF hit, n, m
  <2>1. \A i \in 1 .. m : n + 1 - i \in 1 .. n
    BY <1>1
  <2>2. DOMAIN scanned = 1 .. m /\ \A i \in 1 .. m : scanned[i] = hit(n + 1 - i)
    OBVIOUS
  <2>3. \A h \in all : \E i \in 1 .. n : h = hit(i)
    <3> HIDE DEF scanned
    <3> QED
      BY <2>1, <2>2 DEF ToSet
  <2>4. scanned \in [1 .. m -> all]
    BY <2>2 DEF ToSet
  <2>5. scanned \in Seq(all)
    <3> HIDE DEF scanned, all
    <3> QED
      BY <1>1, <2>4
  <2>6. \A h \in [dev: Askers, dom: Domains, type: AlertType \cup {"NONE"}, at: Nat] : h.type # "NONE" => h \in Hit
    BY DEF Hit
  <2> HIDE DEF scanned, all
  <2> QED
    BY <1>4, <2>3, <2>5, <2>6
<1>6. HitsOf(t, limit) = Without(scanned, quiet)
  BY DEF HitsOf
<1>7. \A h \in all : h \notin quiet => h.type # "NONE"
  OBVIOUS
<1> DEFINE kept == Without(scanned, quiet)
<1>8. kept \in Seq(all) /\ \A i \in DOMAIN kept : kept[i] \notin quiet
  <2> HIDE DEF scanned, quiet, all
  <2> QED
    BY <1>5, WithoutFacts
<1> HIDE DEF scanned, quiet, all, kept
<1>9. DOMAIN kept = 1 .. Len(kept) /\ Len(kept) \in Nat /\ \A i \in DOMAIN kept : kept[i] \in Hit
  BY <1>5, <1>7, <1>8
<1>10. kept \in [1 .. Len(kept) -> Hit]
  BY <1>8, <1>9
<1>11. kept \in Seq(Hit)
  BY <1>9, <1>10
<1> QED
  BY <1>6, <1>11 DEF kept

\* The scan reads up to the first hit that would add an alert: the hits before
\* it have one.
LEMMA FirstNew ==
  ASSUME NEW al \in Seq(Alert), NEW hits \in Seq(Hit)
  PROVE  LET read == AlertsAfter(al, hits)
             first == CHOOSE n \in 0 .. Len(hits) :
                        /\ Len(read[n]) = Len(al)
                        /\ n < Len(hits) => Len(read[n + 1]) > Len(al)
         IN  /\ first \in 0 .. Len(hits) /\ read[first] \in Seq(Alert) /\ Len(read[first]) = Len(al)
             /\ \A i \in 1 .. first : Covered(al, hits[i])
<1> DEFINE read == AlertsAfter(al, hits)
           N == Len(hits)
           Old == {n \in 0 .. N : Len(read[n]) = Len(al)}
           IsFirst(n) == /\ Len(read[n]) = Len(al)
                         /\ n < N => Len(read[n + 1]) > Len(al)
           first == CHOOSE n \in 0 .. N : IsFirst(n)
<1>1. N \in Nat /\ Len(al) \in Nat
  OBVIOUS
<1>2. /\ read[0] = al
      /\ \A n \in 0 .. N : /\ read[n] \in Seq(Alert) /\ Grows(al, read[n])
                           /\ \A i \in 1 .. n : Covered(read[n], hits[i])
  BY AfterFacts
<1> HIDE DEF read, N
<1>3. 0 \in Old /\ Old \in SUBSET (0 .. N)
  BY <1>1, <1>2
<1>4. PICK n \in Old : \A m \in Old : m <= n
  <2> HIDE DEF Old
  <2> QED
    BY <1>1, <1>3, LargestExists
<1>5. IsFirst(n)
  <2>1. ASSUME n < N PROVE Len(read[n + 1]) > Len(al)
    <3>1. n + 1 \in 0 .. N /\ n + 1 \notin Old
      BY <1>1, <1>4, <2>1
    <3>2. Len(read[n + 1]) # Len(al)
      BY <3>1
    <3>3. Len(al) <= Len(read[n + 1]) /\ Len(read[n + 1]) \in Nat
      <4>1. read[n + 1] \in Seq(Alert) /\ Grows(al, read[n + 1])
        BY <1>2, <3>1
      <4> QED
        BY <4>1 DEF Grows
    <3> QED
      BY <1>1, <3>2, <3>3
  <2> QED
    BY <2>1
<1>6. first \in 0 .. N /\ IsFirst(first)
  <2> HIDE DEF IsFirst
  <2>1. \E m \in 0 .. N : IsFirst(m)
    BY <1>5
  <2> QED
    BY <2>1
<1> HIDE DEF first
<1>7. read[first] \in Seq(Alert) /\ Len(read[first]) = Len(al) /\ Grows(al, read[first])
  BY <1>2, <1>6
<1>8. ASSUME NEW i \in 1 .. first PROVE Covered(al, hits[i])
  <2>1. Covered(read[first], hits[i])
    BY <1>2, <1>6
  <2> QED
    BY <1>7, <2>1, GrowsFacts, GrowsSame
<1> QED
  BY <1>6, <1>7, <1>8 DEF first, read, N

LEMMA ScanAlerts == ASSUME SafetyInv, AlertInv, NEW t \in Threads, Scan(t) PROVE AlertInv'
<1>0. PICK limit \in ScanLimits : Scanned(t, limit)
  BY ScanByLimit
<1> DEFINE p == req[t]
           hits == HitsOf(t, limit)
           N == Len(hits)
           read == AlertsAfter(alerts, hits)
           first == CHOOSE n \in 0 .. Len(hits) :
                      /\ Len(read[n]) = Len(alerts)
                      /\ n < Len(hits) => Len(read[n + 1]) > Len(alerts)
           bump == {<<i, read[first][i].last>> : i \in {k \in DOMAIN alerts : read[first][k] # alerts[k]}}
           left == SubSeq(hits, first + 1, Len(hits))
           next == IF hits = <<>> THEN "final" ELSE "store"
           r == [p EXCEPT !.hits = hits, !.bump = bump, !.left = left, !.pc = next]
<1>1. p.pc = "scan" /\ UNCHANGED alerts /\ Becomes(t, r)
  BY <1>0 DEF Scan, Scanned, dataVars
<1>2. hits \in Seq(Hit) /\ alerts \in Seq(Alert)
  BY HitsOfType DEF AlertInv
<1>3. /\ first \in 0 .. N /\ read[first] \in Seq(Alert) /\ Len(read[first]) = Len(alerts)
      /\ \A i \in 1 .. first : Covered(alerts, hits[i])
  <2> HIDE DEF hits
  <2> QED
    BY <1>2, FirstNew
<1> HIDE DEF hits, first, read
<1>4. \A b \in bump : b[2] \in Nat
  <2>1. \A k \in DOMAIN alerts : read[first][k] \in Alert
    BY <1>2, <1>3
  <2> QED
    BY <2>1 DEF Alert
<1>5. left \in Seq(Hit) /\ \A i \in 1 .. N : i > first => hits[i] \in ToSet(left)
  <2>1. N \in Nat /\ first \in Nat /\ first <= N
    BY <1>2, <1>3
  <2>2. left \in Seq(Hit) /\ Len(left) = N - first /\ \A j \in 1 .. N - first : left[j] = hits[first + j]
    BY <1>2, <2>1
  <2> HIDE DEF left, N
  <2>3. ASSUME NEW i \in 1 .. N, i > first PROVE hits[i] \in ToSet(left)
    <3>1. i - first \in 1 .. N - first /\ first + (i - first) = i
      BY <2>1, <2>3
    <3>2. left[i - first] = hits[i] /\ i - first \in DOMAIN left
      BY <2>2, <3>1
    <3> QED
      BY <3>2 DEF ToSet
  <2> QED
    BY <2>2, <2>3
<1>6. \A h \in ToSet(hits) : Covered(alerts, h) \/ h \in ToSet(left)
  <2>1. SUFFICES ASSUME NEW h \in ToSet(hits) PROVE Covered(alerts, h) \/ h \in ToSet(left)
    OBVIOUS
  <2>2. PICK i \in 1 .. N : h = hits[i]
    BY <1>2 DEF ToSet
  <2>3. i > first \/ i \in 1 .. first
    BY <1>2, <1>3
  <2> HIDE DEF left
  <2> QED
    BY <1>3, <1>5, <2>2, <2>3
<1> HIDE DEF bump, left
<1>7. r.hits = hits /\ r.bump = bump /\ r.left = left /\ r.pc = next
  BY <1>1, HitsLater
<1>8. HitsOK(r, alerts)
  <2>1. r.pc \in {"final", "store"} /\ (r.pc \notin {"store", "ask"} => r.hits = <<>>)
    BY <1>7
  <2> HIDE DEF r, next
  <2> QED
    BY <1>2, <1>4, <1>5, <1>6, <1>7, <2>1 DEF HitsOK
<1>9. ModelsOK(r)
  BY <1>7 DEF ModelsOK
<1> HIDE DEF r
<1> QED
  BY <1>1, <1>2, <1>7, <1>8, <1>9, OneScan, GrowsSame

\* An alert that keeps its domain and type.
LEMMA ChangeOne ==
  ASSUME NEW al \in Seq(Alert), NEW bs, DOMAIN bs = DOMAIN al, bs = [i \in DOMAIN al |-> bs[i]],
         \A i \in DOMAIN al : bs[i] \in Alert /\ DedupKey(bs[i]) = DedupKey(al[i])
  PROVE  bs \in Seq(Alert) /\ Grows(al, bs)
<1>1. DOMAIN al = 1 .. Len(al) /\ Len(al) \in Nat
  OBVIOUS
<1>2. bs \in [1 .. Len(al) -> Alert]
  BY <1>1
<1>3. bs \in Seq(Alert) /\ Len(bs) = Len(al)
  BY <1>1, <1>2
<1> QED
  BY <1>1, <1>3 DEF Grows

\* The store adds the alerts that are left, to what is there by then.
LEMMA StoreAlerts == ASSUME SafetyInv, AlertInv, NEW t \in Threads, Store(t) PROVE AlertInv'
<1> DEFINE p == req[t]
           last(i) == {b[2] : b \in {c \in p.bump : c[1] = i}}
           bumped == [i \in DOMAIN alerts |-> IF last(i) = {} THEN alerts[i]
                                              ELSE [alerts[i] EXCEPT !.last = CHOOSE x \in last(i) : TRUE]]
           left == p.left
           more == Append(bumped, NewAlert(Head(left)))
<1>1. /\ p.pc = "store" /\ Succeed(t)
      /\ alerts' = IF left = <<>> THEN bumped ELSE AlertsAfter(more, Tail(left))[Len(left) - 1]
  BY DEF Store
<1>2. /\ p.hits \in Seq(Hit) /\ left \in Seq(Hit) /\ alerts \in Seq(Alert)
      /\ \A b \in p.bump : b[2] \in Nat
      /\ \A h \in ToSet(p.hits) : Covered(alerts, h) \/ h \in ToSet(left)
  BY <1>1 DEF AlertInv, HitsOK
<1>3. bumped \in Seq(Alert) /\ Grows(alerts, bumped)
  <2>1. \A i \in DOMAIN alerts : last(i) # {} => (CHOOSE x \in last(i) : TRUE) \in Nat
    <3>1. \A i : last(i) \subseteq Nat
      BY <1>2
    <3> HIDE DEF last
    <3> QED
      BY <3>1
  <2>2. \A i \in DOMAIN alerts : alerts[i] \in Alert
    BY <1>2
  <2>3. ASSUME NEW i \in DOMAIN alerts
        PROVE  bumped[i] \in Alert /\ DedupKey(bumped[i]) = DedupKey(alerts[i])
    <3> DEFINE x == CHOOSE x \in last(i) : TRUE
    <3>1. bumped[i] = IF last(i) = {} THEN alerts[i] ELSE [alerts[i] EXCEPT !.last = x]
      OBVIOUS
    <3>2. last(i) # {} => x \in Nat
      BY <2>1
    <3> HIDE DEF x, bumped, last
    <3> QED
      BY <2>2, <3>1, <3>2 DEF Alert, DedupKey
  <2>4. DOMAIN bumped = DOMAIN alerts /\ bumped = [i \in DOMAIN alerts |-> bumped[i]]
    OBVIOUS
  <2> HIDE DEF bumped
  <2> QED
    BY <1>2, <2>3, <2>4, ChangeOne
<1> HIDE DEF bumped
<1>4. /\ alerts' \in Seq(Alert) /\ Grows(alerts, alerts')
      /\ \A h \in ToSet(left) : Covered(alerts', h)
  <2>1. CASE left = <<>>
    BY <1>1, <1>3, <2>1 DEF ToSet
  <2>2. CASE left # <<>>
    <3> DEFINE h1 == Head(left)
               rest == Tail(left)
               n == Len(left) - 1
    <3>1. h1 \in Hit /\ rest \in Seq(Hit) /\ Len(rest) = n /\ n \in Nat
      BY <1>2, <2>2
    <3>2. \A h \in ToSet(left) : h = h1 \/ \E i \in 1 .. n : h = rest[i]
      <4>1. SUFFICES ASSUME NEW i \in 1 .. Len(left)
                     PROVE  left[i] = h1 \/ \E j \in 1 .. n : left[i] = rest[j]
        <5>1. DOMAIN left = 1 .. Len(left)
          BY <1>2
        <5> HIDE DEF left, h1, n, rest
        <5> QED
          BY <5>1 DEF ToSet
      <4>2. CASE i = 1
        BY <1>2, <2>2, <4>2
      <4>3. CASE i # 1
        <5>1. i - 1 \in 1 .. n /\ rest[i - 1] = left[i]
          BY <1>2, <2>2, <4>3
        <5> HIDE DEF n, rest
        <5> QED
          BY <5>1
      <4> QED
        BY <4>2, <4>3
    <3>3. more \in Seq(Alert) /\ Grows(bumped, more) /\ Covered(more, h1)
      <4> DEFINE a == NewAlert(h1)
      <4>1. a \in Alert /\ DedupKey(a) = DedupKey(h1)
        BY <3>1 DEF NewAlert, Alert, Hit, DedupKey
      <4> HIDE DEF a
      <4>2. more = Append(bumped, a)
        BY DEF a
      <4>3. Len(bumped) \in Nat
        BY <1>3
      <4>4. /\ more \in Seq(Alert) /\ Len(more) = Len(bumped) + 1
            /\ more[Len(bumped) + 1] = a /\ \A i \in 1 .. Len(bumped) : more[i] = bumped[i]
        BY <1>3, <4>1, <4>2
      <4> HIDE DEF more, h1
      <4>5. Grows(bumped, more)
        BY <4>3, <4>4 DEF Grows
      <4>6. Covered(more, h1)
        BY <4>1, <4>3, <4>4 DEF Covered
      <4> QED
        BY <4>4, <4>5, <4>6
    <3> HIDE DEF more, h1, rest, n
    <3>4. alerts' = AlertsAfter(more, rest)[n]
      BY <1>1, <2>2 DEF rest, n
    <3>5. /\ alerts' \in Seq(Alert) /\ Grows(more, alerts')
          /\ \A i \in 1 .. n : Covered(alerts', rest[i])
      <4>1. n \in 0 .. Len(rest)
        BY <3>1
      <4> QED
        BY <3>1, <3>3, <3>4, <4>1, AfterFacts
    <3>6. Grows(alerts, more)
      BY <1>2, <1>3, <3>3, GrowsFacts
    <3>7. Grows(alerts, alerts') /\ Covered(alerts', h1)
      BY <1>2, <3>3, <3>5, <3>6, GrowsFacts, GrowsSame
    <3> QED
      BY <3>2, <3>5, <3>7
  <2> QED
    BY <2>1, <2>2
<1> DEFINE r == [Rest EXCEPT !.kind = p.kind, !.pc = "ok", !.count = p.count, !.hits = p.hits]
<1>5. Becomes(t, r)
  BY <1>1 DEF Succeed, End, Becomes
<1>6. r.pc = "ok" /\ r.hits = p.hits
  BY DEF Rest
<1>7. \A h : Covered(alerts, h) => Covered(alerts', h)
  BY <1>2, <1>4, GrowsFacts, GrowsSame
<1> HIDE DEF r, left
<1>8. HitsOK(r, alerts') /\ ModelsOK(r)
  BY <1>2, <1>4, <1>6, <1>7 DEF HitsOK, ModelsOK
<1> QED
  BY <1>4, <1>5, <1>8, OneScan

LEMMA AlertingAlerts == ASSUME SafetyInv, AlertInv, NEW t \in Threads, Alerting(t) PROVE AlertInv'
<1>1. CASE Scan(t)        BY <1>1, ScanAlerts
<1>2. CASE Store(t)       BY <1>2, StoreAlerts
<1>3. CASE StoreFails(t)  BY <1>3, EndsWithoutHits DEF StoreFails, dataVars
<1> QED
  BY <1>1, <1>2, <1>3 DEF Alerting

\* The parent closes or reopens an alert, which keeps its domain and type.
LEMMA OutsideAlerts == ASSUME SafetyInv, AlertInv, Outside PROVE AlertInv'
<1>1. CASE Restart
  <2>1. alerts' = alerts /\ req' = [t \in Threads |-> Rest]
    BY <1>1 DEF Restart
  <2>2. Rest.hits = <<>> /\ Rest.pc = "idle"
    BY DEF Rest
  <2>3. \A t \in Threads : HitsOK(req'[t], alerts) /\ ModelsOK(req'[t])
    BY <2>1, <2>2, NoHits DEF ModelsOK
  <2> QED
    BY <2>1, <2>3 DEF AlertInv
<1>2. CASE \E i \in DOMAIN alerts, b \in BOOLEAN : UpdateAlert(i, b)
  <2>1. PICK i \in DOMAIN alerts, b \in BOOLEAN : UpdateAlert(i, b)
    BY <1>2
  <2> DEFINE a == [alerts[i] EXCEPT !.active = b]
             bs == [alerts EXCEPT ![i] = a]
  <2>2. alerts' = bs /\ req' = req
    BY <2>1 DEF UpdateAlert
  <2>3. alerts \in Seq(Alert) /\ \A k \in DOMAIN alerts : alerts[k] \in Alert
    BY DEF AlertInv
  <2>4. a \in Alert /\ DedupKey(a) = DedupKey(alerts[i])
    BY <2>3 DEF Alert, DedupKey
  <2> HIDE DEF a
  <2>5. bs = [k \in DOMAIN alerts |-> IF k = i THEN a ELSE alerts[k]]
    BY <2>3
  <2>6. /\ DOMAIN bs = DOMAIN alerts /\ bs = [k \in DOMAIN alerts |-> bs[k]]
        /\ \A k \in DOMAIN alerts : bs[k] \in Alert /\ DedupKey(bs[k]) = DedupKey(alerts[k])
    BY <2>3, <2>4, <2>5
  <2> HIDE DEF bs
  <2>7. bs \in Seq(Alert) /\ Grows(alerts, bs)
    BY <2>3, <2>6, ChangeOne
  <2>8. \A t \in Threads : HitsOK(req[t], bs)
    BY <2>3, <2>7, HitsStay DEF AlertInv
  <2> QED
    BY <2>2, <2>7, <2>8 DEF AlertInv
<1>3. CASE UNCHANGED <<alerts, req>>
  BY <1>3 DEF AlertInv
<1> QED
  BY <1>1, <1>2, <1>3 DEF Outside, LogQuery, SaveKey, Recover

LEMMA StartAlerts ==
  ASSUME SafetyInv, AlertInv, NEW t \in Threads, NEW kind \in Kinds, NEW d, NEW cat, Start(t, kind, d, cat)
  PROVE  AlertInv'
<1>1. UNCHANGED alerts /\ kind \in Request
  BY SafetyAssumption DEF Start, dataVars
<1>2. \/ \E pc : pc \notin {"store", "ask"} /\ Becomes(t, [Rest EXCEPT !.kind = kind, !.pc = pc])
      \/ \E pc : pc \notin {"store", "ask"} /\ Becomes(t, [Rest EXCEPT !.kind = kind, !.cat = cat, !.todo = {d}, !.dom = d, !.pc = pc])
  <2> USE DEF Start
  <2>1. CASE kind \in {"sync", "scan"}          BY <2>1 DEF Rest
  <2>2. CASE kind = "aisync"                    BY <2>2 DEF Rest
  <2>3. CASE kind = "aiclassify" /\ ~key        BY <2>3 DEF Rest
  <2>4. CASE kind = "override"                  BY <2>4
  <2>5. CASE kind = "aiclassify" /\ key         BY <2>5
  <2>6. CASE kind = "ask"                       BY <2>6
  <2>7. CASE kind = "reask"                     BY <2>7
  <2> QED
    BY <1>1, <2>1, <2>2, <2>3, <2>4, <2>5, <2>6, <2>7 DEF Request
<1>3. \E r : Becomes(t, r) /\ r.pc \notin {"store", "ask"} /\ r.hits = <<>>
  <2>1. ASSUME NEW pc, pc \notin {"store", "ask"}, Becomes(t, [Rest EXCEPT !.kind = kind, !.pc = pc]) PROVE \E r : Becomes(t, r) /\ r.pc \notin {"store", "ask"} /\ r.hits = <<>>
    <3> DEFINE r == [Rest EXCEPT !.kind = kind, !.pc = pc]
    <3>1. r.pc = pc /\ r.hits = <<>>
      BY DEF Rest
    <3> HIDE DEF r
    <3> QED
      BY <2>1, <3>1 DEF r
  <2>2. ASSUME NEW pc, pc \notin {"store", "ask"},
               Becomes(t, [Rest EXCEPT !.kind = kind, !.cat = cat, !.todo = {d}, !.dom = d, !.pc = pc]) PROVE \E r : Becomes(t, r) /\ r.pc \notin {"store", "ask"} /\ r.hits = <<>>
    <3> DEFINE r == [Rest EXCEPT !.kind = kind, !.cat = cat, !.todo = {d}, !.dom = d, !.pc = pc]
    <3>1. r.pc = pc /\ r.hits = <<>>
      BY DEF Rest
    <3> HIDE DEF r
    <3> QED
      BY <2>2, <3>1 DEF r
  <2> QED
    BY <1>2, <2>1, <2>2
<1> QED
  BY <1>1, <1>3, WithoutHits DEF ModelsOK

LEMMA NextAlerts == ASSUME SafetyInv, AlertInv, [Next]_vars PROVE AlertInv'
<1>1. CASE Outside
  BY <1>1, OutsideAlerts
<1>2. CASE \E t \in Threads, k \in Kinds, d \in Domains, c \in Chosen : Start(t, k, d, c)
  BY <1>2, StartAlerts
<1>3. CASE \E t \in Threads : Pass(t)
  BY <1>3, PassAlerts
<1>4. CASE \E t \in Threads : Single(t)
  BY <1>4, SingleAlerts
<1>5. CASE \E t \in Threads : Model(t)
  BY <1>5, ModelAlerts
<1>6. CASE \E t \in Threads : Alerting(t)
  BY <1>6, AlertingAlerts
<1>7. CASE UNCHANGED vars
  BY <1>7 DEF vars, AlertInv
<1> QED
  BY <1>1, <1>2, <1>3, <1>4, <1>5, <1>6, <1>7 DEF Next

LEMMA InitAlerts == Init => AlertInv
<1>1. SUFFICES ASSUME Init PROVE AlertInv
  OBVIOUS
<1>2. alerts = <<>> /\ \A t \in Threads : req[t] = Rest
  BY <1>1 DEF Init
<1>3. Rest.hits = <<>> /\ Rest.pc = "idle"
  BY DEF Rest
<1>4. HitsOK(Rest, <<>>) /\ ModelsOK(Rest)
  BY <1>3, NoHits DEF ModelsOK
<1> QED
  BY <1>2, <1>4 DEF AlertInv

\* The tables and counters stay within their bounds.
LimitInv ==
  /\ queries \in Seq(Query) /\ Len(queries) <= MaxQueries
  /\ key \in BOOLEAN /\ cooling \subseteq ToSet(Models)
  /\ made \in 0 .. MaxRequests /\ closed \in 0 .. MaxClosed

LEMMA LimitsStay ==
  ASSUME LimitInv, UNCHANGED <<queries, key, made, closed>>, cooling' \in SUBSET ToSet(Models)
  PROVE  LimitInv'
  BY DEF LimitInv

LEMMA AskLimits == ASSUME LimitInv, AlertInv, NEW t \in Threads, Ask(t) PROVE LimitInv'
<1> DEFINE left == Without(req[t].left, cooling)
<1>1. /\ UNCHANGED <<queries, key, made, closed>>
      /\ cooling' = cooling \/ (left # <<>> /\ cooling' = cooling \cup {Head(left)})
  BY DEF Ask
<1>2. left \in Seq(ToSet(Models))
  BY LeftToTry
<1> HIDE DEF left
<1>3. left # <<>> => Head(left) \in ToSet(Models)
  BY <1>2
<1> QED
  BY <1>1, <1>3, LimitsStay DEF LimitInv

LEMMA OutsideLimits == ASSUME LimitInv, Outside PROVE LimitInv'
<1>1. CASE \E q \in Query : LogQuery(q)
  <2>1. PICK q \in Query : LogQuery(q)
    BY <1>1
  <2>2. /\ queries' = Append(queries, q) /\ Len(queries) < MaxQueries
        /\ UNCHANGED <<key, cooling, made, closed>>
    BY <2>1 DEF LogQuery
  <2> QED
    BY <2>2, SafetyAssumption DEF LimitInv
<1>2. CASE SaveKey
  BY <1>2 DEF SaveKey, LimitInv
<1>3. CASE \E i \in DOMAIN alerts, b \in BOOLEAN : UpdateAlert(i, b)
  <2>1. closed' = closed + 1 /\ closed < MaxClosed /\ UNCHANGED <<queries, key, cooling, made>>
    BY <1>3 DEF UpdateAlert
  <2> QED
    BY <2>1, SafetyAssumption DEF LimitInv
<1>4. CASE \E m \in cooling : Recover(m)
  <2>1. UNCHANGED <<queries, key, made, closed>> /\ cooling' \subseteq cooling
    BY <1>4 DEF Recover
  <2> QED
    BY <2>1, LimitsStay DEF LimitInv
<1>5. CASE Restart
  BY <1>5, LimitsStay DEF Restart
<1> QED
  BY <1>1, <1>2, <1>3, <1>4, <1>5 DEF Outside

LEMMA NextLimits == ASSUME LimitInv, AlertInv, [Next]_vars PROVE LimitInv'
<1> DEFINE still == UNCHANGED <<queries, key, cooling, made, closed>>
<1>1. CASE Outside
  BY <1>1, OutsideLimits
<1>2. CASE \E t \in Threads, k \in Kinds, d \in Domains, c \in Chosen : Start(t, k, d, c)
  <2>1. made' = made + 1 /\ made < MaxRequests /\ UNCHANGED <<queries, key, cooling, closed>>
    BY <1>2 DEF Start, dataVars
  <2> QED
    BY <2>1, SafetyAssumption DEF LimitInv
<1>3. CASE \E t \in Threads : Pass(t)
  <2>1. still
    BY <1>3 DEF Pass, List, Get, Flush, FlushFails, SkipAi, Candidates, Regard, CommitRules, CommitFails,
                ReadBack, CommitVerdicts, dataVars, aiVars
  <2> QED
    BY <2>1 DEF LimitInv
<1>4. CASE \E t \in Threads : Single(t)
  <2>1. still
    BY <1>4 DEF Single, Look, FlushOne, Final, WriteFails, dataVars, aiVars
  <2> QED
    BY <2>1 DEF LimitInv
<1>5. CASE \E t \in Threads : Model(t)
  <2>1. PICK t \in Threads : Model(t)
    BY <1>5
  <2>2. CASE Cached(t) \/ Pick(t) \/ Save(t) \/ SaveFails(t)
    <3>1. still
      BY <2>2 DEF Cached, Pick, Save, SaveFails, dataVars
    <3> QED
      BY <3>1 DEF LimitInv
  <2>3. CASE Wake(t)
    <3>1. UNCHANGED <<queries, key, made, closed>> /\ cooling' \in {cooling, {}}
      BY <2>3 DEF Wake
    <3> QED
      BY <3>1, LimitsStay DEF LimitInv
  <2>4. CASE Ask(t)
    BY <2>4, AskLimits
  <2> QED
    BY <2>1, <2>2, <2>3, <2>4 DEF Model
<1>6. CASE \E t \in Threads : Alerting(t)
  <2>1. still
    BY <1>6 DEF Alerting, Scan, Store, StoreFails, dataVars, aiVars
  <2> QED
    BY <2>1 DEF LimitInv
<1>7. CASE UNCHANGED vars
  BY <1>7 DEF vars, LimitInv
<1> QED
  BY <1>1, <1>2, <1>3, <1>4, <1>5, <1>6, <1>7 DEF Next

LEMMA InitLimits == Init => LimitInv
  BY SafetyAssumption DEF Init, LimitInv

-----------------------------------------------------------------------------
(* The results.                                                            *)

\* In every reachable state each request's session holds the lock only where
\* its handler may, plans only changes that fit the committed rows, and asks
\* the model only about domains that have a row or will.
THEOREM RequestInvariant == Spec => []SafetyInv
  BY InitInv, NextKeeps, PTL DEF Spec

\* In every reachable state the hits of each scan have an alert, or are still to
\* get one, and the models a request has still to try are those of the list.
THEOREM AlertInvariant == Spec => []AlertInv
  BY InitAlerts, NextAlerts, RequestInvariant, PTL DEF Spec

\* The tables and counters stay within their bounds.
THEOREM LimitInvariant == Spec => []LimitInv
  BY InitLimits, NextLimits, AlertInvariant, PTL DEF Spec

\* Every table holds rows of its type and every request is well formed: no
\* alert without a type is stored, no model of another list is tried or cooled
\* down, and an answered request keeps neither the lock nor a pending change.
THEOREM TypeCorrect == Spec => []TypeOK
<1>1. SafetyInv /\ AlertInv /\ LimitInv => TypeOK
  <2> SUFFICES ASSUME SafetyInv, AlertInv, LimitInv PROVE TypeOK
    OBVIOUS
  <2>1. queries \in Seq(Query) /\ Len(queries) <= MaxQueries
    BY DEF LimitInv
  <2>2. ASSUME NEW t \in Threads
        PROVE  LET r == req[t] IN
               /\ r.kind \in Kinds \cup {None} /\ r.todo \subseteq Domains /\ r.count \subseteq Domains
               /\ r.pend \in [Domains -> Change \cup {None}] /\ r.seen \in [Domains -> Row \cup {None}]
               /\ r.answer \in [Domains -> Verdicts \cup {None}] /\ r.hits \in Seq(Hit)
               /\ r.pc \in {"idle", "ok", "error"} => writer # t /\ r.pend = Nothing
    <3>1. req[t].hits \in Seq(Hit)
      BY DEF AlertInv, HitsOK
    <3>2. req[t].pc \in Ended => writer # t /\ req[t].pend = Nothing
      BY RequestFacts DEF RequestOK, LockOK, PendOK, Ended, Network
    <3> QED
      BY <3>1, <3>2, RequestFacts DEF Ended
  <2>3. /\ class \in [Domains -> Row \cup {None}] /\ cache \in [Domains -> Verdicts \cup {None}]
        /\ writer \in Threads \cup {None}
    BY DEF SafetyInv, TablesOK
  <2>4. /\ alerts \in Seq(Alert) /\ key \in BOOLEAN /\ cooling \subseteq ToSet(Models)
        /\ made \in 0 .. MaxRequests /\ closed \in 0 .. MaxClosed
    BY DEF AlertInv, LimitInv
  <2> QED
    BY <2>1, <2>2, <2>3, <2>4 DEF TypeOK
<1> QED
  BY <1>1, RequestInvariant, AlertInvariant, LimitInvariant, PTL

\* When a scan has answered, each of its hits has an alert of its own device,
\* type and domain, for any number of scans, queries and alerts: whatever other scans
\* stored since it read, and whatever the parent closed.
THEOREM HitsTheorem == Spec => []HitsAlerted
<1>1. AlertInv => HitsAlerted
  <2>1. ASSUME AlertInv PROVE DOMAIN alerts = 1 .. Len(alerts)
    BY <2>1 DEF AlertInv
  <2> QED
    BY <2>1 DEF AlertInv, HitsOK, HitsAlerted, Covered
<1> QED
  BY <1>1, AlertInvariant, PTL

\* No pass over many domains calls the model while its session holds SQLite's
\* write lock, however many passes run beside it and whatever fails: the rules
\* are committed before the model is asked.
THEOREM BulkTheorem == Spec => []BulkAsksUnlocked
<1>1. SafetyInv => BulkAsksUnlocked
  BY DEF SafetyInv, RequestOK, LockOK, BulkAsksUnlocked, AtNetwork, Bulk, Network
<1> QED
  BY <1>1, RequestInvariant, PTL

\* What a sync counts as classified has a row in the database when it answers,
\* also when its AI pass failed on the way and was swallowed, and whichever
\* other sessions commit or are rolled back meanwhile.
THEOREM SyncTheorem == Spec => []SyncKept
<1>1. SafetyInv => SyncKept
  BY DEF SafetyInv, RequestOK, SyncOK, SyncKept
<1> QED
  BY <1>1, RequestInvariant, PTL

\* A commit leaves an override an override, and changes its category only for
\* another override or from a row that the session got before the override.
LEMMA CommitSacred ==
  ASSUME SafetyInv, NEW t \in Threads, Commits(t), NEW d \in Domains, class[d] # None, class[d].over
  PROVE  /\ class'[d].over
         /\ class'[d].cat = class[d].cat
            \/ /\ req[t].pend[d] # None
               /\ req[t].kind = "override" \/ (req[t].seen[d] # None /\ ~req[t].seen[d].over)
<1> DEFINE ch == req[t].pend[d]
           row == class[d]
<1>1. class'[d] = Applied(row, ch)
  BY DEF Commits
<1>2. CASE ch = None
  BY <1>1, <1>2 DEF Applied
<1>3. CASE ch # None
  <2>1. ~ch.new
    <3>1. Dirty(t)
      BY <1>3, NothingFacts DEF Dirty
    <3>2. ~Clash(t)
      BY <3>1 DEF Commits
    <3>3. writer # t => ~ch.new
      BY <1>3, <3>2 DEF Clash
    <3>4. writer = t => ~ch.new
      BY <1>3, RequestFacts DEF RequestOK, PendOK
    <3> QED
      BY <3>3, <3>4
  <2>2. class'[d] = [cat |-> IF ch.cat = None THEN row.cat ELSE ch.cat, over |-> row.over \/ ch.over]
    BY <1>1, <1>3, <2>1 DEF Applied
  <2>3. class'[d].over
    BY <1>1, <1>3, <2>1, AppliedPend
  <2>4. ch.cat = None => class'[d].cat = row.cat
    BY <2>2
  <2>5. ch.cat # None /\ req[t].kind # "override" => req[t].seen[d] # None /\ ~req[t].seen[d].over
    BY <1>3, <2>1, PassPend
  <2> QED
    BY <1>3, <2>3, <2>4, <2>5
<1> QED
  BY <1>2, <1>3

\* Only a commit changes a row.
LEMMA OnlyCommits ==
  ASSUME [Next]_vars, class' # class
  PROVE  \E t \in Threads : Commits(t)
<1>1. ~Outside /\ ~UNCHANGED vars
  BY DEF Outside, LogQuery, SaveKey, UpdateAlert, Recover, Restart, vars
<1>2. \A t \in Threads, k \in Kinds, d \in Domains, c \in Chosen : ~Start(t, k, d, c)
  BY DEF Start, dataVars
<1>3. \A t \in Threads : Pass(t) => Commits(t)
  BY DEF Pass, List, Get, Flush, FlushFails, SkipAi, Candidates, Regard, CommitRules, CommitFails,
         ReadBack, CommitVerdicts, dataVars
<1>4. \A t \in Threads : Single(t) => Commits(t)
  BY DEF Single, Look, FlushOne, Final, WriteFails, dataVars
<1>5. \A t \in Threads : ~Model(t)
  BY DEF Model, Cached, Pick, Wake, Ask, Save, SaveFails, dataVars
<1>6. \A t \in Threads : Alerting(t) => Commits(t)
  BY DEF Alerting, Scan, Store, StoreFails, dataVars
<1> QED
  BY <1>1, <1>2, <1>3, <1>4, <1>5, <1>6 DEF Next

\* A manual override is sacred: no step of any request, no failure and no
\* restart takes it back, and its category changes only by another override or
\* by a pass that had got the row before the override was committed.
THEOREM OverrideTheorem == Spec => OverridesSacred
<1>1. SafetyInv /\ [Next]_vars =>
        [\A d \in Domains : class[d] # None /\ class[d].over =>
           /\ class'[d].over
           /\ class'[d].cat = class[d].cat
              \/ \E t \in Threads : /\ req[t].pend[d] # None
                                    /\ \/ req[t].kind = "override"
                                       \/ req[t].seen[d] # None /\ ~req[t].seen[d].over]_vars
  <2> SUFFICES ASSUME SafetyInv, [Next]_vars, NEW d \in Domains, class[d] # None, class[d].over
               PROVE  /\ class'[d].over
                      /\ class'[d].cat = class[d].cat
                         \/ \E t \in Threads : /\ req[t].pend[d] # None
                                               /\ \/ req[t].kind = "override"
                                                  \/ req[t].seen[d] # None /\ ~req[t].seen[d].over
    OBVIOUS
  <2>1. CASE class' = class
    BY <2>1
  <2>2. CASE class' # class
    BY <2>2, OnlyCommits, CommitSacred
  <2> QED
    BY <2>1, <2>2
<1> QED
  BY <1>1, RequestInvariant, PTL DEF Spec, OverridesSacred
=============================================================================
