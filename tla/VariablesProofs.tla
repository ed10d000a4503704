-------------------------- MODULE VariablesProofs --------------------------
(***************************************************************************)
(* The type invariant, ChildEnvironment, NoEscape and the refinement of    *)
(* VarScopes (dynamic scoping) of Variables, for any number of names,      *)
(* values and nested calls.                                                *)
(***************************************************************************)
EXTENDS Variables, SequenceTheorems, WellFoundedInduction, TLAPS

Good == {x \in Bindings : Consistent(x)}
GoodSaved == UNION {[S -> Good] : S \in SUBSET Names}
GoodScopes == [id : Ids, saved : GoodSaved]

\* ChildEnvironment is not inductive: a binding comes back from a snapshot.  All
\* snapshots are of consistent bindings.
GoodInv ==
  /\ b \in [Names -> Good]
  /\ scopes \in Seq(GoodScopes)
  /\ calls \in 0..Len(scopes)
  /\ prefix # None => prefix \in [id : Ids, saved : GoodSaved, ran : BOOLEAN]
  /\ overlay # None => /\ overlay.saved \in GoodSaved
                       /\ overlay.owner \in [DOMAIN overlay.saved -> Ids]
  /\ entered \in 0..MaxCalls
  /\ broken \in BOOLEAN /\ crossed \in BOOLEAN

-----------------------------------------------------------------------------
(* Operations on one binding *)

\* A fresh local keeps only an export attribute.
LEMMA AbsentGood ==
  ASSUME NEW e \in BOOLEAN, NEW i \in Ids
  PROVE  [Absent EXCEPT !.exported = e, !.born = i] \in Good
BY VariablesAssumption DEF Absent, Good, Bindings, Consistent, Ids

\* set_array and set_array_element keep a binding consistent.
LEMMA SetArrayGood ==
  ASSUME NEW x \in Good, NEW v \in Vals PROVE SetArray(x, v) \in Good
BY VariablesAssumption DEF SetArray, Good, Bindings, Consistent

\* So do set_assoc and set_assoc_element.
LEMMA SetAssocGood ==
  ASSUME NEW x \in Good, NEW v \in Vals PROVE SetAssoc(x, v) \in Good
BY VariablesAssumption DEF SetAssoc, Good, Bindings, Consistent

\* So do declare_array and declare_assoc.
LEMMA DeclareGood ==
  ASSUME NEW x \in Good PROVE DeclareArray(x) \in Good /\ DeclareAssoc(x) \in Good
<1>1. (IF x.arr = NoVal THEN Empty ELSE x.arr) \in Vals
  BY VariablesAssumption DEF Good, Bindings
<1>2. (IF x.assoc = NoVal THEN Empty ELSE x.assoc) \in Vals
  BY VariablesAssumption DEF Good, Bindings
<1> QED
  BY <1>1, <1>2, SetArrayGood, SetAssocGood DEF DeclareArray, DeclareAssoc

\* So does try_set_var, which for an array writes an element.
LEMMA TrySetVarGood ==
  ASSUME NEW x \in Good, NEW v \in Vals PROVE TrySetVar(x, v) \in Good
<1>1. CASE x.readonly \/ x.arr # NoVal \/ x.assoc # NoVal
  BY <1>1, SetArrayGood, SetAssocGood DEF TrySetVar
<1>2. CASE ~x.readonly /\ x.arr = NoVal /\ x.assoc = NoVal
  <2>1. TrySetVar(x, v) = [x EXCEPT !.var = v, !.opaque = FALSE,
                                    !.env = IF x.exported THEN v ELSE @]
    BY <1>2 DEF TrySetVar
  <2> QED
    BY <1>2, <2>1, VariablesAssumption DEF Good, Bindings, Consistent
<1> QED
  BY <1>1, <1>2

\* So does try_export_var.
LEMMA TryExportVarGood ==
  ASSUME NEW x \in Good, NEW v \in Vals PROVE TryExportVar(x, v) \in Good
<1>1. CASE x.readonly
  BY <1>1 DEF TryExportVar
<1>2. CASE ~x.readonly
  <2> DEFINE t == TrySetVar(x, v)
             y == [t EXCEPT !.exported = TRUE]
  <2>1. t \in Good
    BY TrySetVarGood
  <2>2. t.var = NoVal \/ t.var = v
    BY <1>2, VariablesAssumption DEF TrySetVar, SetArray, SetAssoc, Good, Bindings
  <2>3. t.var # NoVal => ~t.opaque
    BY <2>1 DEF Good, Consistent
  <2>4. TryExportVar(x, v) = IF y.var = NoVal THEN y ELSE [y EXCEPT !.env = v]
    BY <1>2 DEF TryExportVar
  <2> HIDE DEF t
  <2> QED
    BY <2>1, <2>2, <2>3, <2>4, VariablesAssumption, ZenonT(40) DEF Good, Bindings, Consistent
<1> QED
  BY <1>1, <1>2

\* So does mark_exported, for unset names, arrays and opaque values too.
LEMMA MarkExportedGood ==
  ASSUME NEW x \in Good PROVE MarkExported(x) \in Good
BY VariablesAssumption DEF MarkExported, Good, Bindings, Consistent

\* So do the other attributes.
LEMMA AttributesGood ==
  ASSUME NEW x \in Good
  PROVE  /\ Unexport(x) \in Good /\ MarkReadonly(x) \in Good
         /\ Attributes(x) \subseteq Good
<1>1. \A y \in Good : MarkReadonly(y) \in Good
  BY DEF MarkReadonly, Good, Bindings, Consistent
<1>2. Unexport(x) \in Good
  BY VariablesAssumption DEF Unexport, Good, Bindings, Consistent
<1> QED
  BY <1>1, <1>2, MarkExportedGood DEF Attributes

\* The history field does not matter.
LEMMA WrittenGood ==
  ASSUME NEW x \in Good, NEW y \in Good, NEW i \in Ids PROVE Written(x, y, i) \in Good
BY DEF Written, Good, Bindings, Consistent

\* unset leaves nothing behind.
LEMMA UnsetGood ==
  ASSUME NEW x \in Good PROVE Unset(x) \in Good
BY VariablesAssumption DEF Unset, Absent, Good, Bindings, Consistent, Ids

\* Whatever apply_assignment makes of a binding is consistent.
LEMMA AssignedGood ==
  ASSUME NEW x \in Good, NEW i \in Ids PROVE Assigned(x, i) \subseteq Good
<1> DEFINE made(v) == {IF x.assoc # NoVal THEN SetAssoc(x, v) ELSE SetArray(x, v),
                       TrySetVar(x, v), TryExportVar(x, v)}
<1>1. \A v \in Vals : made(v) \subseteq Good
  BY SetArrayGood, SetAssocGood, TrySetVarGood, TryExportVarGood
<1>2. ASSUME NEW z \in Assigned(x, i) PROVE z \in Good
  <2>1. z \in UNION {{Written(x, y, i) : y \in made(v)} : v \in Vals}
    BY <1>2 DEF Assigned
  <2> HIDE DEF made
  <2>2. PICK v \in Vals : z \in {Written(x, y, i) : y \in made(v)}
    BY <2>1
  <2>3. PICK y \in made(v) : z = Written(x, y, i)
    BY <2>2
  <2> QED
    BY <1>1, <2>3, WrittenGood
<1> QED
  BY <1>2

\* So is whatever local and declare make of it.
LEMMA DeclaredGood ==
  ASSUME NEW x \in Good, NEW i \in Ids PROVE Declared(x, i) \subseteq Good
<1> DEFINE made(v) == {Written(x, SetArray(x, v), i), Written(x, SetAssoc(x, v), i),
                       Written(x, TrySetVar(x, v), i)}
           options == {x, DeclareArray(x), DeclareAssoc(x)} \cup (UNION {made(v) : v \in Vals})
<1>1. \A v \in Vals : made(v) \subseteq Good
  BY SetArrayGood, SetAssocGood, TrySetVarGood, WrittenGood
<1>2. options \subseteq Good
  <2> HIDE DEF made
  <2> QED
    BY <1>1, DeclareGood
<1>3. Declared(x, i) = {x} \cup (UNION {Attributes(y) : y \in options})
  BY DEF Declared
<1> HIDE DEF options
<1> QED
  BY <1>2, <1>3, AttributesGood

-----------------------------------------------------------------------------
(* Frames and snapshots *)

\* A set of positions has a last one.
LEMMA LastExists ==
  ASSUME NEW k \in Nat, NEW T \in SUBSET (1..k), T # {}
  PROVE  \E i \in T : \A j \in T : j <= i
<1> DEFINE U == {k - i : i \in T}
           R == {p \in Nat \X Nat : p[1] < p[2]}
<1>1. U \subseteq Nat /\ U # {}
  <2>1. \A i \in T : k - i \in Nat
    OBVIOUS
  <2>2. PICK t \in T : TRUE
    OBVIOUS
  <2>3. k - t \in U
    BY <2>2
  <2> QED
    BY <2>1, <2>3
<1>2. IsWellFoundedOn(R, Nat)
  BY NatLessThanWellFounded DEF OpToRel
<1> HIDE DEF R
<1>3. PICK x \in U : \A y \in U : ~ (<<y, x>> \in R)
  BY <1>1, <1>2, WFMin
<1>4. \A y \in U : ~(y < x)
  BY <1>1, <1>3 DEF R
<1>5. PICK i \in T : x = k - i
  BY <1>3
<1>6. \A j \in T : j <= i
  BY <1>4, <1>5
<1> QED
  BY <1>6

\* The elements of a sequence.
LEMMA SeqElements ==
  ASSUME NEW F, NEW q \in Seq(F)
  PROVE  /\ Len(q) \in Nat /\ DOMAIN q = 1..Len(q)
         /\ \A i \in DOMAIN q : q[i] \in F
OBVIOUS

\* A prefix of a sequence, and its length.
LEMMA PrefixOf ==
  ASSUME NEW F, NEW q \in Seq(F), NEW k \in 0..Len(q)
  PROVE  SubSeq(q, 1, k) \in Seq(F) /\ Len(SubSeq(q, 1, k)) = k
<1>1. k \in Int /\ Len(q) \in Nat /\ \A i \in 1..k : q[i] \in F
  OBVIOUS
<1>2. /\ SubSeq(q, 1, k) \in Seq(F)
      /\ Len(SubSeq(q, 1, k)) = IF 1 <= k THEN k - 1 + 1 ELSE 0
  BY <1>1, SubSeqProperties
<1>3. 1 <= k \/ k = 0
  BY <1>1
<1> QED
  BY <1>1, <1>2, <1>3

\* Every frame has an id.
LEMMA ShadowsType ==
  ASSUME GoodInv
  PROVE  /\ Len(Shadows) \in Nat
         /\ DOMAIN Shadows = 1..Len(Shadows)
         /\ \A i \in DOMAIN Shadows : Shadows[i].id \in Ids
<1>1. /\ Len(scopes) \in Nat /\ DOMAIN scopes = 1..Len(scopes)
      /\ \A i \in DOMAIN scopes : scopes[i].id \in Ids
  <2>1. scopes \in Seq(GoodScopes)
    BY DEF GoodInv
  <2>2. /\ Len(scopes) \in Nat /\ DOMAIN scopes = 1..Len(scopes)
        /\ \A i \in DOMAIN scopes : scopes[i] \in GoodScopes
    BY <2>1, SeqElements
  <2> QED
    BY <2>2 DEF GoodScopes
<1>2. CASE prefix = None
  BY <1>1, <1>2 DEF Shadows
<1>3. CASE prefix # None
  <2>1. prefix.id \in Ids
    BY <1>3 DEF GoodInv
  <2>2. Shadows = Append(scopes, prefix)
    BY <1>3 DEF Shadows
  <2>3. /\ Len(Shadows) = Len(scopes) + 1 /\ DOMAIN Shadows = 1..(Len(scopes) + 1)
        /\ \A i \in DOMAIN Shadows : Shadows[i] = IF i <= Len(scopes) THEN scopes[i] ELSE prefix
    BY <1>1, <2>2 DEF GoodInv
  <2> QED
    BY <1>1, <2>1, <2>3
<1> QED
  BY <1>2, <1>3

\* The owner of a name is a frame.
LEMMA OwnerIdType ==
  ASSUME GoodInv, NEW n \in Names PROVE OwnerId(n) \in Ids
<1> DEFINE T == {i \in DOMAIN Shadows : n \in DOMAIN Shadows[i].saved}
<1>1. CASE T = {}
  BY <1>1, VariablesAssumption DEF OwnerId, Ids
<1>2. CASE T # {}
  <2>1. \E i \in T : \A j \in T : j <= i
    BY <1>2, ShadowsType, LastExists
  <2>2. (CHOOSE i \in T : \A j \in T : j <= i) \in DOMAIN Shadows
    BY <2>1
  <2> QED
    BY <1>2, <2>2, ShadowsType DEF OwnerId
<1> QED
  BY <1>1, <1>2

\* A snapshot of one more binding.
LEMMA SnapshotGood ==
  ASSUME GoodInv, NEW saved \in GoodSaved, NEW n \in Names
  PROVE  Snapshot(saved, n) \in GoodSaved
<1>1. PICK S \in SUBSET Names : saved \in [S -> Good]
  BY DEF GoodSaved
<1>2. S \cup {n} \in SUBSET Names
  OBVIOUS
<1>3. Snapshot(saved, n) \in [S \cup {n} -> Good]
  BY <1>1 DEF Snapshot, GoodInv
<1> QED
  BY <1>2, <1>3 DEF GoodSaved

\* Restoring snapshots of consistent bindings.
LEMMA RestoreGood ==
  ASSUME GoodInv, NEW saved \in GoodSaved
  PROVE  Restore(saved) \in [Names -> Good]
<1>1. PICK S \in SUBSET Names : saved \in [S -> Good]
  BY DEF GoodSaved
<1> QED
  BY <1>1 DEF Restore, GoodInv

\* Undoing an environment restores consistent bindings.
LEMMA DeactivatedGood ==
  ASSUME GoodInv, NEW m \in [Names -> Good]
  PROVE  Deactivated(m) \in [Names -> Good]
<1>1. CASE overlay = None
  BY <1>1 DEF Deactivated
<1>2. CASE overlay # None
  <2>1. PICK S \in SUBSET Names : overlay.saved \in [S -> Good]
    BY <1>2 DEF GoodInv, GoodSaved
  <2> QED
    BY <1>2, <2>1 DEF Deactivated
<1> QED
  BY <1>1, <1>2

-----------------------------------------------------------------------------
(* Steps *)

\* An inherited environment is consistent.
LEMMA InitGood == Init => GoodInv
<1> SUFFICES ASSUME Init PROVE GoodInv
  OBVIOUS
<1>0. /\ Absent \in Good /\ Absent.var = NoVal /\ Absent.env = NoVal
      /\ Absent.arr = NoVal /\ Absent.assoc = NoVal /\ Absent.opaque = FALSE
      /\ Absent.exported = FALSE
  BY VariablesAssumption DEF Absent, Good, Bindings, Consistent, Ids
<1>1. [Absent EXCEPT !.exported = TRUE, !.opaque = TRUE] \in Good
  BY <1>0, VariablesAssumption DEF Good, Bindings, Consistent
<1>2. \A v \in Vals : /\ [Absent EXCEPT !.exported = TRUE, !.var = v, !.env = v] \in Good
                      /\ [Absent EXCEPT !.var = v] \in Good
  BY <1>0, VariablesAssumption DEF Good, Bindings, Consistent
<1>3. Inherited \subseteq Good
  BY <1>0, <1>1, <1>2 DEF Inherited
<1>4. b \in [Names -> Good]
  BY <1>3 DEF Init
<1>5. scopes \in Seq(GoodScopes) /\ calls \in 0..Len(scopes)
  <2>1. <<>> \in Seq(GoodScopes) /\ 0 \in 0..Len(<<>>)
    OBVIOUS
  <2> QED
    BY <2>1, Zenon DEF Init
<1>6. /\ prefix = None /\ overlay = None /\ entered \in 0..MaxCalls
      /\ broken = FALSE /\ crossed = FALSE
  BY VariablesAssumption DEF Init
<1> QED
  BY <1>4, <1>5, <1>6 DEF GoodInv

\* A builtin that ran.
LEMMA RanGood ==
  ASSUME GoodInv, Ran
  PROVE  prefix' # None => prefix' \in [id : Ids, saved : GoodSaved, ran : BOOLEAN]
BY DEF GoodInv, Ran, Idle

\* A step that only rebinds one name, outside of a builtin or in one.
LEMMA BindGood ==
  ASSUME GoodInv, NEW n \in Names, NEW x \in Good, Bind(n, x), UNCHANGED prefix \/ Ran
  PROVE  GoodInv'
<1>1. b' \in [Names -> Good]
  BY DEF GoodInv, Bind
<1>2. prefix' # None => prefix' \in [id : Ids, saved : GoodSaved, ran : BOOLEAN]
  BY RanGood DEF GoodInv
<1>3. UNCHANGED <<scopes, calls, overlay, entered, broken, crossed>>
  BY DEF Bind, history
<1> QED
  BY <1>1, <1>2, <1>3 DEF GoodInv

\* Assignments and the builtins that change the current binding.
LEMMA OperationGood ==
  ASSUME GoodInv, NEW n \in Names,
         Assign(n) \/ SpecialPrefix(n) \/ SetVar(n) \/ Export(n) \/ Readonly(n)
           \/ UnsetName(n) \/ Declare(n)
  PROVE  GoodInv'
<1>1. b[n] \in Good /\ OwnerId(n) \in Ids
  BY OwnerIdType DEF GoodInv
<1>2. CASE Assign(n)
  BY <1>1, <1>2, AssignedGood, BindGood DEF Assign
<1>3. CASE SpecialPrefix(n)
  BY <1>1, <1>3, AssignedGood, MarkExportedGood, BindGood DEF SpecialPrefix
<1>4. CASE SetVar(n)
  BY <1>1, <1>4, TrySetVarGood, WrittenGood, BindGood DEF SetVar
<1>5. CASE Export(n)
  BY <1>1, <1>5, TryExportVarGood, TrySetVarGood, MarkExportedGood, AttributesGood,
     WrittenGood, BindGood DEF Export
<1>6. CASE Readonly(n)
  BY <1>1, <1>6, TrySetVarGood, AttributesGood, WrittenGood, BindGood DEF Readonly
<1>7. CASE UnsetName(n)
  <2>1. CASE b[n].arr # NoVal
    <3>1. \A v \in Vals : [b[n] EXCEPT !.arr = v] \in Good
      BY <1>1, <2>1, VariablesAssumption DEF Good, Bindings, Consistent
    <3>2. b[n].assoc = NoVal
      BY <1>1, <2>1 DEF Good, Consistent
    <3> QED
      BY <1>1, <1>7, <3>1, <3>2, UnsetGood, WrittenGood, BindGood DEF UnsetName
  <2>2. CASE b[n].arr = NoVal
    <3>1. \A v \in Vals : b[n].assoc # NoVal => [b[n] EXCEPT !.assoc = v] \in Good
      BY <1>1, <2>2, VariablesAssumption DEF Good, Bindings, Consistent
    <3> QED
      BY <1>1, <1>7, <2>2, <3>1, UnsetGood, WrittenGood, BindGood DEF UnsetName
  <2> QED
    BY <2>1, <2>2
<1>8. CASE Declare(n)
  BY <1>1, <1>8, DeclaredGood, AttributesGood, BindGood DEF Declare
<1> QED
  BY <1>2, <1>3, <1>4, <1>5, <1>6, <1>7, <1>8

\* A binding gets shadowed in the innermost scope.
LEMMA LocalGood ==
  ASSUME GoodInv, NEW n \in Names, Local(n) PROVE GoodInv'
<1> DEFINE k == Len(scopes)
           top == scopes[k]
           already == n \in DOMAIN top.saved
           x == IF already THEN b[n]
                ELSE [Absent EXCEPT !.exported = b[n].exported, !.born = top.id]
           i == IF already THEN OwnerId(n) ELSE top.id
<1>1. k \in 1..Len(scopes) /\ top \in GoodScopes
  BY DEF Local, GoodInv
<1>2. b[n] \in Good /\ OwnerId(n) \in Ids /\ b[n].exported \in BOOLEAN
  BY OwnerIdType DEF GoodInv, Good, Bindings
<1>3. top.id \in Ids /\ top.saved \in GoodSaved
  BY <1>1 DEF GoodScopes
<1>4. x \in Good /\ i \in Ids
  BY <1>2, <1>3, AbsentGood
<1>5. b' \in [Names -> Good]
  <2>1. \E y \in Declared(x, i) : b' = [b EXCEPT ![n] = y]
    BY DEF Local
  <2> HIDE DEF x, i
  <2> QED
    BY <1>4, <2>1, DeclaredGood DEF GoodInv
<1>6. scopes' = [scopes EXCEPT ![k] = [top EXCEPT !.saved = Snapshot(top.saved, n)]]
  BY <1>1 DEF Local, Shadowed
<1>7. [top EXCEPT !.saved = Snapshot(top.saved, n)] \in GoodScopes
  BY <1>1, <1>3, SnapshotGood DEF GoodScopes
<1>8. scopes' \in Seq(GoodScopes) /\ Len(scopes') = Len(scopes)
  <2> HIDE DEF top
  <2> QED
    BY <1>1, <1>6, <1>7 DEF GoodInv
<1>9. prefix' # None => prefix' \in [id : Ids, saved : GoodSaved, ran : BOOLEAN]
  BY RanGood DEF Local
<1>10. broken' \in BOOLEAN /\ UNCHANGED <<calls, overlay, entered, crossed>>
  BY DEF Local, GoodInv
<1> QED
  BY <1>5, <1>8, <1>9, <1>10 DEF GoodInv

\* One more scope, or snapshot, of the bindings that prefix assignments shadow.
LEMMA EnterGood ==
  ASSUME GoodInv, NEW S \in SUBSET Names
  PROVE  [n \in S |-> b[n]] \in GoodSaved
<1>1. [n \in S |-> b[n]] \in [S -> Good]
  BY DEF GoodInv
<1> QED
  BY <1>1 DEF GoodSaved

\* The number of a call within the bound is an id.
LEMMA EnteredType ==
  ASSUME GoodInv, entered < MaxCalls
  PROVE  entered + 1 \in 0..MaxCalls /\ entered + 1 \in Ids
BY VariablesAssumption DEF GoodInv, Ids

\* Prefix assignments make consistent bindings.
LEMMA FunctionPrefixGood ==
  ASSUME GoodInv, NEW n \in Names, NEW i \in Ids
  PROVE  FunctionPrefix(n, i) \subseteq Good /\ BuiltinPrefix(n, i) \subseteq Good
<1>1. b[n] \in Good /\ b[n].exported \in BOOLEAN
  BY DEF GoodInv, Good, Bindings
<1>2. [Absent EXCEPT !.exported = b[n].exported, !.born = i] \in Good
  BY <1>1, AbsentGood
<1>3. \A x \in Good : \A y \in Assigned(x, i) : MarkExported(y) \in Good
  BY AssignedGood, MarkExportedGood
<1>4. FunctionPrefix(n, i) \subseteq Good
  BY <1>2, <1>3 DEF FunctionPrefix
<1>5. BuiltinPrefix(n, i) \subseteq Good
  BY <1>1, <1>3 DEF BuiltinPrefix
<1> QED
  BY <1>4, <1>5

\* A function call keeps the invariant, whether or not its redirections fail.
LEMMA CallGood ==
  ASSUME GoodInv, NEW S \in SUBSET Names, Call(S) PROVE GoodInv'
<1>1. entered' \in 0..MaxCalls /\ entered' \in Ids
  BY EnteredType DEF Call
<1>2. b' \in [Names -> Good]
  <2>1. PICK f \in [S -> UNION {FunctionPrefix(n, entered') : n \in S}] :
          /\ \A n \in S : f[n] \in FunctionPrefix(n, entered')
          /\ b' = [n \in Names |-> IF n \in S THEN f[n] ELSE b[n]]
    BY DEF Call
  <2>2. \A n \in S : f[n] \in Good
    BY <1>1, <2>1, FunctionPrefixGood
  <2> QED
    BY <2>1, <2>2 DEF GoodInv
<1>3. [id |-> entered', saved |-> [n \in S |-> b[n]]] \in GoodScopes
  BY <1>1, EnterGood DEF GoodScopes
<1>4. scopes' \in Seq(GoodScopes) /\ Len(scopes') = Len(scopes) + 1
  BY <1>3 DEF Call, GoodInv
<1>5. calls' \in 0..Len(scopes')
  <2>1. calls' = calls + 1 \/ calls' = calls
    BY DEF Call
  <2>2. calls \in 0..Len(scopes) /\ Len(scopes) \in Nat
    BY DEF GoodInv
  <2> QED
    BY <1>4, <2>1, <2>2
<1>6. broken' \in BOOLEAN
  BY DEF Call, GoodInv
<1>7. UNCHANGED <<prefix, overlay, crossed>>
  BY DEF Call
<1> QED
  BY <1>1, <1>2, <1>4, <1>5, <1>6, <1>7 DEF GoodInv

\* So does its return.
LEMMA ReturnGood ==
  ASSUME GoodInv, FunctionReturn PROVE GoodInv'
<1>1. Len(scopes) \in Nat /\ Len(scopes) > 0 /\ scopes[Len(scopes)] \in GoodScopes
  BY DEF FunctionReturn, GoodInv
<1>2. b' \in [Names -> Good]
  BY <1>1, RestoreGood DEF FunctionReturn, GoodScopes
<1>3. scopes' \in Seq(GoodScopes) /\ Len(scopes') = Len(scopes) - 1
  <2>1. scopes \in Seq(GoodScopes) /\ scopes' = SubSeq(scopes, 1, Len(scopes) - 1)
    BY DEF FunctionReturn, LeaveScope, GoodInv
  <2>2. Len(scopes) - 1 \in 0..Len(scopes)
    BY <1>1
  <2> QED
    BY <2>1, <2>2, PrefixOf
<1>4. calls' \in 0..Len(scopes')
  BY <1>1, <1>3 DEF FunctionReturn, GoodInv
<1>5. UNCHANGED <<prefix, overlay, entered, broken, crossed>>
  BY DEF FunctionReturn, history
<1> QED
  BY <1>2, <1>3, <1>4, <1>5 DEF GoodInv

\* So do a regular builtin with prefix assignments and its end.
LEMMA BuiltinGood ==
  ASSUME GoodInv, NEW S \in SUBSET Names, BuiltinStart(S) \/ BuiltinEnd PROVE GoodInv'
<1>1. CASE BuiltinStart(S)
  <2>1. entered' \in 0..MaxCalls /\ entered' \in Ids
    BY <1>1, EnteredType DEF BuiltinStart
  <2>2. b' \in [Names -> Good]
    <3>1. PICK f \in [S -> UNION {BuiltinPrefix(n, entered') : n \in S}] :
            /\ \A n \in S : f[n] \in BuiltinPrefix(n, entered')
            /\ b' = [n \in Names |-> IF n \in S THEN f[n] ELSE b[n]]
      BY <1>1 DEF BuiltinStart
    <3>2. \A n \in S : f[n] \in Good
      BY <2>1, <3>1, FunctionPrefixGood
    <3> QED
      BY <3>1, <3>2 DEF GoodInv
  <2>3. prefix' \in [id : Ids, saved : GoodSaved, ran : BOOLEAN]
    BY <1>1, <2>1, EnterGood DEF BuiltinStart
  <2>4. UNCHANGED <<scopes, calls, overlay, broken, crossed>>
    BY <1>1 DEF BuiltinStart
  <2> QED
    BY <2>1, <2>2, <2>3, <2>4 DEF GoodInv
<1>2. CASE BuiltinEnd
  <2>1. prefix.saved \in GoodSaved
    BY <1>2 DEF BuiltinEnd, Idle, GoodInv
  <2>2. b' \in [Names -> Good]
    BY <1>2, <2>1, RestoreGood DEF BuiltinEnd
  <2>3. prefix' = None /\ UNCHANGED <<scopes, calls, overlay, entered, broken, crossed>>
    BY <1>2 DEF BuiltinEnd, history
  <2> QED
    BY <2>2, <2>3 DEF GoodInv
<1> QED
  BY <1>1, <1>2

\* So does a change of directory, which undoes one environment and applies another.
LEMMA DirectoryGood ==
  ASSUME GoodInv, NEW S \in SUBSET Names, NEW D \in SUBSET Names, ChangeDirectory(S, D)
  PROVE  GoodInv'
<1>1. PICK f \in [S -> Vals], d \in [D -> Vals] :
        LET moved == [n \in Names |-> IF n \in D
                        THEN Written(b[n], TryExportVar(b[n], d[n]), OwnerId(n)) ELSE b[n]]
            base == Deactivated(moved)
        IN /\ b' = [n \in Names |-> IF n \in S
                      THEN Written(base[n], TryExportVar(base[n], f[n]), Project) ELSE base[n]]
           /\ overlay' = IF S = {} THEN None
                         ELSE [saved |-> [n \in S |-> base[n]],
                               owner |-> [n \in S |-> OwnerId(n)]]
  BY DEF ChangeDirectory
<1> DEFINE moved == [n \in Names |-> IF n \in D
                      THEN Written(b[n], TryExportVar(b[n], d[n]), OwnerId(n)) ELSE b[n]]
           base == Deactivated(moved)
<1>2. \A n \in Names : OwnerId(n) \in Ids
  BY OwnerIdType
<1>3. moved \in [Names -> Good]
  BY <1>2, TryExportVarGood, WrittenGood DEF GoodInv
<1>4. base \in [Names -> Good]
  <2> HIDE DEF moved
  <2> QED
    BY <1>3, DeactivatedGood
<1>5. /\ b' = [n \in Names |-> IF n \in S
                 THEN Written(base[n], TryExportVar(base[n], f[n]), Project) ELSE base[n]]
      /\ overlay' = IF S = {} THEN None
                    ELSE [saved |-> [n \in S |-> base[n]], owner |-> [n \in S |-> OwnerId(n)]]
  BY <1>1
<1> HIDE DEF base
<1>6. b' \in [Names -> Good]
  <2>1. Project \in Ids
    BY VariablesAssumption DEF Project, Ids
  <2> QED
    BY <1>4, <1>5, <2>1, TryExportVarGood, WrittenGood
<1>7. overlay' # None => /\ overlay'.saved \in GoodSaved
                         /\ overlay'.owner \in [DOMAIN overlay'.saved -> Ids]
  <2>1. [n \in S |-> base[n]] \in [S -> Good]
    BY <1>4
  <2>2. [n \in S |-> base[n]] \in GoodSaved
    BY <2>1 DEF GoodSaved
  <2> QED
    BY <1>2, <1>5, <2>2
<1>8. prefix' # None => prefix' \in [id : Ids, saved : GoodSaved, ran : BOOLEAN]
  BY RanGood DEF ChangeDirectory
<1>9. crossed' \in BOOLEAN /\ UNCHANGED <<scopes, calls, entered, broken>>
  BY DEF ChangeDirectory, GoodInv
<1> QED
  BY <1>6, <1>7, <1>8, <1>9 DEF GoodInv

-----------------------------------------------------------------------------
\* Every step keeps the invariant.
LEMMA NextGood == GoodInv /\ [Next]_vars => GoodInv'
<1> SUFFICES ASSUME GoodInv, [Next]_vars PROVE GoodInv'
  OBVIOUS
<1>1. CASE UNCHANGED vars
  BY <1>1 DEF GoodInv, vars
<1>2. ASSUME NEW n \in Names, Assign(n) \/ SpecialPrefix(n) \/ SetVar(n) \/ Export(n)
               \/ Readonly(n) \/ UnsetName(n) \/ Declare(n)
      PROVE  GoodInv'
  BY <1>2, OperationGood
<1>3. ASSUME NEW n \in Names, Local(n) PROVE GoodInv'
  BY <1>3, LocalGood
<1>4. ASSUME NEW S \in SUBSET Names, Call(S) PROVE GoodInv'
  BY <1>4, CallGood
<1>5. CASE FunctionReturn
  BY <1>5, ReturnGood
<1>6. ASSUME NEW S \in SUBSET Names, BuiltinStart(S) \/ BuiltinEnd PROVE GoodInv'
  BY <1>6, BuiltinGood
<1>7. ASSUME NEW S \in SUBSET Names, NEW D \in SUBSET Names, ChangeDirectory(S, D)
      PROVE  GoodInv'
  BY <1>7, DirectoryGood
<1>8. {} \in SUBSET Names
  OBVIOUS
<1> QED
  BY <1>1, <1>2, <1>3, <1>4, <1>5, <1>6, <1>7, <1>8 DEF Next

\* The invariant implies the types.
LEMMA GoodTypes == GoodInv => TypeOK
<1> SUFFICES ASSUME GoodInv PROVE TypeOK
  OBVIOUS
<1>1. Good \subseteq Bindings
  BY DEF Good
<1>2. GoodSaved \subseteq Saved
  <2>1. ASSUME NEW s \in GoodSaved PROVE s \in Saved
    <3>1. PICK S \in SUBSET Names : s \in [S -> Good]
      BY <2>1 DEF GoodSaved
    <3>2. s \in [S -> Bindings]
      BY <1>1, <3>1
    <3> QED
      BY <3>2 DEF Saved
  <2> QED
    BY <2>1
<1>3. b \in [Names -> Bindings]
  BY <1>1 DEF GoodInv
<1>4. \A i \in DOMAIN scopes : scopes[i].id \in Ids /\ scopes[i].saved \in Saved
  <2>1. \A i \in DOMAIN scopes : scopes[i] \in GoodScopes
    BY SeqElements DEF GoodInv
  <2> QED
    BY <1>2, <2>1 DEF GoodScopes
<1>5. prefix = None \/ (prefix.id \in Ids /\ prefix.saved \in Saved /\ prefix.ran \in BOOLEAN)
  BY <1>2 DEF GoodInv
<1>6. overlay = None \/ (overlay.saved \in Saved /\ overlay.owner \in [DOMAIN overlay.saved -> Ids])
  BY <1>2 DEF GoodInv
<1> QED
  BY <1>3, <1>4, <1>5, <1>6 DEF GoodInv, TypeOK

\* The shell's variable maps, scopes and snapshots stay well typed, and every call
\* in progress has its scope, for any names, values and number of calls.
THEOREM TypeCorrect == Spec => []TypeOK
<1>1. Spec => []GoodInv
  BY InitGood, NextGood, PTL DEF Spec
<1> QED
  BY <1>1, GoodTypes, PTL

\* A child is given exactly the exported values, after any sequence of
\* assignments, declarations, calls, returns and directory changes.
THEOREM ChildrenSeeExports == Spec => []ChildEnvironment
<1>1. Spec => []GoodInv
  BY InitGood, NextGood, PTL DEF Spec
<1>2. GoodInv => ChildEnvironment
  BY DEF GoodInv, ChildEnvironment, Good
<1> QED
  BY <1>1, <1>2, PTL

-----------------------------------------------------------------------------
(* Values stay in their frame *)

\* id is the frame that owns n among the first k frames of f, 0 for the globals.
OwnerIs(f, n, k, id) ==
  \/ id = 0 /\ \A i \in 1..k : n \notin DOMAIN f[i].saved
  \/ \E i \in 1..k : /\ n \in DOMAIN f[i].saved /\ id = f[i].id
                     /\ \A j \in (i + 1)..k : n \notin DOMAIN f[j].saved

\* A binding of n was written for frame id, or by the environment o in force.
Belongs(o, x, n, id) ==
  x.born = id \/ (x.born = Project /\ o # None /\ n \in DOMAIN o.saved)

\* NoEscape frame by frame, as saving and restoring keeps it: the current binding
\* belongs to the owner of its name, a snapshot to the owner below its frame,
\* and what the environment has saved to the frame it was applied in.
Owned ==
  /\ \A n \in Names : Belongs(overlay, b[n], n, OwnerId(n))
  /\ \A k \in 1..Len(Shadows) : \A n \in DOMAIN Shadows[k].saved :
       \E id : OwnerIs(Shadows, n, k - 1, id) /\ Belongs(overlay, Shadows[k].saved[n], n, id)
  /\ overlay # None =>
       \A n \in DOMAIN overlay.saved : overlay.saved[n].born = overlay.owner[n]

EscapeInv == broken \/ crossed \/ Owned

\* There is one owner.
LEMMA OwnerUnique ==
  ASSUME NEW f, NEW n, NEW k \in Nat, NEW i, NEW j, OwnerIs(f, n, k, i), OwnerIs(f, n, k, j)
  PROVE  i = j
<1>1. CASE \A m \in 1..k : n \notin DOMAIN f[m].saved BY <1>1 DEF OwnerIs
<1>2. CASE ~\A m \in 1..k : n \notin DOMAIN f[m].saved
  <2>1. PICK x \in 1..k : /\ n \in DOMAIN f[x].saved /\ i = f[x].id
                          /\ \A m \in (x + 1)..k : n \notin DOMAIN f[m].saved
    BY <1>2 DEF OwnerIs
  <2>2. PICK y \in 1..k : /\ n \in DOMAIN f[y].saved /\ j = f[y].id
                          /\ \A m \in (y + 1)..k : n \notin DOMAIN f[m].saved
    BY <1>2 DEF OwnerIs
  <2>3. x = y BY <2>1, <2>2
  <2> QED BY <2>1, <2>2, <2>3
<1> QED BY <1>1, <1>2

\* The owner depends on the frames' ids and on which of them shadow n.
LEMMA OwnerSame ==
  ASSUME NEW f, NEW g, NEW n, NEW k \in Nat, NEW id, OwnerIs(f, n, k, id),
         \A i \in 1..k : g[i].id = f[i].id /\ (n \in DOMAIN g[i].saved <=> n \in DOMAIN f[i].saved)
  PROVE  OwnerIs(g, n, k, id)
<1>1. CASE id = 0 /\ \A i \in 1..k : n \notin DOMAIN f[i].saved BY <1>1 DEF OwnerIs
<1>2. CASE \E i \in 1..k : /\ n \in DOMAIN f[i].saved /\ id = f[i].id
                           /\ \A j \in (i + 1)..k : n \notin DOMAIN f[j].saved
  <2>1. PICK i \in 1..k : /\ n \in DOMAIN f[i].saved /\ id = f[i].id
                          /\ \A j \in (i + 1)..k : n \notin DOMAIN f[j].saved
    BY <1>2
  <2>2. \A j \in (i + 1)..k : j \in 1..k OBVIOUS
  <2>3. /\ n \in DOMAIN g[i].saved /\ id = g[i].id
        /\ \A j \in (i + 1)..k : n \notin DOMAIN g[j].saved
    BY <2>1, <2>2
  <2> QED BY <2>3 DEF OwnerIs
<1> QED BY <1>1, <1>2 DEF OwnerIs

\* A frame that shadows n owns it; one that does not changes nothing.
LEMMA OwnerNext ==
  ASSUME NEW f, NEW n, NEW k \in Nat
  PROVE  /\ n \in DOMAIN f[k + 1].saved => OwnerIs(f, n, k + 1, f[k + 1].id)
         /\ n \notin DOMAIN f[k + 1].saved =>
              \A id : OwnerIs(f, n, k, id) <=> OwnerIs(f, n, k + 1, id)
<1>1. ASSUME n \in DOMAIN f[k + 1].saved PROVE OwnerIs(f, n, k + 1, f[k + 1].id)
  <2>1. k + 1 \in 1..(k + 1) /\ (k + 1 + 1)..(k + 1) = {} OBVIOUS
  <2> QED BY <1>1, <2>1 DEF OwnerIs
<1>2. ASSUME n \notin DOMAIN f[k + 1].saved, NEW id, OwnerIs(f, n, k, id)
      PROVE  OwnerIs(f, n, k + 1, id)
  <2>1. \A i \in 1..(k + 1) : i \in 1..k \/ i = k + 1 OBVIOUS
  <2>2. \A i \in 1..k : i \in 1..(k + 1)
                        /\ \A j \in (i + 1)..(k + 1) : j \in (i + 1)..k \/ j = k + 1
    OBVIOUS
  <2> QED BY <1>2, <2>1, <2>2 DEF OwnerIs
<1>3. ASSUME n \notin DOMAIN f[k + 1].saved, NEW id, OwnerIs(f, n, k + 1, id)
      PROVE  OwnerIs(f, n, k, id)
  <2>1. \A i \in 1..k : i \in 1..(k + 1)
                        /\ \A j \in (i + 1)..k : j \in (i + 1)..(k + 1)
    OBVIOUS
  <2>2. \A i \in 1..(k + 1) : n \in DOMAIN f[i].saved => i \in 1..k BY <1>3
  <2> QED BY <1>3, <2>1, <2>2 DEF OwnerIs
<1> QED BY <1>1, <1>2, <1>3

\* OwnerId names the owner among all frames.
LEMMA OwnerIdIs == GoodInv => \A n \in Names : OwnerIs(Shadows, n, Len(Shadows), OwnerId(n))
<1> SUFFICES ASSUME GoodInv, NEW n \in Names
             PROVE  OwnerIs(Shadows, n, Len(Shadows), OwnerId(n))
  OBVIOUS
<1> DEFINE f == Shadows
           k == Len(Shadows)
           T == {i \in DOMAIN Shadows : n \in DOMAIN Shadows[i].saved}
<1>0. k \in Nat /\ DOMAIN f = 1..k BY ShadowsType
<1>1. CASE T = {}
  <2>1. OwnerId(n) = 0 BY <1>1 DEF OwnerId
  <2> QED BY <1>0, <1>1, <2>1 DEF OwnerIs
<1>2. CASE T # {}
  <2>1. \E i \in T : \A j \in T : j <= i
    BY <1>0, <1>2, LastExists
  <2> DEFINE m == CHOOSE i \in T : \A j \in T : j <= i
  <2>2. m \in T /\ \A j \in T : j <= m BY <2>1
  <2>3. OwnerId(n) = f[m].id BY <1>2 DEF OwnerId
  <2> HIDE DEF m
  <2>4. m \in 1..k /\ n \in DOMAIN f[m].saved /\ \A j \in (m + 1)..k : n \notin DOMAIN f[j].saved
    BY <1>0, <2>2
  <2> HIDE DEF f, k
  <2>5. OwnerIs(f, n, k, f[m].id) BY <2>4 DEF OwnerIs
  <2> QED BY <2>3, <2>5 DEF f, k
<1> QED BY <1>1, <1>2

\* The same in the next state.
LEMMA OwnerIdIsNext ==
  GoodInv' => \A n \in Names : OwnerIs(Shadows', n, Len(Shadows'), OwnerId(n)')
<1>1. (GoodInv => \A n \in Names : OwnerIs(Shadows, n, Len(Shadows), OwnerId(n)))'
  BY OwnerIdIs, PTL
<1> QED BY <1>1 DEF OwnerIs
\* The frames are the same but for the part of a builtin that says it ran.
SameFrames ==
  /\ Len(Shadows') = Len(Shadows)
  /\ \A i \in 1..Len(Shadows) : /\ Shadows'[i].id = Shadows[i].id
                                /\ Shadows'[i].saved = Shadows[i].saved

\* Then every name keeps its owner.
LEMMA OwnerKept ==
  ASSUME GoodInv, GoodInv', SameFrames, NEW n \in Names
  PROVE  OwnerId(n)' = OwnerId(n)
<1>1. Len(Shadows) \in Nat BY ShadowsType
<1>2. OwnerIs(Shadows, n, Len(Shadows), OwnerId(n)) BY OwnerIdIs
<1>3. OwnerIs(Shadows', n, Len(Shadows'), OwnerId(n)') BY OwnerIdIsNext
<1>4. OwnerIs(Shadows', n, Len(Shadows), OwnerId(n)) BY <1>1, <1>2, OwnerSame DEF SameFrames
<1> QED BY <1>1, <1>3, <1>4, OwnerUnique DEF SameFrames

\* Snapshots of frames that stay keep their owners.
LEMMA SnapshotsKept ==
  ASSUME Owned, NEW k \in Nat, k <= Len(Shadows), Len(Shadows) \in Nat, overlay' = overlay,
         \A i \in 1..k : Shadows'[i].id = Shadows[i].id /\ Shadows'[i].saved = Shadows[i].saved,
         NEW m \in 1..k, NEW n \in DOMAIN Shadows'[m].saved
  PROVE  \E id : OwnerIs(Shadows', n, m - 1, id) /\ Belongs(overlay', Shadows'[m].saved[n], n, id)
<1>1. m \in 1..Len(Shadows) /\ n \in DOMAIN Shadows[m].saved
      /\ Shadows'[m].saved[n] = Shadows[m].saved[n]
  OBVIOUS
<1>2. PICK id : OwnerIs(Shadows, n, m - 1, id) /\ Belongs(overlay, Shadows[m].saved[n], n, id)
  BY <1>1 DEF Owned
<1>3. m - 1 \in Nat /\ \A i \in 1..(m - 1) : i \in 1..k OBVIOUS
<1>4. OwnerIs(Shadows', n, m - 1, id) BY <1>2, <1>3, OwnerSame
<1>5. Belongs(overlay', Shadows'[m].saved[n], n, id) BY <1>1, <1>2 DEF Belongs
<1> QED BY <1>4, <1>5

\* A write to current bindings, for their owners.
LEMMA WriteOwned ==
  ASSUME GoodInv, GoodInv', Owned, SameFrames, overlay' = overlay,
         \A n \in Names : b'[n].born = b[n].born \/ b'[n].born = OwnerId(n)
  PROVE  Owned'
<1>1. Len(Shadows) \in Nat /\ Len(Shadows') = Len(Shadows) BY ShadowsType DEF SameFrames
<1>2. ASSUME NEW n \in Names PROVE Belongs(overlay', b'[n], n, OwnerId(n)')
  <2>1. OwnerId(n)' = OwnerId(n) BY OwnerKept
  <2>2. Belongs(overlay, b[n], n, OwnerId(n)) BY DEF Owned
  <2> QED BY <2>1, <2>2 DEF Belongs
<1>3. ASSUME NEW k \in 1..Len(Shadows'), NEW n \in DOMAIN Shadows'[k].saved
      PROVE  \E id : OwnerIs(Shadows', n, k - 1, id) /\ Belongs(overlay', Shadows'[k].saved[n], n, id)
  BY <1>1, SnapshotsKept DEF SameFrames
<1> QED BY <1>2, <1>3 DEF Owned

\* A frame is entered: it saves what its bindings shadow, and they are its own.
LEMMA PushOwned ==
  ASSUME GoodInv, GoodInv', Owned, overlay' = overlay, NEW k \in Nat,
         Len(Shadows) = k, Len(Shadows') = k + 1,
         \A i \in 1..k : Shadows'[i].id = Shadows[i].id /\ Shadows'[i].saved = Shadows[i].saved,
         \A n \in DOMAIN Shadows'[k + 1].saved : n \in Names /\ Shadows'[k + 1].saved[n] = b[n],
         \A n \in Names : IF n \in DOMAIN Shadows'[k + 1].saved
                          THEN b'[n].born = Shadows'[k + 1].id ELSE b'[n] = b[n]
  PROVE  Owned'
<1>1. \A n \in Names : OwnerIs(Shadows', n, k, OwnerId(n)) BY OwnerIdIs, OwnerSame
<1>2. ASSUME NEW n \in Names PROVE Belongs(overlay', b'[n], n, OwnerId(n)')
  <2>1. OwnerIs(Shadows', n, k + 1, OwnerId(n)') BY OwnerIdIsNext
  <2>2. CASE n \in DOMAIN Shadows'[k + 1].saved
    <3>1. OwnerIs(Shadows', n, k + 1, Shadows'[k + 1].id) BY <2>2, OwnerNext
    <3>2. OwnerId(n)' = Shadows'[k + 1].id
      <4>1. k + 1 \in Nat OBVIOUS
      <4> QED BY <2>1, <3>1, <4>1, OwnerUnique
    <3> QED BY <2>2, <3>2 DEF Belongs
  <2>3. CASE n \notin DOMAIN Shadows'[k + 1].saved
    <3>1. OwnerIs(Shadows', n, k, OwnerId(n)') BY <2>1, <2>3, OwnerNext
    <3>2. OwnerId(n)' = OwnerId(n) BY <1>1, <3>1, OwnerUnique
    <3>3. Belongs(overlay, b[n], n, OwnerId(n)) BY DEF Owned
    <3> QED BY <2>3, <3>2, <3>3 DEF Belongs
  <2> QED BY <2>2, <2>3
<1>3. ASSUME NEW m \in 1..Len(Shadows'), NEW n \in DOMAIN Shadows'[m].saved
      PROVE  \E id : OwnerIs(Shadows', n, m - 1, id) /\ Belongs(overlay', Shadows'[m].saved[n], n, id)
  <2>1. CASE m \in 1..k BY <2>1, SnapshotsKept
  <2>2. CASE m = k + 1
    <3>1. OwnerIs(Shadows', n, m - 1, OwnerId(n)) BY <1>1, <2>2
    <3>2. Belongs(overlay, b[n], n, OwnerId(n)) BY <2>2 DEF Owned
    <3>3. Belongs(overlay', Shadows'[m].saved[n], n, OwnerId(n)) BY <2>2, <3>2 DEF Belongs
    <3> QED BY <3>1, <3>3
  <2> QED BY <2>1, <2>2
<1> QED BY <1>2, <1>3 DEF Owned

\* A frame is left: its snapshots come back.
LEMMA PopOwned ==
  ASSUME GoodInv, GoodInv', Owned, overlay' = overlay, NEW k \in Nat,
         Len(Shadows) = k + 1, Len(Shadows') = k,
         \A i \in 1..k : Shadows'[i].id = Shadows[i].id /\ Shadows'[i].saved = Shadows[i].saved,
         \A n \in Names : b'[n] = IF n \in DOMAIN Shadows[k + 1].saved
                                  THEN Shadows[k + 1].saved[n] ELSE b[n]
  PROVE  Owned'
<1>1. ASSUME NEW n \in Names PROVE Belongs(overlay', b'[n], n, OwnerId(n)')
  <2>1. OwnerIs(Shadows', n, k, OwnerId(n)') BY OwnerIdIsNext
  <2>2. OwnerIs(Shadows, n, k, OwnerId(n)')
    BY <2>1, OwnerSame
  <2>3. CASE n \in DOMAIN Shadows[k + 1].saved
    <3>1. k + 1 \in 1..Len(Shadows) /\ (k + 1) - 1 = k OBVIOUS
    <3>2. PICK id : OwnerIs(Shadows, n, k, id) /\ Belongs(overlay, Shadows[k + 1].saved[n], n, id)
      BY <2>3, <3>1 DEF Owned
    <3>3. id = OwnerId(n)' BY <2>2, <3>2, OwnerUnique
    <3> QED BY <2>3, <3>2, <3>3 DEF Belongs
  <2>4. CASE n \notin DOMAIN Shadows[k + 1].saved
    <3>1. OwnerIs(Shadows, n, k + 1, OwnerId(n)') BY <2>2, <2>4, OwnerNext
    <3>2. OwnerIs(Shadows, n, k + 1, OwnerId(n)) BY OwnerIdIs
    <3>3. k + 1 \in Nat OBVIOUS
    <3>4. OwnerId(n)' = OwnerId(n) BY <3>1, <3>2, <3>3, OwnerUnique
    <3>5. Belongs(overlay, b[n], n, OwnerId(n)) BY DEF Owned
    <3> QED BY <2>4, <3>4, <3>5 DEF Belongs
  <2> QED BY <2>3, <2>4
<1>2. ASSUME NEW m \in 1..Len(Shadows'), NEW n \in DOMAIN Shadows'[m].saved
      PROVE  \E id : OwnerIs(Shadows', n, m - 1, id) /\ Belongs(overlay', Shadows'[m].saved[n], n, id)
  <2>1. k <= Len(Shadows) /\ Len(Shadows) \in Nat OBVIOUS
  <2> QED BY <2>1, SnapshotsKept
<1> QED BY <1>1, <1>2 DEF Owned

\* A local is declared in the scope k: it shadows the binding n had, and no
\* frame further in shadows n.
LEMMA ShadowOwned ==
  ASSUME GoodInv, GoodInv', Owned, overlay' = overlay, NEW n \in Names,
         NEW k \in 1..Len(Shadows), Len(Shadows') = Len(Shadows),
         \A i \in 1..Len(Shadows) : Shadows'[i].id = Shadows[i].id,
         \A i \in 1..Len(Shadows) : i # k => Shadows'[i].saved = Shadows[i].saved,
         DOMAIN Shadows'[k].saved = DOMAIN Shadows[k].saved \cup {n},
         Shadows'[k].saved[n] = b[n],
         \A m \in DOMAIN Shadows[k].saved : Shadows'[k].saved[m] = Shadows[k].saved[m],
         \A i \in k..Len(Shadows) : n \notin DOMAIN Shadows[i].saved,
         b'[n].born = Shadows[k].id,
         \A m \in Names : m # n => b'[m] = b[m]
  PROVE  Owned'
<1> DEFINE l == Len(Shadows)
<1>0. l \in Nat BY ShadowsType
<1> HIDE DEF l
<1>1. ASSUME NEW m \in Names, m # n PROVE Belongs(overlay', b'[m], m, OwnerId(m)')
  <2>1. OwnerIs(Shadows', m, l, OwnerId(m)') BY OwnerIdIsNext DEF l
  <2>2. OwnerIs(Shadows, m, l, OwnerId(m)) BY OwnerIdIs DEF l
  <2>3. \A i \in 1..l : m \in DOMAIN Shadows'[i].saved <=> m \in DOMAIN Shadows[i].saved
    BY <1>1 DEF l
  <2>4. OwnerIs(Shadows', m, l, OwnerId(m)) BY <1>0, <2>2, <2>3, OwnerSame DEF l
  <2>5. OwnerId(m)' = OwnerId(m) BY <1>0, <2>1, <2>4, OwnerUnique
  <2>6. Belongs(overlay, b[m], m, OwnerId(m)) BY DEF Owned
  <2> QED BY <1>1, <2>5, <2>6 DEF Belongs
<1>2. Belongs(overlay', b'[n], n, OwnerId(n)')
  <2>1. OwnerIs(Shadows', n, l, OwnerId(n)') BY OwnerIdIsNext DEF l
  <2>2. \A j \in (k + 1)..l : n \notin DOMAIN Shadows'[j].saved BY <1>0 DEF l
  <2>3. k \in 1..l /\ n \in DOMAIN Shadows'[k].saved /\ Shadows'[k].id = Shadows[k].id
    BY DEF l
  <2>4. OwnerIs(Shadows', n, l, Shadows[k].id) BY <2>2, <2>3 DEF OwnerIs
  <2>5. OwnerId(n)' = Shadows[k].id BY <1>0, <2>1, <2>4, OwnerUnique
  <2> QED BY <2>5 DEF Belongs
<1>3. ASSUME NEW i \in 1..l, NEW m \in DOMAIN Shadows'[i].saved, ~(i = k /\ m = n)
      PROVE  \E id : OwnerIs(Shadows', m, i - 1, id) /\ Belongs(overlay', Shadows'[i].saved[m], m, id)
  <2>1. m \in DOMAIN Shadows[i].saved /\ Shadows'[i].saved[m] = Shadows[i].saved[m]
    BY <1>3 DEF l
  <2>2. PICK id : OwnerIs(Shadows, m, i - 1, id) /\ Belongs(overlay, Shadows[i].saved[m], m, id)
    BY <2>1 DEF Owned, l
  <2>3. i - 1 \in Nat /\ \A j \in 1..(i - 1) : j \in 1..l /\ j < i BY <1>0
  <2>4. \A j \in 1..(i - 1) : m \in DOMAIN Shadows'[j].saved <=> m \in DOMAIN Shadows[j].saved
    <3> TAKE j \in 1..(i - 1)
    <3>1. CASE j # k BY <2>3, <3>1 DEF l
    <3>2. CASE j = k
      <4>1. m # n
        <5>1. i \in k..Len(Shadows) BY <1>0, <2>3, <3>2 DEF l
        <5> QED BY <2>1, <5>1
      <4> QED BY <3>2, <4>1
    <3> QED BY <3>1, <3>2
  <2>5. OwnerIs(Shadows', m, i - 1, id) BY <2>2, <2>3, <2>4, OwnerSame DEF l
  <2>6. Belongs(overlay', Shadows'[i].saved[m], m, id) BY <2>1, <2>2 DEF Belongs
  <2> QED BY <2>5, <2>6
<1>4. \E id : OwnerIs(Shadows', n, k - 1, id) /\ Belongs(overlay', Shadows'[k].saved[n], n, id)
  <2>1. OwnerIs(Shadows, n, l, OwnerId(n)) BY OwnerIdIs DEF l
  <2>2. \A i \in k..l : n \notin DOMAIN Shadows[i].saved BY DEF l
  <2>3. k - 1 \in Nat /\ \A i \in 1..l : i \in 1..(k - 1) \/ i \in k..l
    BY <1>0 DEF l
  <2>4. \A i \in 1..(k - 1) : i \in 1..l /\ \A j \in (i + 1)..(k - 1) : j \in (i + 1)..l
    BY <1>0 DEF l
  <2>5. OwnerIs(Shadows, n, k - 1, OwnerId(n)) BY <2>1, <2>2, <2>3, <2>4 DEF OwnerIs
  <2>6. \A i \in 1..(k - 1) : i \in 1..l /\ i # k BY <1>0, <2>4
  <2>7. OwnerIs(Shadows', n, k - 1, OwnerId(n)) BY <2>3, <2>5, <2>6, OwnerSame DEF l
  <2>8. Belongs(overlay, b[n], n, OwnerId(n)) BY DEF Owned
  <2>9. Belongs(overlay', Shadows'[k].saved[n], n, OwnerId(n)) BY <2>8 DEF Belongs
  <2> QED BY <2>7, <2>9
<1>5. ASSUME NEW i \in 1..Len(Shadows'), NEW m \in DOMAIN Shadows'[i].saved
      PROVE  \E id : OwnerIs(Shadows', m, i - 1, id) /\ Belongs(overlay', Shadows'[i].saved[m], m, id)
  BY <1>3, <1>4 DEF l
<1>6. \A m \in Names : Belongs(overlay', b'[m], m, OwnerId(m)') BY <1>1, <1>2
<1> QED BY <1>5, <1>6 DEF Owned
-----------------------------------------------------------------------------
(* For which frame the operations on a binding write *)

\* Attributes leave the content alone.
LEMMA AttributeBorn ==
  ASSUME NEW x \in Good
  PROVE  /\ MarkExported(x).born = x.born /\ Unexport(x).born = x.born
         /\ MarkReadonly(x).born = x.born
         /\ \A y \in Attributes(x) : y.born = x.born
<1>1. \A z \in Good : MarkExported(z).born = z.born /\ MarkReadonly(z).born = z.born
  BY DEF Good, Bindings, MarkExported, MarkReadonly
<1>2. Unexport(x).born = x.born BY DEF Good, Bindings, Unexport
<1>3. MarkExported(x) \in Good BY MarkExportedGood
<1> QED BY <1>1, <1>2, <1>3 DEF Attributes

\* What a write leaves behind.
LEMMA WrittenBorn ==
  ASSUME NEW x \in Good, NEW y \in Good, NEW i \in Ids
  PROVE  Written(x, y, i).born = IF x.readonly THEN x.born ELSE i
BY DEF Good, Bindings, Written

\* An assignment is the frame's own.
LEMMA AssignedBorn ==
  ASSUME NEW x \in Good, NEW i \in Ids, NEW z \in Assigned(x, i)
  PROVE  z.born = i
<1> DEFINE made(v) == {IF x.assoc # NoVal THEN SetAssoc(x, v) ELSE SetArray(x, v),
                       TrySetVar(x, v), TryExportVar(x, v)}
<1>0. ~x.readonly /\ z \in UNION {{Written(x, y, i) : y \in made(v)} : v \in Vals}
  BY DEF Assigned
<1>1. \A v \in Vals : made(v) \subseteq Good
  BY SetArrayGood, SetAssocGood, TrySetVarGood, TryExportVarGood
<1> HIDE DEF made
<1>2. PICK v \in Vals : z \in {Written(x, y, i) : y \in made(v)} BY <1>0
<1>3. PICK y \in made(v) : z = Written(x, y, i) BY <1>2
<1> QED BY <1>0, <1>1, <1>3, WrittenBorn

\* A declaration keeps the content or is the frame's own.
LEMMA DeclaredBorn ==
  ASSUME NEW x \in Good, NEW i \in Ids, NEW z \in Declared(x, i), ~x.readonly
  PROVE  z.born = x.born \/ z.born = i
<1> DEFINE made(v) == {Written(x, SetArray(x, v), i), Written(x, SetAssoc(x, v), i),
                       Written(x, TrySetVar(x, v), i)}
           options == {x, DeclareArray(x), DeclareAssoc(x)} \cup UNION {made(v) : v \in Vals}
<1>1. z \in {x} \cup UNION {Attributes(y) : y \in options} BY DEF Declared
<1>2. \A v \in Vals : \A y \in made(v) : y \in Good /\ y.born = i
  <2>1. \A v \in Vals : SetArray(x, v) \in Good /\ SetAssoc(x, v) \in Good
                        /\ TrySetVar(x, v) \in Good
    BY SetArrayGood, SetAssocGood, TrySetVarGood
  <2>2. \A y \in Good : Written(x, y, i) \in Good /\ Written(x, y, i).born = i
    BY WrittenGood, WrittenBorn
  <2> QED BY <2>1, <2>2
<1>3. DeclareArray(x).born = x.born /\ DeclareAssoc(x).born = x.born
  BY DEF DeclareArray, DeclareAssoc, SetArray, SetAssoc, Good, Bindings
<1>4. \A y \in options : y \in Good /\ (y.born = x.born \/ y.born = i)
  <2>1. \A y \in UNION {made(v) : v \in Vals} : \E v \in Vals : y \in made(v) OBVIOUS
  <2> HIDE DEF made
  <2> QED BY <1>2, <1>3, <2>1, DeclareGood
<1> HIDE DEF options
<1>5. CASE z = x BY <1>5
<1>6. CASE \E y \in options : z \in Attributes(y) BY <1>4, <1>6, AttributeBorn
<1> QED BY <1>1, <1>5, <1>6

\* Prefix assignments are the frame's own.
LEMMA PrefixBorn ==
  ASSUME GoodInv, NEW n \in Names, NEW i \in Ids,
         NEW x \in FunctionPrefix(n, i) \cup BuiltinPrefix(n, i)
  PROVE  x.born = i
<1>1. b[n] \in Good /\ b[n].exported \in BOOLEAN BY DEF GoodInv, Good, Bindings
<1>2. [Absent EXCEPT !.exported = b[n].exported, !.born = i] \in Good BY <1>1, AbsentGood
<1>3. \A z \in Good : \A y \in Assigned(z, i) : y \in Good /\ MarkExported(y).born = i
  <2> TAKE z \in Good
  <2> TAKE y \in Assigned(z, i)
  <2>1. y \in Good BY AssignedGood, SMTT(30)
  <2>2. y.born = i BY AssignedBorn, SMTT(30)
  <2> QED BY <2>1, <2>2, AttributeBorn
<1> QED BY <1>1, <1>2, <1>3 DEF FunctionPrefix, BuiltinPrefix

-----------------------------------------------------------------------------
(* NoEscape, step by step *)

\* The frames in terms of the scopes and the builtin.
LEMMA ShadowsAre ==
  GoodInv =>
    /\ Len(scopes) \in Nat
    /\ prefix = None => Shadows = scopes
    /\ prefix # None => /\ Len(Shadows) = Len(scopes) + 1
                        /\ Shadows[Len(scopes) + 1] = prefix
                        /\ \A i \in 1..Len(scopes) : Shadows[i] = scopes[i]
<1> SUFFICES ASSUME GoodInv
             PROVE  /\ Len(scopes) \in Nat
                    /\ prefix = None => Shadows = scopes
                    /\ prefix # None => /\ Len(Shadows) = Len(scopes) + 1
                                        /\ Shadows[Len(scopes) + 1] = prefix
                                        /\ \A i \in 1..Len(scopes) : Shadows[i] = scopes[i]
  OBVIOUS
<1>1. scopes \in Seq(GoodScopes) BY DEF GoodInv
<1>2. Len(scopes) \in Nat /\ DOMAIN scopes = 1..Len(scopes) BY <1>1, SeqElements
<1>3. CASE prefix # None
  <2>1. Shadows = Append(scopes, prefix) BY <1>3 DEF Shadows
  <2>2. /\ Len(Shadows) = Len(scopes) + 1
        /\ \A i \in 1..(Len(scopes) + 1) :
             Shadows[i] = IF i <= Len(scopes) THEN scopes[i] ELSE prefix
    BY <1>2, <2>1 DEF GoodInv
  <2> QED BY <1>2, <1>3, <2>2
<1> QED BY <1>2, <1>3 DEF Shadows

\* The same in the next state.
LEMMA ShadowsAreNext ==
  GoodInv' =>
    /\ Len(scopes') \in Nat
    /\ prefix' = None => Shadows' = scopes'
    /\ prefix' # None => /\ Len(Shadows') = Len(scopes') + 1
                         /\ Shadows'[Len(scopes') + 1] = prefix'
                         /\ \A i \in 1..Len(scopes') : Shadows'[i] = scopes'[i]
<1>1. (GoodInv =>
        /\ Len(scopes) \in Nat
        /\ prefix = None => Shadows = scopes
        /\ prefix # None => /\ Len(Shadows) = Len(scopes) + 1
                            /\ Shadows[Len(scopes) + 1] = prefix
                            /\ \A i \in 1..Len(scopes) : Shadows[i] = scopes[i])'
  BY ShadowsAre, PTL
<1> QED BY <1>1

\* The saved assignments of a builtin are there, also once it ran.
LEMMA RanPrefix ==
  ASSUME GoodInv, UNCHANGED prefix \/ Ran
  PROVE  /\ prefix' = None <=> prefix = None
         /\ prefix # None => prefix'.id = prefix.id /\ prefix'.saved = prefix.saved
<1>1. GoodSaved \subseteq Saved
  <2>1. ASSUME NEW s \in GoodSaved PROVE s \in Saved
    <3>1. PICK S \in SUBSET Names : s \in [S -> Good] BY DEF GoodSaved
    <3>2. s \in [S -> Bindings] BY <3>1 DEF Good
    <3> QED BY <3>2 DEF Saved
  <2> QED BY <2>1
<1>2. CASE prefix = None BY <1>2 DEF Ran, Idle
<1>3. CASE prefix # None /\ Ran
  <2>1. prefix' = [prefix EXCEPT !.ran = TRUE] BY <1>3 DEF Ran, Idle
  <2>2. prefix \in [id : Ids, saved : GoodSaved, ran : BOOLEAN] BY <1>3 DEF GoodInv
  <2>3. prefix'.id = prefix.id /\ prefix'.saved = prefix.saved
        /\ prefix' \in [id : Ids, saved : GoodSaved, ran : BOOLEAN]
    BY <2>1, <2>2
  <2>4. prefix' \in SavedPrefixes BY <1>1, <2>3 DEF SavedPrefixes
  <2> QED BY <1>3, <2>3, <2>4, NoneAssumption
<1> QED BY <1>2, <1>3

\* Steps that enter and leave no frame.
LEMMA FramesKept ==
  ASSUME GoodInv, GoodInv', scopes' = scopes, UNCHANGED prefix \/ Ran
  PROVE  SameFrames
<1>1. CASE prefix = None
  BY <1>1, RanPrefix, ShadowsAre, ShadowsAreNext DEF SameFrames
<1>2. CASE prefix # None
  <2>1. /\ prefix' # None /\ prefix'.id = prefix.id /\ prefix'.saved = prefix.saved
    BY <1>2, RanPrefix
  <2>2. Len(Shadows') = Len(Shadows) /\ Len(Shadows) = Len(scopes) + 1 /\ Len(scopes) \in Nat
    BY <1>2, <2>1, ShadowsAre, ShadowsAreNext
  <2>3. \A i \in 1..Len(Shadows) : i \in 1..Len(scopes) \/ i = Len(scopes) + 1 BY <2>2
  <2>4. \A i \in 1..Len(scopes) : Shadows'[i] = Shadows[i]
    BY <1>2, <2>1, ShadowsAre, ShadowsAreNext
  <2>5. Shadows'[Len(scopes) + 1] = prefix' /\ Shadows[Len(scopes) + 1] = prefix
    BY <1>2, <2>1, ShadowsAre, ShadowsAreNext
  <2> QED BY <2>1, <2>2, <2>3, <2>4, <2>5 DEF SameFrames
<1> QED BY <1>1, <1>2

\* Assignments and builtins write for the owner of the name.
LEMMA OperationOwned ==
  ASSUME GoodInv, GoodInv', Owned, NEW n \in Names,
         Assign(n) \/ SpecialPrefix(n) \/ SetVar(n) \/ Export(n) \/ Readonly(n)
           \/ UnsetName(n) \/ Declare(n)
  PROVE  Owned'
<1> DEFINE Writes(x) == x.born = b[n].born \/ x.born = OwnerId(n)
<1>1. b[n] \in Good /\ OwnerId(n) \in Ids
  BY OwnerIdType DEF GoodInv
<1>2. \A y \in Good : Writes(Written(b[n], y, OwnerId(n)))
  BY <1>1, WrittenBorn
<1>3. UNCHANGED prefix \/ Ran
  BY DEF Assign, SpecialPrefix, SetVar, Export, Readonly, UnsetName, Declare
<1>4. \E x : Bind(n, x) /\ Writes(x)
  <2>1. CASE Assign(n) BY <1>1, <2>1, AssignedBorn DEF Assign
  <2>2. CASE SpecialPrefix(n)
    BY <1>1, <2>2, AssignedGood, AssignedBorn, AttributeBorn DEF SpecialPrefix
  <2>3. CASE SetVar(n) BY <1>1, <1>2, <2>3, TrySetVarGood DEF SetVar
  <2>4. CASE Export(n)
    <3>1. \A v \in Vals : TryExportVar(b[n], v) \in Good /\ Unexport(TrySetVar(b[n], v)) \in Good
      BY <1>1, TryExportVarGood, TrySetVarGood, AttributesGood
    <3>2. Writes(MarkExported(b[n])) /\ Writes(Unexport(b[n])) BY <1>1, AttributeBorn
    <3> HIDE DEF Writes
    <3> QED BY <1>2, <2>4, <3>1, <3>2 DEF Export
  <2>5. CASE Readonly(n)
    <3>1. \A v \in Vals : Written(b[n], TrySetVar(b[n], v), OwnerId(n)) \in Good
                          /\ Writes(Written(b[n], TrySetVar(b[n], v), OwnerId(n)))
      BY <1>1, <1>2, TrySetVarGood, WrittenGood
    <3>2. Writes(MarkReadonly(b[n])) BY <1>1, AttributeBorn
    <3>3. \A v \in Vals : Writes(MarkReadonly(Written(b[n], TrySetVar(b[n], v), OwnerId(n))))
      BY <3>1, AttributeBorn
    <3> HIDE DEF Writes
    <3> QED BY <2>5, <3>2, <3>3 DEF Readonly
  <2>6. CASE UnsetName(n)
    <3>1. Unset(b[n]) \in Good BY <1>1, UnsetGood
    <3>2. \A v \in Vals : /\ b[n].arr # NoVal => [b[n] EXCEPT !.arr = v] \in Good
                          /\ b[n].assoc # NoVal => [b[n] EXCEPT !.assoc = v] \in Good
      BY <1>1, VariablesAssumption DEF Good, Bindings, Consistent
    <3> HIDE DEF Writes
    <3> QED BY <1>2, <2>6, <3>1, <3>2 DEF UnsetName
  <2>7. CASE Declare(n)
    BY <1>1, <2>7, DeclaredBorn, AttributeBorn DEF Declare
  <2> QED BY <2>1, <2>2, <2>3, <2>4, <2>5, <2>6, <2>7
<1>5. PICK x : Bind(n, x) /\ Writes(x) BY <1>4
<1>6. b' = [b EXCEPT ![n] = x] /\ scopes' = scopes /\ overlay' = overlay BY <1>5 DEF Bind
<1>7. \A m \in Names : b'[m].born = b[m].born \/ b'[m].born = OwnerId(m)
  BY <1>5, <1>6 DEF GoodInv
<1> QED BY <1>3, <1>6, <1>7, FramesKept, WriteOwned
\* A frame's snapshots are of variables.
LEMMA SavedNames ==
  ASSUME NEW s \in GoodSaved PROVE DOMAIN s \subseteq Names
BY DEF GoodSaved

\* local, for a name that is or is not yet a local of the function.
LEMMA LocalOwned ==
  ASSUME GoodInv, GoodInv', Owned, NEW n \in Names, Local(n), ~broken'
  PROVE  Owned'
<1> DEFINE k == Len(scopes)
           top == scopes[k]
           already == n \in DOMAIN top.saved
           x == IF already THEN b[n]
                ELSE [Absent EXCEPT !.exported = b[n].exported, !.born = top.id]
           i == IF already THEN OwnerId(n) ELSE top.id
<1>1. k \in Nat /\ k \in 1..Len(scopes) /\ top \in GoodScopes
  BY DEF Local, GoodInv
<1>2. b[n] \in Good /\ OwnerId(n) \in Ids /\ b[n].exported \in BOOLEAN
  BY OwnerIdType DEF GoodInv, Good, Bindings
<1>3. top.id \in Ids /\ top.saved \in GoodSaved
  BY <1>1 DEF GoodScopes
<1>4. x \in Good /\ i \in Ids
  BY <1>2, <1>3, AbsentGood
<1>5. ~x.readonly
  BY DEF Local, Absent
<1>6. PICK y \in Declared(x, i) : b' = [b EXCEPT ![n] = y]
  BY DEF Local
<1>7. y.born = x.born \/ y.born = i
  <2> HIDE DEF x, i
  <2> QED BY <1>4, <1>5, <1>6, DeclaredBorn
<1>8. scopes' = [scopes EXCEPT ![k] = [top EXCEPT !.saved = Snapshot(top.saved, n)]]
  BY <1>1 DEF Local, Shadowed
<1>9. Ran /\ overlay' = overlay BY DEF Local
<1>10. b'[n] = y /\ \A m \in Names : m # n => b'[m] = b[m]
  BY <1>6 DEF GoodInv
<1>11. CASE already
  <2>1. Snapshot(top.saved, n) = top.saved
    <3>1. PICK S \in SUBSET Names : top.saved \in [S -> Good] BY <1>3 DEF GoodSaved
    <3>2. n \in S BY <1>11, <3>1
    <3> QED BY <3>1, <3>2 DEF Snapshot
  <2>2. [top EXCEPT !.saved = top.saved] = top BY <1>1 DEF GoodScopes
  <2>3. scopes' = scopes
    <3> HIDE DEF top
    <3>1. [scopes EXCEPT ![k] = top] = scopes BY <1>1 DEF GoodInv, top
    <3> QED BY <1>8, <2>1, <2>2, <3>1
  <2>4. SameFrames BY <1>9, <2>3, FramesKept
  <2>5. y.born = b[n].born \/ y.born = OwnerId(n) BY <1>7, <1>11
  <2>6. \A m \in Names : b'[m].born = b[m].born \/ b'[m].born = OwnerId(m)
    BY <1>10, <2>5
  <2> QED BY <1>9, <2>4, <2>6, WriteOwned
<1>12. CASE ~already
  <2> DEFINE t == [top EXCEPT !.saved = Snapshot(top.saved, n)]
  <2>1. /\ t.id = top.id /\ DOMAIN t.saved = DOMAIN top.saved \cup {n}
        /\ t.saved[n] = b[n] /\ \A m \in DOMAIN top.saved : t.saved[m] = top.saved[m]
    BY <1>1, <1>12 DEF GoodScopes, Snapshot
  <2>2. y.born = top.id
    <3>1. x.born = top.id BY <1>12 DEF Absent
    <3> QED BY <1>7, <1>12, <3>1
  <2> HIDE DEF top, t
  <2>3. /\ Len(scopes') = Len(scopes) /\ scopes'[k] = t /\ scopes[k] = top
        /\ \A j \in 1..Len(scopes) : j # k => scopes'[j] = scopes[j]
    BY <1>1, <1>8 DEF t, GoodInv, top
  <2>4. prefix # None => n \notin DOMAIN prefix.saved
    BY <1>12 DEF Local, Idle, top
  <2>5. /\ k \in 1..Len(Shadows) /\ Len(Shadows') = Len(Shadows) /\ Len(Shadows) \in Nat
        /\ Shadows'[k] = t /\ Shadows[k] = top
        /\ \A j \in 1..Len(Shadows) : j # k => /\ Shadows'[j].id = Shadows[j].id
                                               /\ Shadows'[j].saved = Shadows[j].saved
        /\ \A j \in (k + 1)..Len(Shadows) : n \notin DOMAIN Shadows[j].saved
    <3>1. CASE prefix = None
      <4>1. Shadows = scopes /\ Shadows' = scopes'
        BY <1>9, <3>1, RanPrefix, ShadowsAre, ShadowsAreNext
      <4> QED BY <1>1, <2>3, <4>1
    <3>2. CASE prefix # None
      <4>1. prefix' # None /\ prefix'.id = prefix.id /\ prefix'.saved = prefix.saved
        BY <1>9, <3>2, RanPrefix
      <4>2. /\ Len(Shadows) = k + 1 /\ Shadows[k + 1] = prefix
            /\ \A j \in 1..k : Shadows[j] = scopes[j]
        BY <3>2, ShadowsAre
      <4>3. /\ Len(Shadows') = k + 1 /\ Shadows'[k + 1] = prefix'
            /\ \A j \in 1..k : Shadows'[j] = scopes'[j]
        BY <2>3, <4>1, ShadowsAreNext
      <4>4. \A j \in 1..(k + 1) : j \in 1..k \/ j = k + 1 BY <1>1
      <4>5. \A j \in (k + 1)..(k + 1) : j = k + 1 BY <1>1
      <4>6. k \in 1..(k + 1) /\ k + 1 \in Nat BY <1>1
      <4> HIDE DEF k
      <4> QED BY <1>1, <2>3, <2>4, <3>2, <4>1, <4>2, <4>3, <4>4, <4>5, <4>6 DEF k
    <3> QED BY <3>1, <3>2
  <2>6. \A j \in k..Len(Shadows) : n \notin DOMAIN Shadows[j].saved
    <3>1. \A j \in k..Len(Shadows) : j = k \/ j \in (k + 1)..Len(Shadows) BY <1>1, <2>5
    <3>2. n \notin DOMAIN Shadows[k].saved BY <1>12, <2>5 DEF top
    <3> QED BY <2>5, <3>1, <3>2
  <2>7. \A j \in 1..Len(Shadows) : Shadows'[j].id = Shadows[j].id BY <2>1, <2>5
  <2>8. /\ DOMAIN Shadows'[k].saved = DOMAIN Shadows[k].saved \cup {n}
        /\ Shadows'[k].saved[n] = b[n]
        /\ \A m \in DOMAIN Shadows[k].saved : Shadows'[k].saved[m] = Shadows[k].saved[m]
        /\ b'[n].born = Shadows[k].id
    BY <1>10, <2>1, <2>2, <2>5
  <2> HIDE DEF k
  <2> QED BY <1>9, <1>10, <2>5, <2>6, <2>7, <2>8, ShadowOwned
<1> QED BY <1>11, <1>12

\* A function call whose redirections succeed, and its return.
LEMMA CallOwned ==
  ASSUME GoodInv, GoodInv', Owned, NEW S \in SUBSET Names, Call(S) PROVE Owned'
<1> DEFINE k == Len(scopes)
           frame == [id |-> entered', saved |-> [n \in S |-> b[n]]]
<1>1. entered' \in Ids BY EnteredType DEF Call
<1>2. prefix = None /\ prefix' = None /\ overlay' = overlay BY DEF Call, Idle
<1>3. k \in Nat /\ Shadows = scopes /\ Shadows' = scopes'
  BY <1>2, ShadowsAre, ShadowsAreNext
<1>4. frame.id = entered' /\ DOMAIN frame.saved = S /\ \A n \in S : frame.saved[n] = b[n]
  OBVIOUS
<1>5. scopes' = Append(scopes, frame) BY DEF Call
<1> HIDE DEF frame
<1>6. Len(scopes') = k + 1 /\ scopes'[k + 1] = frame /\ \A i \in 1..k : scopes'[i] = scopes[i]
  BY <1>5 DEF GoodInv
<1>7. PICK f \in [S -> UNION {FunctionPrefix(n, entered') : n \in S}] :
          /\ \A n \in S : f[n] \in FunctionPrefix(n, entered')
          /\ b' = [n \in Names |-> IF n \in S THEN f[n] ELSE b[n]]
  BY DEF Call
<1>8. \A n \in Names : IF n \in S THEN b'[n].born = entered' ELSE b'[n] = b[n]
  BY <1>1, <1>7, PrefixBorn
<1> QED BY <1>2, <1>3, <1>4, <1>6, <1>8, PushOwned

\* A frame that is dropped from the end.
LEMMA ReturnOwned ==
  ASSUME GoodInv, GoodInv', Owned, FunctionReturn PROVE Owned'
<1> DEFINE k == Len(scopes) - 1
<1>1. Len(scopes) \in Nat /\ Len(scopes) > 0 BY DEF FunctionReturn, GoodInv
<1>2. prefix = None /\ prefix' = None /\ overlay' = overlay BY DEF FunctionReturn, Idle
<1>3. Shadows = scopes /\ Shadows' = scopes' BY <1>2, ShadowsAre, ShadowsAreNext
<1>4. k \in Nat /\ k + 1 = Len(scopes) BY <1>1
<1>5. Len(scopes') = k /\ \A i \in 1..k : scopes'[i] = scopes[i]
  <2>1. scopes' = SubSeq(scopes, 1, k) BY DEF FunctionReturn, LeaveScope
  <2>2. \A i \in 1..k : scopes[i] \in GoodScopes
    <3>1. \A i \in 1..k : i \in DOMAIN scopes BY <1>1, <1>4 DEF GoodInv
    <3> QED BY <3>1, SeqElements DEF GoodInv
  <2>3. /\ Len(SubSeq(scopes, 1, k)) = IF 1 <= k THEN k - 1 + 1 ELSE 0
        /\ \A i \in 1..(k - 1 + 1) : SubSeq(scopes, 1, k)[i] = scopes[1 + i - 1]
    BY <1>4, <2>2, SubSeqProperties
  <2>4. \A i \in 1..k : i \in 1..(k - 1 + 1) /\ 1 + i - 1 = i BY <1>4
  <2>5. (IF 1 <= k THEN k - 1 + 1 ELSE 0) = k BY <1>4
  <2> QED BY <2>1, <2>3, <2>4, <2>5
<1>6. \A n \in Names : b'[n] = IF n \in DOMAIN scopes[k + 1].saved
                               THEN scopes[k + 1].saved[n] ELSE b[n]
  BY <1>4 DEF FunctionReturn, Restore
<1> HIDE DEF k
<1> QED BY <1>2, <1>3, <1>4, <1>5, <1>6, PopOwned

\* A regular builtin with prefix assignments, and its end.
LEMMA BuiltinOwned ==
  ASSUME GoodInv, GoodInv', Owned, NEW S \in SUBSET Names, BuiltinStart(S) \/ BuiltinEnd
  PROVE  Owned'
<1> DEFINE k == Len(scopes)
<1>1. k \in Nat BY ShadowsAre
<1>2. CASE BuiltinStart(S)
  <2>1. entered' \in Ids BY <1>2, EnteredType DEF BuiltinStart
  <2>2. prefix = None /\ overlay' = overlay /\ scopes' = scopes
    BY <1>2 DEF BuiltinStart, Idle
  <2>3. /\ prefix'.id = entered' /\ DOMAIN prefix'.saved = S
        /\ \A n \in S : prefix'.saved[n] = b[n]
    BY <1>2 DEF BuiltinStart
  <2>4. prefix' # None
    <3>1. [n \in S |-> b[n]] \in [S -> Bindings] BY DEF GoodInv, Good
    <3>2. [n \in S |-> b[n]] \in Saved BY <3>1 DEF Saved
    <3>3. prefix' \in SavedPrefixes BY <1>2, <2>1, <3>2 DEF BuiltinStart, SavedPrefixes
    <3> QED BY <3>3, NoneAssumption
  <2>5. /\ Shadows = scopes /\ Len(Shadows') = k + 1 /\ Shadows'[k + 1] = prefix'
        /\ \A i \in 1..k : Shadows'[i] = scopes[i]
    BY <2>2, <2>4, ShadowsAre, ShadowsAreNext
  <2>6. PICK f \in [S -> UNION {BuiltinPrefix(n, entered') : n \in S}] :
          /\ \A n \in S : f[n] \in BuiltinPrefix(n, entered')
          /\ b' = [n \in Names |-> IF n \in S THEN f[n] ELSE b[n]]
    BY <1>2 DEF BuiltinStart
  <2>7. \A n \in Names : IF n \in S THEN b'[n].born = entered' ELSE b'[n] = b[n]
    BY <2>1, <2>6, PrefixBorn
  <2> QED BY <1>1, <2>2, <2>3, <2>5, <2>7, PushOwned
<1>3. CASE BuiltinEnd
  <2>1. prefix # None /\ prefix' = None /\ overlay' = overlay /\ scopes' = scopes
    BY <1>3 DEF BuiltinEnd, Idle
  <2>2. /\ Len(Shadows) = k + 1 /\ Shadows[k + 1] = prefix /\ Shadows' = scopes
        /\ \A i \in 1..k : Shadows[i] = scopes[i]
    BY <2>1, ShadowsAre, ShadowsAreNext
  <2>3. \A n \in Names : b'[n] = IF n \in DOMAIN prefix.saved THEN prefix.saved[n] ELSE b[n]
    BY <1>3 DEF BuiltinEnd, Restore
  <2> QED BY <1>1, <2>1, <2>2, <2>3, PopOwned
<1> QED BY <1>2, <1>3

\* A change of directory in the scope where the environment was applied.
LEMMA DirectoryOwned ==
  ASSUME GoodInv, GoodInv', Owned, NEW S \in SUBSET Names, NEW D \in SUBSET Names,
         ChangeDirectory(S, D), ~crossed'
  PROVE  Owned'
<1>1. PICK f \in [S -> Vals], d \in [D -> Vals] :
        LET moved == [n \in Names |-> IF n \in D
                        THEN Written(b[n], TryExportVar(b[n], d[n]), OwnerId(n)) ELSE b[n]]
            base == Deactivated(moved)
        IN /\ b' = [n \in Names |-> IF n \in S
                      THEN Written(base[n], TryExportVar(base[n], f[n]), Project) ELSE base[n]]
           /\ overlay' = IF S = {} THEN None
                         ELSE [saved |-> [n \in S |-> base[n]],
                               owner |-> [n \in S |-> OwnerId(n)]]
  BY DEF ChangeDirectory
<1> DEFINE moved == [n \in Names |-> IF n \in D
                      THEN Written(b[n], TryExportVar(b[n], d[n]), OwnerId(n)) ELSE b[n]]
           base == Deactivated(moved)
<1>2. \A n \in Names : OwnerId(n) \in Ids BY OwnerIdType
<1>3. moved \in [Names -> Good] BY <1>2, TryExportVarGood, WrittenGood DEF GoodInv
<1>4. base \in [Names -> Good]
  <2> HIDE DEF moved
  <2> QED BY <1>3, DeactivatedGood
<1>5. ~Crosses /\ scopes' = scopes /\ Ran BY DEF ChangeDirectory
<1>6. SameFrames BY <1>5, FramesKept
<1>7. \A n \in Names : Belongs(overlay, moved[n], n, OwnerId(n))
  <2> TAKE n \in Names
  <2>1. Belongs(overlay, b[n], n, OwnerId(n)) BY DEF Owned
  <2>2. CASE n \notin D BY <2>1, <2>2
  <2>3. CASE n \in D
    <3>1. b[n] \in Good /\ TryExportVar(b[n], d[n]) \in Good
      BY <2>3, TryExportVarGood DEF GoodInv
    <3>2. moved[n].born = b[n].born \/ moved[n].born = OwnerId(n)
      BY <1>2, <2>3, <3>1, WrittenBorn
    <3> HIDE DEF moved
    <3> QED BY <2>1, <3>2 DEF Belongs
  <2> QED BY <2>2, <2>3
<1>8. \A n \in Names : base[n].born = OwnerId(n)
  <2> TAKE n \in Names
  <2> HIDE DEF moved
  <2>1. CASE overlay # None /\ n \in DOMAIN overlay.saved
    <3>1. base[n] = overlay.saved[n] BY <2>1 DEF Deactivated
    <3>2. overlay.owner[n] = OwnerId(n) BY <1>5, <2>1 DEF Crosses
    <3>3. overlay.saved[n].born = overlay.owner[n] BY <2>1 DEF Owned
    <3> QED BY <3>1, <3>2, <3>3
  <2>2. CASE ~(overlay # None /\ n \in DOMAIN overlay.saved)
    <3>1. base[n] = moved[n] BY <2>2 DEF Deactivated
    <3> QED BY <1>7, <2>2, <3>1 DEF Belongs
  <2> QED BY <2>1, <2>2
<1>9. /\ b' = [n \in Names |-> IF n \in S
                 THEN Written(base[n], TryExportVar(base[n], f[n]), Project) ELSE base[n]]
      /\ overlay' = IF S = {} THEN None
                    ELSE [saved |-> [n \in S |-> base[n]], owner |-> [n \in S |-> OwnerId(n)]]
  BY <1>1
<1> HIDE DEF base
<1>10. S # {} => /\ overlay' # None /\ DOMAIN overlay'.saved = S
                 /\ \A n \in S : /\ overlay'.saved[n] = base[n]
                                 /\ overlay'.owner[n] = OwnerId(n)
  <2> SUFFICES ASSUME S # {} PROVE /\ overlay' # None /\ DOMAIN overlay'.saved = S
                                   /\ \A n \in S : /\ overlay'.saved[n] = base[n]
                                                   /\ overlay'.owner[n] = OwnerId(n)
    OBVIOUS
  <2>1. overlay' = [saved |-> [n \in S |-> base[n]], owner |-> [n \in S |-> OwnerId(n)]]
    BY <1>9
  <2>2. [n \in S |-> base[n]] \in [S -> Bindings] BY <1>4 DEF Good
  <2>3. [n \in S |-> base[n]] \in Saved BY <2>2 DEF Saved
  <2>4. [n \in S |-> OwnerId(n)] \in [S -> Ids] BY <1>2
  <2>5. [n \in S |-> OwnerId(n)] \in UNION {[U -> Ids] : U \in SUBSET Names} BY <2>4
  <2>6. overlay' \in Overlays BY <2>1, <2>3, <2>5 DEF Overlays
  <2>7. overlay'.saved = [n \in S |-> base[n]] /\ overlay'.owner = [n \in S |-> OwnerId(n)]
    BY <2>1
  <2> QED BY <2>6, <2>7, NoneAssumption
<1>11. ASSUME NEW n \in Names PROVE Belongs(overlay', b'[n], n, OwnerId(n)')
  <2>1. OwnerId(n)' = OwnerId(n) BY <1>6, OwnerKept
  <2>2. CASE n \notin S BY <1>8, <1>9, <2>1, <2>2 DEF Belongs
  <2>3. CASE n \in S
    <3>1. base[n] \in Good /\ TryExportVar(base[n], f[n]) \in Good
      BY <1>4, <2>3, TryExportVarGood
    <3>2. Project \in Ids BY VariablesAssumption DEF Project, Ids
    <3>3. b'[n].born = base[n].born \/ b'[n].born = Project
      BY <1>9, <2>3, <3>1, <3>2, WrittenBorn
    <3> QED BY <1>8, <1>10, <2>1, <2>3, <3>3 DEF Belongs
  <2> QED BY <2>2, <2>3
<1>12. Len(Shadows) \in Nat /\ Len(Shadows') = Len(Shadows) BY <1>6, ShadowsType DEF SameFrames
<1>13. ASSUME NEW k \in 1..Len(Shadows'), NEW n \in DOMAIN Shadows'[k].saved
       PROVE  \E id : /\ OwnerIs(Shadows', n, k - 1, id)
                      /\ Belongs(overlay', Shadows'[k].saved[n], n, id)
  <2>1. /\ k \in 1..Len(Shadows) /\ n \in DOMAIN Shadows[k].saved
        /\ Shadows'[k].saved[n] = Shadows[k].saved[n]
    BY <1>6, <1>12 DEF SameFrames
  <2>2. PICK id : OwnerIs(Shadows, n, k - 1, id) /\ Belongs(overlay, Shadows[k].saved[n], n, id)
    BY <2>1 DEF Owned
  <2>3. ~(/\ Shadows[k].saved[n].born = Project
          /\ overlay # None /\ n \in DOMAIN overlay.saved)
    <3>1. k \in DOMAIN Shadows BY <2>1, ShadowsType
    <3> QED BY <1>5, <2>1, <3>1 DEF Crosses
  <2>4. Shadows'[k].saved[n].born = id BY <2>1, <2>2, <2>3 DEF Belongs
  <2>5. k - 1 \in Nat /\ \A i \in 1..(k - 1) : i \in 1..Len(Shadows) BY <1>12
  <2>6. OwnerIs(Shadows', n, k - 1, id) BY <1>6, <2>2, <2>5, OwnerSame DEF SameFrames
  <2> QED BY <2>4, <2>6 DEF Belongs
<1>14. overlay' # None =>
         \A n \in DOMAIN overlay'.saved : overlay'.saved[n].born = overlay'.owner[n]
  BY <1>8, <1>9, <1>10
<1> QED BY <1>11, <1>13, <1>14 DEF Owned
\* Every step keeps the invariant.
LEMMA NextOwned == GoodInv /\ GoodInv' /\ EscapeInv /\ [Next]_vars => EscapeInv'
<1> SUFFICES ASSUME GoodInv, GoodInv', EscapeInv, [Next]_vars, ~broken', ~crossed'
             PROVE  Owned'
  BY DEF EscapeInv
<1>1. ~broken /\ ~crossed
  <2>1. CASE UNCHANGED vars BY <2>1 DEF vars
  <2>2. ASSUME NEW n \in Names, NEW x, Bind(n, x) PROVE ~broken /\ ~crossed
    BY <2>2 DEF Bind, history
  <2>3. ASSUME NEW n \in Names, Assign(n) \/ SpecialPrefix(n) \/ SetVar(n) \/ Export(n)
                 \/ Readonly(n) \/ UnsetName(n) \/ Declare(n)
        PROVE  ~broken /\ ~crossed
    BY <2>2, <2>3, Zenon DEF Assign, SpecialPrefix, SetVar, Export, Readonly, UnsetName, Declare
  <2>4. ASSUME NEW n \in Names, Local(n) PROVE ~broken /\ ~crossed
    BY <2>4, Zenon DEF Local
  <2>5. ASSUME NEW S \in SUBSET Names, Call(S) PROVE ~broken /\ ~crossed
    <3>1. crossed' = crossed /\ (broken' = broken \/ broken' = TRUE) BY <2>5 DEF Call
    <3> QED BY <3>1
  <2>6. CASE FunctionReturn \/ BuiltinEnd
    <3>1. UNCHANGED history BY <2>6 DEF FunctionReturn, BuiltinEnd
    <3> QED BY <3>1 DEF history
  <2>7. ASSUME NEW S \in SUBSET Names, BuiltinStart(S) PROVE ~broken /\ ~crossed
    BY <2>7, Zenon DEF BuiltinStart
  <2>8. ASSUME NEW S \in SUBSET Names, NEW D \in SUBSET Names, ChangeDirectory(S, D)
        PROVE  ~broken /\ ~crossed
    BY <2>8, Zenon DEF ChangeDirectory
  <2> QED BY <2>1, <2>3, <2>4, <2>5, <2>6, <2>7, <2>8, Zenon DEF Next
<1>2. Owned BY <1>1 DEF EscapeInv
<1>3. CASE UNCHANGED vars
  <2>1. scopes' = scopes /\ prefix' = prefix /\ overlay' = overlay /\ b' = b BY <1>3 DEF vars
  <2>2. SameFrames BY <2>1, FramesKept
  <2> QED BY <1>2, <2>1, <2>2, WriteOwned
<1>4. ASSUME NEW n \in Names, Assign(n) \/ SpecialPrefix(n) \/ SetVar(n) \/ Export(n)
               \/ Readonly(n) \/ UnsetName(n) \/ Declare(n)
      PROVE  Owned'
  BY <1>2, <1>4, OperationOwned
<1>5. ASSUME NEW n \in Names, Local(n) PROVE Owned'
  BY <1>2, <1>5, LocalOwned
<1>6. ASSUME NEW S \in SUBSET Names, Call(S) PROVE Owned'
  BY <1>2, <1>6, CallOwned
<1>7. CASE FunctionReturn
  BY <1>2, <1>7, ReturnOwned
<1>8. ASSUME NEW S \in SUBSET Names, BuiltinStart(S) \/ BuiltinEnd PROVE Owned'
  BY <1>2, <1>8, BuiltinOwned
<1>9. ASSUME NEW S \in SUBSET Names, NEW D \in SUBSET Names, ChangeDirectory(S, D)
      PROVE  Owned'
  BY <1>2, <1>9, DirectoryOwned
<1>10. {} \in SUBSET Names OBVIOUS
<1> QED BY <1>3, <1>4, <1>5, <1>6, <1>7, <1>8, <1>9, <1>10 DEF Next

\* A set of positions has a first one.
LEMMA FirstExists ==
  ASSUME NEW k \in Nat, NEW T \in SUBSET (1..k), T # {}
  PROVE  \E i \in T : \A j \in T : i <= j
<1> DEFINE U == {k + 1 - i : i \in T}
<1>1. U \in SUBSET (1..k) /\ U # {}
  <2>1. \A i \in T : k + 1 - i \in 1..k OBVIOUS
  <2>2. PICK t \in T : TRUE OBVIOUS
  <2>3. k + 1 - t \in U BY <2>2
  <2> QED BY <2>1, <2>3
<1>2. PICK x \in U : \A y \in U : y <= x BY <1>1, LastExists
<1>3. PICK i \in T : x = k + 1 - i BY <1>2
<1>4. \A j \in T : k + 1 - j <= k + 1 - i BY <1>2, <1>3
<1>5. \A j \in T : i <= j BY <1>4
<1> QED BY <1>5

\* Frame by frame, nothing has escaped: the binding of a frame is the current one,
\* or the snapshot of the next frame in.
LEMMA OwnedFrames == ASSUME GoodInv, EscapeInv PROVE NoEscape
<1> SUFFICES ASSUME ~broken, ~crossed, NEW i \in DOMAIN Frames, NEW n \in DOMAIN Frames[i]
             PROVE  \/ Frames[i][n].born = IF i = 1 THEN 0 ELSE FrameIds[i - 1]
                    \/ Frames[i][n].born = Project /\ overlay # None /\ n \in DOMAIN overlay.saved
  BY DEF NoEscape
<1> DEFINE l == Len(Shadows)
           id == IF i = 1 THEN 0 ELSE FrameIds[i - 1]
           inner == {j \in DOMAIN Shadows : j > i - 1 /\ n \in DOMAIN Shadows[j].saved}
<1>0. Owned BY DEF EscapeInv
<1>1. l \in Nat /\ DOMAIN Shadows = 1..l BY ShadowsType
<1>2. i \in 1..(l + 1) BY DEF Frames
<1>3. /\ DOMAIN Frames[i] = IF i = 1 THEN Names ELSE DOMAIN Shadows[i - 1].saved
      /\ Frames[i][n] = FrameBinding(i - 1, n)
  BY <1>2 DEF Frames
<1>4. n \in Names
  <2>1. CASE i = 1 BY <1>3, <2>1
  <2>2. CASE i # 1
    <3>1. i - 1 \in 1..l BY <1>1, <1>2, <2>2
    <3>2. Shadows[i - 1].saved \in GoodSaved
      <4>1. CASE prefix = None \/ i - 1 \in 1..Len(scopes)
        <5>1. i - 1 \in DOMAIN scopes /\ Shadows[i - 1] = scopes[i - 1]
          BY <3>1, <4>1, ShadowsAre DEF GoodInv
        <5>2. scopes[i - 1] \in GoodScopes BY <5>1, SeqElements DEF GoodInv
        <5> QED BY <5>1, <5>2 DEF GoodScopes
      <4>2. CASE ~(prefix = None \/ i - 1 \in 1..Len(scopes))
        <5>1. Shadows[i - 1] = prefix BY <3>1, <4>2, ShadowsAre
        <5> QED BY <4>2, <5>1 DEF GoodInv
      <4> QED BY <4>1, <4>2
    <3> QED BY <1>3, <2>2, <3>2, SavedNames
  <2> QED BY <2>1, <2>2
<1>5. OwnerIs(Shadows, n, i - 1, id)
  <2>1. CASE i = 1 BY <2>1 DEF OwnerIs
  <2>2. CASE i # 1
    <3> DEFINE k == i - 2
    <3>1. k \in Nat /\ k + 1 = i - 1 /\ k + 1 \in 1..l BY <1>1, <1>2, <2>2
    <3>2. n \in DOMAIN Shadows[k + 1].saved BY <1>3, <2>2, <3>1
    <3>3. id = Shadows[k + 1].id BY <1>1, <2>2, <3>1 DEF FrameIds
    <3> HIDE DEF k, id
    <3>4. OwnerIs(Shadows, n, k + 1, Shadows[k + 1].id) BY <3>1, <3>2, OwnerNext
    <3> QED BY <3>1, <3>3, <3>4
  <2> QED BY <2>1, <2>2
<1> HIDE DEF id
\* No frame between i - 1 and k shadows n: the owner is the same.
<1>6. ASSUME NEW k \in Nat, i - 1 <= k, k <= l,
             \A j \in 1..k : j > i - 1 => n \notin DOMAIN Shadows[j].saved
      PROVE  OwnerIs(Shadows, n, k, id)
  <2>1. CASE id = 0 /\ \A j \in 1..(i - 1) : n \notin DOMAIN Shadows[j].saved
    <3>1. \A j \in 1..k : j \in 1..(i - 1) \/ j > i - 1 BY <1>2
    <3> QED BY <1>6, <2>1, <3>1 DEF OwnerIs
  <2>2. CASE \E j \in 1..(i - 1) : /\ n \in DOMAIN Shadows[j].saved /\ id = Shadows[j].id
                           /\ \A m \in (j + 1)..(i - 1) : n \notin DOMAIN Shadows[m].saved
    <3>1. PICK j \in 1..(i - 1) : /\ n \in DOMAIN Shadows[j].saved /\ id = Shadows[j].id
                           /\ \A m \in (j + 1)..(i - 1) : n \notin DOMAIN Shadows[m].saved
      BY <2>2
    <3>2. j \in 1..k /\ \A m \in (j + 1)..k : m \in 1..k /\ (m \in (j + 1)..(i - 1) \/ m > i - 1)
      BY <1>2, <1>6
    <3>3. \A m \in (j + 1)..k : n \notin DOMAIN Shadows[m].saved BY <1>6, <3>1, <3>2
    <3> QED BY <3>1, <3>2, <3>3 DEF OwnerIs
  <2> QED BY <1>5, <2>1, <2>2 DEF OwnerIs
<1>7. CASE inner = {}
  <2>1. Frames[i][n] = b[n] BY <1>3, <1>7 DEF FrameBinding
  <2>2. \A j \in 1..l : j > i - 1 => n \notin DOMAIN Shadows[j].saved BY <1>1, <1>7
  <2>3. OwnerIs(Shadows, n, l, id) BY <1>1, <1>2, <1>6, <2>2
  <2>4. OwnerIs(Shadows, n, l, OwnerId(n)) BY <1>4, OwnerIdIs
  <2>5. id = OwnerId(n) BY <1>1, <2>3, <2>4, OwnerUnique
  <2>6. Belongs(overlay, b[n], n, OwnerId(n)) BY <1>0, <1>4 DEF Owned
  <2> QED BY <2>1, <2>5, <2>6 DEF Belongs, id
<1>8. CASE inner # {}
  <2>1. inner \in SUBSET (1..l) BY <1>1
  <2>2. \E j \in inner : \A k \in inner : j <= k BY <1>1, <1>8, <2>1, FirstExists
  <2> DEFINE m == CHOOSE j \in inner : \A k \in inner : j <= k
  <2>3. m \in inner /\ \A k \in inner : m <= k BY <2>2
  <2>4. Frames[i][n] = Shadows[m].saved[n] BY <1>3, <1>8 DEF FrameBinding
  <2> HIDE DEF m
  <2>5. m \in 1..l /\ m > i - 1 /\ n \in DOMAIN Shadows[m].saved BY <1>1, <2>3
  <2>6. PICK o : OwnerIs(Shadows, n, m - 1, o) /\ Belongs(overlay, Shadows[m].saved[n], n, o)
    BY <1>0, <2>5 DEF Owned
  <2>7. m - 1 \in Nat /\ i - 1 <= m - 1 /\ m - 1 <= l /\ \A j \in 1..(m - 1) : j \in 1..l /\ j < m
    BY <1>1, <1>2, <2>5
  <2>8. \A j \in 1..(m - 1) : j > i - 1 => n \notin DOMAIN Shadows[j].saved
    <3> SUFFICES ASSUME NEW j \in 1..(m - 1), j > i - 1, n \in DOMAIN Shadows[j].saved
                 PROVE FALSE
      OBVIOUS
    <3>1. j \in inner BY <1>1, <2>7
    <3>2. m <= j BY <2>3, <3>1
    <3> QED BY <2>5, <3>2
  <2>9. OwnerIs(Shadows, n, m - 1, id) BY <1>6, <2>7, <2>8
  <2>10. o = id BY <2>6, <2>7, <2>9, OwnerUnique
  <2> QED BY <2>4, <2>6, <2>10 DEF Belongs, id
<1> QED BY <1>7, <1>8

\* No local, prefix assignment or project value outlives the frame it was written
\* for, for any names, nesting of calls, scopes and builtins, and any sequence of
\* directories (declare_local, leave_function_scope, saved_assignments,
\* deactivate_project_env).
THEOREM NothingEscapes == Spec => []NoEscape
<1>1. Spec => []GoodInv
  BY InitGood, NextGood, PTL DEF Spec
<1>2. Init => EscapeInv
  <2> SUFFICES ASSUME Init PROVE Owned BY DEF EscapeInv
  <2>1. scopes = << >> /\ prefix = None /\ overlay = None BY DEF Init
  <2>2. Shadows = << >> BY <2>1 DEF Shadows
  <2>3. \A n \in Names : OwnerId(n) = 0 BY <2>2 DEF OwnerId
  <2>4. \A n \in Names : b[n].born = 0
    <3>0. Absent.born = 0 BY DEF Absent
    <3>1. ASSUME NEW x \in Inherited PROVE x.born = 0
      <4>1. CASE x = Absent BY <3>0, <4>1
      <4>2. CASE x = [Absent EXCEPT !.exported = TRUE, !.opaque = TRUE] BY <4>2 DEF Absent
      <4>3. ASSUME NEW v \in Vals, x = [Absent EXCEPT !.exported = TRUE, !.var = v, !.env = v]
            PROVE  x.born = 0
        BY <4>3 DEF Absent
      <4>4. ASSUME NEW v \in Vals, x = [Absent EXCEPT !.var = v] PROVE x.born = 0
        BY <4>4 DEF Absent
      <4> QED BY <4>1, <4>2, <4>3, <4>4, Zenon DEF Inherited
    <3> QED BY <3>1 DEF Init
  <2>5. Len(Shadows) = 0 BY <2>2
  <2> QED BY <2>1, <2>3, <2>4, <2>5 DEF Owned, Belongs
<1>3. GoodInv /\ EscapeInv => NoEscape
  BY OwnedFrames
<1> QED
  BY <1>1, <1>2, <1>3, NextOwned, PTL DEF Spec

-----------------------------------------------------------------------------
(* Dynamic scoping: the frames, whatever is current and whatever is saved *)

\* x is what frame i - 1 of the first l frames of sh binds n to.
Value(sh, l, bb, i, n, x) ==
  \/ (\A j \in i..l : n \notin DOMAIN sh[j].saved) /\ x = bb[n]
  \/ \E j \in i..l : /\ n \in DOMAIN sh[j].saved /\ x = sh[j].saved[n]
                     /\ \A k \in i..(j - 1) : n \notin DOMAIN sh[k].saved

\* f are the frames that l shadowing frames sh and the current bindings bb stand for.
FramesAre(sh, l, bb, f) ==
  /\ f \in Seq(Saved) /\ Len(f) = l + 1
  /\ \A i \in 1..(l + 1) : DOMAIN f[i] = IF i = 1 THEN Names ELSE DOMAIN sh[i - 1].saved
  /\ \A i \in 1..(l + 1) : \A n \in DOMAIN f[i] : Value(sh, l, bb, i, n, f[i][n])

\* Every snapshot is of consistent bindings.
LEMMA ShadowsSaved ==
  ASSUME GoodInv, NEW k \in 1..Len(Shadows) PROVE Shadows[k].saved \in GoodSaved
<1>1. CASE prefix = None \/ k \in 1..Len(scopes)
  <2>1. k \in DOMAIN scopes /\ Shadows[k] = scopes[k] BY <1>1, ShadowsAre DEF GoodInv
  <2>2. scopes[k] \in GoodScopes BY <2>1, SeqElements DEF GoodInv
  <2> QED BY <2>1, <2>2 DEF GoodScopes
<1>2. CASE ~(prefix = None \/ k \in 1..Len(scopes))
  <2>1. Shadows[k] = prefix BY <1>2, ShadowsAre
  <2> QED BY <1>2, <2>1 DEF GoodInv
<1> QED BY <1>1, <1>2

\* Frames are what the snapshots and the current bindings stand for.
LEMMA FramesOf == GoodInv => FramesAre(Shadows, Len(Shadows), b, Frames)
<1> SUFFICES ASSUME GoodInv PROVE FramesAre(Shadows, Len(Shadows), b, Frames)
  OBVIOUS
<1> DEFINE l == Len(Shadows)
           Dom(i) == IF i = 1 THEN Names ELSE DOMAIN Shadows[i - 1].saved
<1>1. l \in Nat /\ DOMAIN Shadows = 1..l BY ShadowsType
<1>2. ASSUME NEW i \in 1..(l + 1)
      PROVE  Dom(i) \subseteq Names
  <2>1. CASE i = 1 BY <2>1
  <2>2. CASE i # 1
    <3>1. i - 1 \in 1..l BY <1>1, <2>2
    <3> QED BY <2>2, <3>1, ShadowsSaved, SavedNames
  <2> QED BY <2>1, <2>2
<1>3. ASSUME NEW i \in 1..(l + 1), NEW n \in Dom(i)
      PROVE  Value(Shadows, l, b, i, n, FrameBinding(i - 1, n)) /\ FrameBinding(i - 1, n) \in Bindings
  <2> DEFINE inner == {j \in DOMAIN Shadows : j > i - 1 /\ n \in DOMAIN Shadows[j].saved}
  <2>0. n \in Names BY <1>2
  <2>1. CASE inner = {}
    <3>1. FrameBinding(i - 1, n) = b[n] BY <2>1 DEF FrameBinding
    <3>2. \A j \in i..l : n \notin DOMAIN Shadows[j].saved BY <1>1, <2>1
    <3>3. b[n] \in Bindings BY <2>0 DEF GoodInv, Good
    <3> QED BY <3>1, <3>2, <3>3 DEF Value
  <2>2. CASE inner # {}
    <3>1. \E j \in inner : \A k \in inner : j <= k BY <1>1, <2>2, FirstExists
    <3> DEFINE m == CHOOSE j \in inner : \A k \in inner : j <= k
    <3>2. m \in inner /\ \A k \in inner : m <= k BY <3>1
    <3>3. FrameBinding(i - 1, n) = Shadows[m].saved[n] BY <2>2 DEF FrameBinding
    <3> HIDE DEF m
    <3>4. m \in i..l /\ m \in 1..l /\ n \in DOMAIN Shadows[m].saved BY <1>1, <3>2
    <3>5. \A k \in i..(m - 1) : n \notin DOMAIN Shadows[k].saved
      <4> SUFFICES ASSUME NEW k \in i..(m - 1), n \in DOMAIN Shadows[k].saved PROVE FALSE
        OBVIOUS
      <4>1. k \in inner BY <1>1, <3>4
      <4> QED BY <3>2, <3>4, <4>1
    <3>6. Shadows[m].saved[n] \in Bindings BY <3>4, ShadowsSaved DEF GoodSaved, Good
    <3> QED BY <3>3, <3>4, <3>5, <3>6 DEF Value
  <2> QED BY <2>1, <2>2
<1>4. Frames = [i \in 1..(l + 1) |-> [n \in Dom(i) |-> FrameBinding(i - 1, n)]] BY DEF Frames
<1> HIDE DEF Dom
<1>5. ASSUME NEW i \in 1..(l + 1)
      PROVE  /\ Frames[i] \in Saved /\ DOMAIN Frames[i] = Dom(i)
             /\ \A n \in Dom(i) : Frames[i][n] = FrameBinding(i - 1, n)
  <2>1. Frames[i] = [n \in Dom(i) |-> FrameBinding(i - 1, n)] BY <1>4
  <2>2. Frames[i] \in [Dom(i) -> Bindings] BY <1>3, <2>1
  <2> QED BY <1>2, <2>1, <2>2 DEF Saved
<1>6. Frames \in [1..(l + 1) -> Saved] BY <1>4, <1>5
<1>7. Frames \in Seq(Saved) /\ Len(Frames) = l + 1
  <2>1. l + 1 \in Nat BY <1>1
  <2> HIDE DEF l
  <2>2. Frames \in Seq(Saved) BY <1>6, <2>1, SeqDef
  <2> QED BY <1>6, <2>1, <2>2, LenProperties
<1> QED BY <1>3, <1>5, <1>7 DEF FramesAre, Dom

\* The same in the next state.
LEMMA FramesOfNext == GoodInv' => FramesAre(Shadows', Len(Shadows'), b', Frames')
<1>1. (GoodInv => FramesAre(Shadows, Len(Shadows), b, Frames))'
  BY FramesOf, PTL
<1> QED BY <1>1 DEF FramesAre, Value

\* Two frames with the same bindings are the same.
LEMMA SavedEqual ==
  ASSUME NEW s \in Saved, NEW t \in Saved, DOMAIN s = DOMAIN t, \A n \in DOMAIN s : s[n] = t[n]
  PROVE  s = t
<1>1. PICK S \in SUBSET Names : s \in [S -> Bindings] BY DEF Saved
<1>2. PICK T \in SUBSET Names : t \in [T -> Bindings] BY DEF Saved
<1>3. S = DOMAIN s /\ T = DOMAIN s BY <1>1, <1>2
<1>4. s \in [S -> Bindings] /\ t \in [S -> Bindings] /\ \A n \in S : s[n] = t[n]
  BY <1>1, <1>2, <1>3
<1> QED BY <1>4

\* f is a stack of l + 1 frames.
StackOf(l, f) ==
  /\ Len(f) = l + 1 /\ DOMAIN f = 1..(l + 1) /\ f = [i \in 1..(l + 1) |-> f[i]]
  /\ \A i \in 1..(l + 1) :
       /\ f[i] \in Saved /\ DOMAIN f[i] \subseteq Names
       /\ f[i] = [n \in DOMAIN f[i] |-> f[i][n]]
       /\ \A n \in DOMAIN f[i] : f[i][n] \in Bindings

\* The frames are such a stack.
LEMMA FramesType ==
  ASSUME NEW sh, NEW l \in Nat, NEW bb, NEW f, FramesAre(sh, l, bb, f)
  PROVE  StackOf(l, f)
<1>1. f \in Seq(Saved) /\ Len(f) = l + 1 BY DEF FramesAre
<1>2. DOMAIN f = 1..(l + 1) /\ f = [i \in 1..(l + 1) |-> f[i]] BY <1>1
<1>3. \A i \in 1..(l + 1) : f[i] \in Saved BY <1>1, <1>2, SeqElements
<1>4. ASSUME NEW s \in Saved
      PROVE  /\ DOMAIN s \subseteq Names /\ s = [n \in DOMAIN s |-> s[n]]
             /\ \A n \in DOMAIN s : s[n] \in Bindings
  BY DEF Saved
<1> QED BY <1>1, <1>2, <1>3, <1>4 DEF StackOf

\* The owner of a name is its last frame, o; no frame shadows it there, and the
\* binding it has in it is the current one.
OwnerAt(sh, l, bb, f, n, o) ==
  /\ o \in 1..(l + 1) /\ n \in DOMAIN f[o] /\ f[o][n] = bb[n]
  /\ \A i \in 1..(l + 1) : n \in DOMAIN f[i] => i <= o
  /\ \A j \in o..l : n \notin DOMAIN sh[j].saved
  /\ o # 1 => o - 1 \in 1..l /\ n \in DOMAIN sh[o - 1].saved

\* It is the owner that dynamic scoping names.
LEMMA OwnerFrame ==
  ASSUME NEW sh, NEW l \in Nat, NEW bb, NEW f, FramesAre(sh, l, bb, f), NEW n \in Names
  PROVE  OwnerAt(sh, l, bb, f, n, Scoping!Owner(f, n))
<1> DEFINE T == {i \in 1..(l + 1) : n \in DOMAIN f[i]}
           o == Scoping!Owner(f, n)
<1>0. DOMAIN f = 1..(l + 1) BY FramesType DEF StackOf
<1>1. 1 \in T
  <2>1. 1 \in 1..(l + 1) OBVIOUS
  <2> QED BY <2>1 DEF FramesAre
<1>2. PICK m \in T : \A j \in T : j <= m
  <2>1. l + 1 \in Nat /\ T \in SUBSET (1..(l + 1)) /\ T # {} BY <1>1
  <2> HIDE DEF T
  <2> QED BY <2>1, LastExists
<1>3. /\ m \in DOMAIN f /\ n \in DOMAIN f[m]
      /\ \A j \in DOMAIN f : n \in DOMAIN f[j] => j <= m
  BY <1>0, <1>2
<1>4. /\ o \in DOMAIN f /\ n \in DOMAIN f[o]
      /\ \A j \in DOMAIN f : n \in DOMAIN f[j] => j <= o
  BY <1>3, Zenon DEF Scoping!Owner
<1> HIDE DEF o
<1>5. o \in 1..(l + 1) /\ \A i \in 1..(l + 1) : n \in DOMAIN f[i] => i <= o BY <1>0, <1>4
<1>6. \A j \in o..l : n \notin DOMAIN sh[j].saved
  <2> SUFFICES ASSUME NEW j \in o..l, n \in DOMAIN sh[j].saved PROVE FALSE
    OBVIOUS
  <2>1. j + 1 \in 1..(l + 1) /\ j + 1 # 1 /\ (j + 1) - 1 = j BY <1>5
  <2>2. n \in DOMAIN f[j + 1] BY <2>1 DEF FramesAre
  <2> QED BY <1>5, <2>1, <2>2
<1>7. f[o][n] = bb[n]
  <2>1. Value(sh, l, bb, o, n, f[o][n]) BY <1>4, <1>5 DEF FramesAre
  <2> QED BY <1>6, <2>1 DEF Value
<1>8. o # 1 => o - 1 \in 1..l /\ n \in DOMAIN sh[o - 1].saved
  BY <1>4, <1>5 DEF FramesAre
<1> QED BY <1>4, <1>5, <1>6, <1>7, <1>8 DEF o, OwnerAt

\* The snapshots of n from frame i on are the same.
Agrees(sh, sh2, l, i, n) ==
  \A j \in i..l : /\ n \in DOMAIN sh2[j].saved <=> n \in DOMAIN sh[j].saved
                  /\ n \in DOMAIN sh[j].saved => sh2[j].saved[n] = sh[j].saved[n]

\* What a frame binds depends on the snapshots from it on, and on the current
\* binding only if there are none.
LEMMA ValueSame ==
  ASSUME NEW sh, NEW sh2, NEW l \in Nat, NEW bb, NEW bb2, NEW i \in Nat, NEW n, NEW x, NEW y,
         Value(sh, l, bb, i, n, x), Value(sh2, l, bb2, i, n, y), Agrees(sh, sh2, l, i, n),
         bb2[n] = bb[n] \/ \E j \in i..l : n \in DOMAIN sh[j].saved
  PROVE  x = y
<1>1. CASE \A j \in i..l : n \notin DOMAIN sh[j].saved BY <1>1 DEF Value, Agrees
<1>2. CASE ~\A j \in i..l : n \notin DOMAIN sh[j].saved
  <2>1. PICK j \in i..l : /\ n \in DOMAIN sh[j].saved /\ x = sh[j].saved[n]
                          /\ \A k \in i..(j - 1) : n \notin DOMAIN sh[k].saved
    BY <1>2 DEF Value
  <2>2. PICK m \in i..l : /\ n \in DOMAIN sh2[m].saved /\ y = sh2[m].saved[n]
                          /\ \A k \in i..(m - 1) : n \notin DOMAIN sh2[k].saved
    BY <1>2 DEF Value, Agrees
  <2>3. ~(j < m)
    <3>1. j < m => j \in i..(m - 1) OBVIOUS
    <3> QED BY <2>1, <2>2, <3>1 DEF Agrees
  <2>4. ~(m < j)
    <3>1. m < j => m \in i..(j - 1) OBVIOUS
    <3> QED BY <2>1, <2>2, <3>1 DEF Agrees
  <2>5. j = m BY <2>3, <2>4
  <2> QED BY <2>1, <2>2, <2>5 DEF Agrees
<1> QED BY <1>1, <1>2

\* From f to g, only the visible bindings may change, from bb to bb2.
VisibleOnly(l, bb, bb2, f, g) ==
  /\ \A i \in 1..(l + 1) : DOMAIN g[i] = DOMAIN f[i]
  /\ \A i \in 1..(l + 1) : \A n \in DOMAIN f[i] :
       IF i = Scoping!Owner(f, n) THEN f[i][n] = bb[n] /\ g[i][n] = bb2[n]
       ELSE g[i][n] = f[i][n]

\* So it is while the snapshots stay.
LEMMA OnlyVisible ==
  ASSUME NEW sh, NEW sh2, NEW l \in Nat, NEW bb, NEW bb2, NEW f, NEW g,
         FramesAre(sh, l, bb, f), FramesAre(sh2, l, bb2, g),
         \A j \in 1..l : sh2[j].saved = sh[j].saved
  PROVE  VisibleOnly(l, bb, bb2, f, g)
<1>1. ASSUME NEW i \in 1..(l + 1) PROVE DOMAIN g[i] = DOMAIN f[i]
  <2>1. i # 1 => i - 1 \in 1..l OBVIOUS
  <2> QED BY <2>1 DEF FramesAre
<1>2. ASSUME NEW i \in 1..(l + 1), NEW n \in DOMAIN f[i]
      PROVE  IF i = Scoping!Owner(f, n) THEN f[i][n] = bb[n] /\ g[i][n] = bb2[n]
             ELSE g[i][n] = f[i][n]
  <2> DEFINE o == Scoping!Owner(f, n)
  <2>1. n \in Names BY FramesType DEF StackOf
  <2>0. OwnerAt(sh, l, bb, f, n, o) BY <2>1, OwnerFrame
  <2> HIDE DEF o
  <2>2. /\ o \in 1..(l + 1) /\ f[o][n] = bb[n] /\ i <= o
        /\ \A j \in o..l : n \notin DOMAIN sh[j].saved
        /\ o # 1 => o - 1 \in 1..l /\ n \in DOMAIN sh[o - 1].saved
    BY <2>0 DEF OwnerAt
  <2>3. Value(sh, l, bb, i, n, f[i][n]) /\ Value(sh2, l, bb2, i, n, g[i][n])
    BY <1>1 DEF FramesAre
  <2>4. CASE i = o
    <3>1. \A j \in i..l : j \in 1..l OBVIOUS
    <3>2. \A j \in i..l : n \notin DOMAIN sh2[j].saved BY <2>2, <2>4, <3>1
    <3>3. g[i][n] = bb2[n] BY <2>3, <3>2 DEF Value
    <3> QED BY <2>2, <2>4, <3>3 DEF o
  <2>5. CASE i # o
    <3>1. o - 1 \in i..l /\ n \in DOMAIN sh[o - 1].saved BY <2>2, <2>5
    <3>2. i \in Nat /\ Agrees(sh, sh2, l, i, n) BY DEF Agrees
    <3>3. f[i][n] = g[i][n] BY <2>3, <3>1, <3>2, ValueSame
    <3> QED BY <2>5, <3>3 DEF o
  <2> QED BY <2>4, <2>5
<1> QED BY <1>1, <1>2 DEF VisibleOnly

\* A readonly binding keeps its content and stays readonly.
Keeps(x, y) == x.readonly => y.readonly /\ Scoping!Content(y) = Scoping!Content(x)

\* A new current binding of one name is a write to its visible binding.
LEMMA WriteStep ==
  ASSUME NEW sh, NEW sh2, NEW l \in Nat, NEW bb, NEW bb2, NEW f, NEW g,
         FramesAre(sh, l, bb, f), FramesAre(sh2, l, bb2, g),
         \A j \in 1..l : sh2[j].saved = sh[j].saved,
         NEW n \in Names, Keeps(bb[n], bb2[n]),
         \A m \in Names : m # n => bb2[m] = bb[m]
  PROVE  Scoping!Write(f, g, n)
<1> DEFINE o == Scoping!Owner(f, n)
<1>0. /\ StackOf(l, f) /\ StackOf(l, g) /\ VisibleOnly(l, bb, bb2, f, g)
      /\ OwnerAt(sh, l, bb, f, n, o)
  BY FramesType, OnlyVisible, OwnerFrame
<1>1. o \in 1..(l + 1) /\ n \in DOMAIN f[o] /\ f[o][n] = bb[n] BY <1>0 DEF OwnerAt
<1>2. /\ \A i \in 1..(l + 1) : DOMAIN g[i] = DOMAIN f[i]
      /\ \A i \in 1..(l + 1) : \A m \in DOMAIN f[i] :
           IF i = Scoping!Owner(f, m) THEN f[i][m] = bb[m] /\ g[i][m] = bb2[m]
           ELSE g[i][m] = f[i][m]
  BY <1>0 DEF VisibleOnly
<1>3. Len(f) = l + 1 /\ Len(g) = l + 1 BY <1>0 DEF StackOf
<1>4. n \in DOMAIN g[o] /\ g[o][n] = bb2[n] /\ g[o][n] \in Bindings
  <2>1. n \in DOMAIN g[o] /\ g[o][n] = bb2[n] BY <1>1, <1>2
  <2> QED BY <1>1, <2>1, <1>0 DEF StackOf
<1>5. ASSUME NEW i \in 1..(l + 1), NEW m \in DOMAIN f[i], i # o \/ m # n
      PROVE  g[i][m] = f[i][m]
  <2>1. m \in Names BY <1>0 DEF StackOf
  <2> QED BY <1>2, <1>5, <2>1
<1> HIDE DEF o
<1>6. g = [f EXCEPT ![o][n] = g[o][n]]
  <2> DEFINE h == [f EXCEPT ![o][n] = g[o][n]]
  <2>1. DOMAIN g = 1..(l + 1) /\ DOMAIN f = 1..(l + 1) /\ g = [i \in 1..(l + 1) |-> g[i]]
    BY <1>0 DEF StackOf
  <2>2. h = [i \in 1..(l + 1) |-> IF i = o THEN [f[o] EXCEPT ![n] = g[o][n]] ELSE f[i]]
    BY <2>1
  <2>3. ASSUME NEW i \in 1..(l + 1), i # o PROVE g[i] = f[i]
    <3>1. f[i] \in Saved /\ g[i] \in Saved BY <1>0 DEF StackOf
    <3> QED BY <1>2, <1>5, <2>3, <3>1, SavedEqual
  <2>4. g[o] = [f[o] EXCEPT ![n] = g[o][n]]
    <3>1. /\ f[o] = [m \in DOMAIN f[o] |-> f[o][m]]
          /\ g[o] = [m \in DOMAIN f[o] |-> g[o][m]]
      BY <1>1, <1>2, <1>0 DEF StackOf
    <3>2. \A m \in DOMAIN f[o] : g[o][m] = IF m = n THEN g[o][n] ELSE f[o][m]
      BY <1>1, <1>5
    <3>3. [f[o] EXCEPT ![n] = g[o][n]] = [m \in DOMAIN f[o] |-> IF m = n THEN g[o][n] ELSE f[o][m]]
      BY <3>1
    <3>4. [m \in DOMAIN f[o] |-> g[o][m]] = [m \in DOMAIN f[o] |-> IF m = n THEN g[o][n] ELSE f[o][m]]
      BY <3>2
    <3> QED BY <3>1, <3>3, <3>4
  <2>5. h = [i \in 1..(l + 1) |-> g[i]] BY <2>2, <2>3, <2>4
  <2> QED BY <2>1, <2>5
<1> QED BY <1>1, <1>3, <1>4, <1>6 DEF Scoping!Write, Keeps, o

\* New current bindings of names that are not readonly, or that the project
\* environment sets, are a change of directory.
LEMMA RebindStep ==
  ASSUME NEW sh, NEW sh2, NEW l \in Nat, NEW bb, NEW bb2, NEW f, NEW g,
         FramesAre(sh, l, bb, f), FramesAre(sh2, l, bb2, g),
         \A j \in 1..l : sh2[j].saved = sh[j].saved,
         \A n \in Names : \/ bb2[n] = bb[n] \/ ~bb[n].readonly
                          \/ overlay # None /\ n \in DOMAIN overlay.saved
  PROVE  Scoping!Rebind(f, g)
<1>0. StackOf(l, f) /\ StackOf(l, g) /\ VisibleOnly(l, bb, bb2, f, g)
  BY FramesType, OnlyVisible
<1>1. Len(f) = l + 1 /\ Len(g) = l + 1 /\ DOMAIN f = 1..(l + 1) BY <1>0 DEF StackOf
<1>2. /\ \A i \in 1..(l + 1) : DOMAIN g[i] = DOMAIN f[i]
      /\ \A i \in 1..(l + 1) : \A m \in DOMAIN f[i] :
           IF i = Scoping!Owner(f, m) THEN f[i][m] = bb[m] /\ g[i][m] = bb2[m]
           ELSE g[i][m] = f[i][m]
  BY <1>0 DEF VisibleOnly
<1>3. ASSUME NEW i \in 1..(l + 1), NEW n \in DOMAIN f[i]
      PROVE  /\ g[i][n] \in Bindings
             /\ \/ g[i][n] = f[i][n]
                \/ /\ i = Scoping!Owner(f, n)
                   /\ n \in (IF overlay = None THEN {} ELSE DOMAIN overlay.saved) \/ ~f[i][n].readonly
  <2>1. n \in Names /\ g[i][n] \in Bindings BY <1>0, <1>2 DEF StackOf
  <2>2. CASE i # Scoping!Owner(f, n) BY <1>2, <2>1, <2>2
  <2>3. CASE i = Scoping!Owner(f, n)
    <3>1. f[i][n] = bb[n] /\ g[i][n] = bb2[n] BY <1>2, <2>3
    <3> QED BY <2>1, <2>3, <3>1
  <2> QED BY <2>2, <2>3
<1> QED BY <1>1, <1>2, <1>3 DEF Scoping!Rebind

\* bb2 differs from bb where s has a snapshot of it.
Puts(s, bb, bb2) == \A n \in Names : IF n \in DOMAIN s THEN s[n] = bb[n] ELSE bb2[n] = bb[n]

\* g is f with one more frame.
Pushed(l, f, g) == Len(f) = l + 1 /\ Len(g) = l + 2 /\ SubSeq(g, 1, l + 1) = f

\* One frame more, whose snapshots are the bindings before, leaves the others as
\* they are.
LEMMA PushSame ==
  ASSUME NEW sh, NEW sh2, NEW l \in Nat, NEW bb, NEW bb2, NEW f, NEW g,
         FramesAre(sh, l, bb, f), FramesAre(sh2, l + 1, bb2, g),
         \A j \in 1..l : sh2[j].saved = sh[j].saved,
         Puts(sh2[l + 1].saved, bb, bb2)
  PROVE  Pushed(l, f, g)
<1>p. \A n \in Names : IF n \in DOMAIN sh2[l + 1].saved THEN sh2[l + 1].saved[n] = bb[n]
                       ELSE bb2[n] = bb[n]
  BY DEF Puts
<1>0. l + 1 \in Nat /\ l + 2 = l + 1 + 1 OBVIOUS
<1>s. StackOf(l, f) /\ StackOf(l + 1, g) BY <1>0, FramesType
<1>1. Len(f) = l + 1 /\ Len(g) = l + 2 BY <1>0, <1>s DEF StackOf
<1>2. ASSUME NEW i \in 1..(l + 1) PROVE g[i] = f[i]
  <2>1. i \in 1..(l + 1 + 1) /\ i \in Nat OBVIOUS
  <2>2. DOMAIN g[i] = DOMAIN f[i]
    <3>1. i # 1 => i - 1 \in 1..l OBVIOUS
    <3> QED BY <2>1, <3>1 DEF FramesAre
  <2>3. ASSUME NEW n \in DOMAIN f[i] PROVE f[i][n] = g[i][n]
    <3>1. n \in Names BY <1>s DEF StackOf
    <3>2. Value(sh, l, bb, i, n, f[i][n]) BY DEF FramesAre
    <3>3. Value(sh2, l + 1, bb2, i, n, g[i][n]) BY <2>1, <2>2 DEF FramesAre
    <3> DEFINE x == f[i][n]
               y == g[i][n]
    <3> HIDE DEF x, y
    <3>4. Value(sh2, l, bb, i, n, y)
      <4>1. CASE (\A j \in i..(l + 1) : n \notin DOMAIN sh2[j].saved) /\ y = bb2[n]
        <5>1. l + 1 \in i..(l + 1) /\ \A j \in i..l : j \in i..(l + 1) OBVIOUS
        <5> QED BY <1>p, <3>1, <4>1, <5>1 DEF Value
      <4>2. CASE \E j \in i..(l + 1) :
                   /\ n \in DOMAIN sh2[j].saved /\ y = sh2[j].saved[n]
                   /\ \A k \in i..(j - 1) : n \notin DOMAIN sh2[k].saved
        <5>1. PICK j \in i..(l + 1) :
                   /\ n \in DOMAIN sh2[j].saved /\ y = sh2[j].saved[n]
                   /\ \A k \in i..(j - 1) : n \notin DOMAIN sh2[k].saved
          BY <4>2
        <5>2. CASE j = l + 1
          <6>1. \A k \in i..l : k \in i..(j - 1) BY <5>2
          <6> QED BY <1>p, <3>1, <5>1, <5>2, <6>1 DEF Value
        <5>3. CASE j # l + 1
          <6>1. j \in i..l BY <5>3
          <6> QED BY <5>1, <6>1 DEF Value
        <5> QED BY <5>2, <5>3
      <4> QED BY <3>3, <4>1, <4>2 DEF Value, y
    <3>5. Agrees(sh, sh2, l, i, n) BY DEF Agrees
    <3>6. Value(sh, l, bb, i, n, x) BY <3>2 DEF x
    <3>7. \/ bb[n] = bb[n] \/ \E j \in i..l : n \in DOMAIN sh[j].saved OBVIOUS
    <3>8. x = y BY ONLY <2>1, <3>4, <3>5, <3>6, <3>7, ValueSame, l \in Nat
    <3> QED BY <3>8 DEF x, y
  <2>4. f[i] \in Saved /\ g[i] \in Saved BY <1>s, <2>1 DEF StackOf
  <2> QED BY <2>2, <2>3, <2>4, SavedEqual
<1>3. SubSeq(g, 1, l + 1) = [i \in 1..(l + 1) |-> g[i]]
  <2>1. g \in Seq(Saved) /\ Len(g) = l + 1 + 1 BY DEF FramesAre
  <2> QED BY <2>1
<1>4. f = [i \in 1..(l + 1) |-> f[i]] BY <1>s DEF StackOf
<1>5. [i \in 1..(l + 1) |-> g[i]] = [i \in 1..(l + 1) |-> f[i]] BY <1>2
<1> QED BY <1>1, <1>3, <1>4, <1>5 DEF Pushed

\* A function call, or a builtin with prefix assignments, enters a frame.
LEMMA EnterStep ==
  ASSUME NEW sh, NEW sh2, NEW l \in Nat, NEW bb, NEW bb2, NEW f, NEW g,
         FramesAre(sh, l, bb, f), FramesAre(sh2, l + 1, bb2, g),
         \A j \in 1..l : sh2[j].saved = sh[j].saved,
         Puts(sh2[l + 1].saved, bb, bb2),
         \A n \in Names : n \in DOMAIN sh2[l + 1].saved => ~bb[n].readonly
  PROVE  Scoping!Enter(f, g)
<1>0. Pushed(l, f, g) BY PushSame
<1>1. Len(f) = l + 1 /\ Len(g) = l + 2 /\ SubSeq(g, 1, l + 1) = f BY <1>0 DEF Pushed
<1>2. ASSUME NEW n \in DOMAIN g[l + 2]
      PROVE  n \in Names /\ g[l + 2][n] \in Bindings /\ ~Scoping!Visible(f, n).readonly
  <2>1. l + 2 \in 1..(l + 1 + 1) /\ l + 1 \in Nat /\ l + 2 # 1 /\ (l + 2) - 1 = l + 1 OBVIOUS
  <2>2. n \in Names /\ g[l + 2][n] \in Bindings BY <2>1, FramesType DEF StackOf
  <2>3. n \in DOMAIN sh2[l + 1].saved BY <2>1 DEF FramesAre
  <2>4. f[Scoping!Owner(f, n)][n] = bb[n] BY <2>2, OwnerFrame DEF OwnerAt
  <2> QED BY <2>2, <2>3, <2>4 DEF Scoping!Visible
<1>3. Len(g) = Len(f) + 1 BY <1>1
<1> QED BY <1>1, <1>2, <1>3 DEF Scoping!Enter

\* Its end puts back what it has shadowed.
LEMMA LeaveStep ==
  ASSUME NEW sh, NEW sh2, NEW l \in Nat, NEW bb, NEW bb2, NEW f, NEW g,
         FramesAre(sh, l + 1, bb, f), FramesAre(sh2, l, bb2, g),
         \A j \in 1..l : sh2[j].saved = sh[j].saved,
         \A n \in Names : bb2[n] = IF n \in DOMAIN sh[l + 1].saved THEN sh[l + 1].saved[n] ELSE bb[n]
  PROVE  Scoping!Leave(f, g)
<1>1. Puts(sh[l + 1].saved, bb2, bb) BY DEF Puts
<1>0. Pushed(l, g, f) BY <1>1, PushSame
<1>2. Len(g) = l + 1 /\ Len(f) = l + 2 /\ SubSeq(f, 1, l + 1) = g BY <1>0 DEF Pushed
<1>3. Len(f) > 1 /\ Len(f) - 1 = l + 1 BY <1>2
<1> QED BY <1>2, <1>3 DEF Scoping!Leave

\* The k-th frame, inside the owner's, has saved the binding of n before it changes.
SavedBefore(sh, sh2, l, k, bb, bb2, n) ==
  /\ \A j \in 1..l : j # k => sh2[j].saved = sh[j].saved
  /\ DOMAIN sh2[k].saved = DOMAIN sh[k].saved \cup {n} /\ sh2[k].saved[n] = bb[n]
  /\ \A m \in DOMAIN sh[k].saved : sh2[k].saved[m] = sh[k].saved[m]
  /\ \A j \in k..l : n \notin DOMAIN sh[j].saved
  /\ ~bb[n].readonly /\ \A m \in Names : m # n => bb2[m] = bb[m]

\* local gives a function's frame a binding of its own, inside the owner's.
LEMMA DeclareStep ==
  ASSUME NEW sh, NEW sh2, NEW l \in Nat, NEW bb, NEW bb2, NEW f, NEW g,
         FramesAre(sh, l, bb, f), FramesAre(sh2, l, bb2, g), NEW k \in 1..l, NEW n \in Names,
         SavedBefore(sh, sh2, l, k, bb, bb2, n)
  PROVE  Scoping!Declare(f, g, n)
<1> SUFFICES ASSUME
         \A j \in 1..l : j # k => sh2[j].saved = sh[j].saved,
         DOMAIN sh2[k].saved = DOMAIN sh[k].saved \cup {n}, sh2[k].saved[n] = bb[n],
         \A m \in DOMAIN sh[k].saved : sh2[k].saved[m] = sh[k].saved[m],
         \A j \in k..l : n \notin DOMAIN sh[j].saved,
         ~bb[n].readonly, \A m \in Names : m # n => bb2[m] = bb[m]
    PROVE  Scoping!Declare(f, g, n)
  BY DEF SavedBefore
<1> DEFINE o == Scoping!Owner(f, n)
<1>0. StackOf(l, f) /\ StackOf(l, g) /\ OwnerAt(sh, l, bb, f, n, o)
  BY FramesType, OwnerFrame
<1>1. /\ o \in 1..(l + 1) /\ n \in DOMAIN f[o] /\ f[o][n] = bb[n]
      /\ \A i \in 1..(l + 1) : n \in DOMAIN f[i] => i <= o
      /\ \A j \in o..l : n \notin DOMAIN sh[j].saved
      /\ o # 1 => o - 1 \in 1..l /\ n \in DOMAIN sh[o - 1].saved
  BY <1>0 DEF OwnerAt
<1>2. ~Scoping!Visible(f, n).readonly BY <1>1 DEF Scoping!Visible
<1> HIDE DEF o
<1>3. o <= k
  <2>1. o > k => o # 1 /\ o - 1 \in k..l BY <1>1
  <2> QED BY <1>1, <2>1
<1>4. k + 1 \in 1..(l + 1) /\ k + 1 \in (o + 1)..(l + 1) /\ k + 1 # 1 /\ (k + 1) - 1 = k
  BY <1>1, <1>3
<1>5. DOMAIN f[k + 1] = DOMAIN sh[k].saved /\ DOMAIN g[k + 1] = DOMAIN f[k + 1] \cup {n}
  <2>1. DOMAIN f[k + 1] = DOMAIN sh[k].saved /\ DOMAIN g[k + 1] = DOMAIN sh2[k].saved
    BY <1>4 DEF FramesAre
  <2> QED BY <2>1
<1>6. ASSUME NEW i \in 1..(l + 1), i # k + 1 PROVE DOMAIN g[i] = DOMAIN f[i]
  <2>1. i # 1 => i - 1 \in 1..l /\ i - 1 # k BY <1>6
  <2> QED BY <2>1 DEF FramesAre
<1>7. ASSUME NEW i \in 1..(l + 1), NEW m \in DOMAIN f[i] PROVE f[i][m] = g[i][m]
  <2>0. m \in Names /\ m \in DOMAIN g[i] BY <1>0, <1>5, <1>6 DEF StackOf
  <2> DEFINE x == f[i][m]
             y == g[i][m]
  <2>1. Value(sh, l, bb, i, m, x) /\ Value(sh2, l, bb2, i, m, y) BY <2>0 DEF FramesAre
  <2> HIDE DEF x, y
  <2>2. CASE m # n
    <3>1. Agrees(sh, sh2, l, i, m)
      <4> SUFFICES ASSUME NEW j \in i..l
                   PROVE  /\ m \in DOMAIN sh2[j].saved <=> m \in DOMAIN sh[j].saved
                          /\ m \in DOMAIN sh[j].saved => sh2[j].saved[m] = sh[j].saved[m]
        BY DEF Agrees
      <4>1. CASE j = k BY <2>2, <4>1
      <4>2. CASE j # k
        <5>1. j \in 1..l OBVIOUS
        <5> QED BY <4>2, <5>1
      <4> QED BY <4>1, <4>2
    <3>2. bb2[m] = bb[m] BY <2>0, <2>2
    <3>4. i \in Nat /\ (bb2[m] = bb[m] \/ \E j \in i..l : m \in DOMAIN sh[j].saved) BY <3>2
    <3>3. x = y BY ONLY <2>1, <3>1, <3>4, ValueSame, l \in Nat
    <3> QED BY <3>3 DEF x, y
  <2>3. CASE m = n /\ i = o
    <3>1. x = bb[n] BY <1>1, <2>3 DEF x
    <3>2. k \in i..l /\ n \in DOMAIN sh2[k].saved BY <1>3, <2>3
    <3>3. PICK j \in i..l : /\ n \in DOMAIN sh2[j].saved /\ y = sh2[j].saved[n]
                            /\ \A q \in i..(j - 1) : n \notin DOMAIN sh2[q].saved
      BY <2>1, <2>3, <3>2 DEF Value
    <3>4. j = k
      <4>1. ~(k < j)
        <5>1. k < j => k \in i..(j - 1) BY <3>2
        <5> QED BY <3>2, <3>3, <5>1
      <4>2. j # k => FALSE
        <5>1. j \in 1..l /\ j \in o..l BY <1>1, <2>3
        <5> QED BY <1>1, <3>3, <5>1
      <4> QED BY <4>2
    <3>5. x = y BY <3>1, <3>3, <3>4
    <3> QED BY <3>5 DEF x, y
  <2>4. CASE m = n /\ i # o
    <3>0. i <= o BY <1>1, <2>4
    <3>1. o - 1 \in i..l /\ o - 1 \in 1..l /\ o - 1 < k /\ n \in DOMAIN sh[o - 1].saved
      BY <1>1, <1>3, <2>4, <3>0
    <3>2. n \in DOMAIN sh2[o - 1].saved BY <3>1
    <3>3. PICK j \in i..l : /\ n \in DOMAIN sh[j].saved /\ x = sh[j].saved[n]
                            /\ \A q \in i..(j - 1) : n \notin DOMAIN sh[q].saved
      BY <2>1, <2>4, <3>1 DEF Value
    <3>4. PICK h \in i..l : /\ n \in DOMAIN sh2[h].saved /\ y = sh2[h].saved[n]
                            /\ \A q \in i..(h - 1) : n \notin DOMAIN sh2[q].saved
      BY <2>1, <2>4, <3>1, <3>2 DEF Value
    <3>5. j <= o - 1
      <4>1. o - 1 < j => o - 1 \in i..(j - 1) BY <3>1
      <4> QED BY <3>1, <3>3, <4>1
    <3>6. h <= o - 1
      <4>1. o - 1 < h => o - 1 \in i..(h - 1) BY <3>1
      <4> QED BY <3>1, <3>2, <3>4, <4>1
    <3>7. \A q \in i..(o - 1) : sh2[q].saved = sh[q].saved
      <4>1. \A q \in i..(o - 1) : q \in 1..l /\ q # k BY <1>1, <3>1
      <4> QED BY <4>1
    <3>8. j \in i..(o - 1) /\ h \in i..(o - 1) BY <1>1, <3>5, <3>6
    <3>9. ~(j < h)
      <4>1. j < h => j \in i..(h - 1) OBVIOUS
      <4> QED BY <3>3, <3>4, <3>7, <3>8, <4>1
    <3>10. ~(h < j)
      <4>1. h < j => h \in i..(j - 1) OBVIOUS
      <4> QED BY <3>3, <3>4, <3>7, <3>8, <4>1
    <3>11. j = h BY <3>9, <3>10
    <3>12. x = y BY <3>3, <3>4, <3>7, <3>8, <3>11
    <3> QED BY <3>12 DEF x, y
  <2> QED BY <2>2, <2>3, <2>4
<1>8. Len(f) = l + 1 /\ Len(g) = l + 1 BY <1>0 DEF StackOf
<1>9. n \in DOMAIN g[k + 1] /\ g[k + 1][n] \in Bindings BY <1>0, <1>4, <1>5 DEF StackOf
<1> DEFINE own == [m \in DOMAIN f[k + 1] \cup {n} |-> IF m = n THEN g[k + 1][n] ELSE f[k + 1][m]]
<1>10. g[k + 1] = own
  <2>1. g[k + 1] = [m \in DOMAIN g[k + 1] |-> g[k + 1][m]] BY <1>0, <1>4 DEF StackOf
  <2>2. \A m \in DOMAIN g[k + 1] : g[k + 1][m] = IF m = n THEN g[k + 1][n] ELSE f[k + 1][m]
    BY <1>4, <1>5, <1>7
  <2>3. [m \in DOMAIN g[k + 1] |-> g[k + 1][m]]
          = [m \in DOMAIN g[k + 1] |-> IF m = n THEN g[k + 1][n] ELSE f[k + 1][m]]
    BY <2>2
  <2>4. own = [m \in DOMAIN g[k + 1] |-> IF m = n THEN g[k + 1][n] ELSE f[k + 1][m]]
    BY <1>5
  <2> QED BY <2>1, <2>3, <2>4
<1>11. ASSUME NEW i \in 1..(l + 1), i # k + 1 PROVE g[i] = f[i]
  <2>1. f[i] \in Saved /\ g[i] \in Saved BY <1>0 DEF StackOf
  <2>2. \A m \in DOMAIN f[i] : f[i][m] = g[i][m] BY <1>7
  <2>3. DOMAIN f[i] = DOMAIN g[i] BY <1>6, <1>11
  <2> QED BY <2>1, <2>2, <2>3, SavedEqual
<1>12. g = [f EXCEPT ![k + 1] = own]
  <2> HIDE DEF own
  <2>1. DOMAIN f = 1..(l + 1) /\ g = [i \in 1..(l + 1) |-> g[i]] BY <1>0 DEF StackOf
  <2>2. [f EXCEPT ![k + 1] = own] = [i \in 1..(l + 1) |-> IF i = k + 1 THEN own ELSE f[i]]
    BY <2>1
  <2>3. [i \in 1..(l + 1) |-> IF i = k + 1 THEN own ELSE f[i]] = [i \in 1..(l + 1) |-> g[i]]
    BY <1>10, <1>11
  <2> QED BY <2>1, <2>2, <2>3
<1>13. k + 1 \in (Scoping!Owner(f, n) + 1)..Len(f) BY <1>4, <1>8 DEF o
<1> QED BY <1>2, <1>8, <1>9, <1>12, <1>13 DEF Scoping!Declare

-----------------------------------------------------------------------------
(* The operations keep readonly bindings *)

\* Attributes keep the content, and the readonly attribute.
LEMMA AttributeKeeps ==
  ASSUME NEW x \in Good
  PROVE  /\ Keeps(x, x) /\ Keeps(x, MarkExported(x)) /\ Keeps(x, Unexport(x))
         /\ Keeps(x, MarkReadonly(x)) /\ \A y \in Attributes(x) : Keeps(x, y)
<1>1. \A z \in Good : Keeps(z, z) /\ Keeps(z, MarkExported(z)) /\ Keeps(z, MarkReadonly(z))
  BY DEF Keeps, Scoping!Content, MarkExported, MarkReadonly, Good, Bindings
<1>2. Keeps(x, Unexport(x)) BY DEF Keeps, Scoping!Content, Unexport, Good, Bindings
<1>3. MarkExported(x) \in Good BY MarkExportedGood
<1>4. Keeps(x, MarkReadonly(MarkExported(x)))
  <2>1. MarkExported(x).readonly = x.readonly BY DEF MarkExported, Good, Bindings
  <2> QED BY <1>1, <1>3, <2>1 DEF Keeps
<1> QED BY <1>1, <1>2, <1>4 DEF Attributes

\* A write that leaves a readonly binding alone.
LEMMA WrittenKeeps ==
  ASSUME NEW x \in Good, NEW y \in Good, NEW i \in Ids, x.readonly => y = x
  PROVE  Keeps(x, Written(x, y, i))
BY DEF Keeps, Scoping!Content, Written, Good, Bindings

\* Assignments and builtins on the current binding write for its owner.
LEMMA OperationKeeps ==
  ASSUME GoodInv, NEW n \in Names,
         Assign(n) \/ SpecialPrefix(n) \/ SetVar(n) \/ Export(n) \/ Readonly(n)
           \/ UnsetName(n) \/ Declare(n)
  PROVE  \E x : Bind(n, x) /\ Keeps(b[n], x)
<1>1. b[n] \in Good /\ OwnerId(n) \in Ids
  BY OwnerIdType DEF GoodInv
<1>2. \A y \in Good : (b[n].readonly => y = b[n]) => Keeps(b[n], Written(b[n], y, OwnerId(n)))
  BY <1>1, WrittenKeeps
<1>3. \A y : ~b[n].readonly => Keeps(b[n], y) BY DEF Keeps
<1>4. CASE Assign(n)
  <2>1. PICK x \in Assigned(b[n], OwnerId(n)) : Bind(n, x) BY <1>4 DEF Assign
  <2>2. ~b[n].readonly BY DEF Assigned
  <2> QED BY <1>3, <2>1, <2>2
<1>5. CASE SpecialPrefix(n)
  <2>1. PICK x \in Assigned(b[n], OwnerId(n)) : Bind(n, MarkExported(x)) BY <1>5 DEF SpecialPrefix
  <2>2. ~b[n].readonly BY DEF Assigned
  <2> QED BY <1>3, <2>1, <2>2
<1>6. \A v \in Vals : /\ TrySetVar(b[n], v) \in Good /\ TryExportVar(b[n], v) \in Good
                      /\ b[n].readonly => TrySetVar(b[n], v) = b[n]
                      /\ b[n].readonly => TryExportVar(b[n], v) = b[n]
  <2>1. \A v \in Vals : TrySetVar(b[n], v) \in Good /\ TryExportVar(b[n], v) \in Good
    BY <1>1, TrySetVarGood, TryExportVarGood
  <2>2. \A v \in Vals : /\ b[n].readonly => TrySetVar(b[n], v) = b[n]
                        /\ b[n].readonly => TryExportVar(b[n], v) = b[n]
    BY DEF TrySetVar, TryExportVar, SetArray, SetAssoc
  <2> QED BY <2>1, <2>2
<1>7. CASE SetVar(n) BY <1>2, <1>6, <1>7 DEF SetVar
<1>8. CASE Export(n)
  <2>1. Keeps(b[n], MarkExported(b[n])) /\ Keeps(b[n], Unexport(b[n])) BY <1>1, AttributeKeeps
  <2> QED BY <1>2, <1>3, <1>6, <1>8, <2>1 DEF Export
<1>9. CASE Readonly(n)
  <2>1. Keeps(b[n], MarkReadonly(b[n])) BY <1>1, AttributeKeeps
  <2> QED BY <1>3, <1>9, <2>1 DEF Readonly
<1>10. CASE UnsetName(n)
  <2>1. Unset(b[n]) \in Good /\ (b[n].readonly => Unset(b[n]) = b[n])
    BY <1>1, UnsetGood DEF Unset
  <2> QED BY <1>2, <1>3, <1>10, <2>1 DEF UnsetName
<1>11. CASE Declare(n)
  <2>1. \A y \in Attributes(b[n]) : Keeps(b[n], y) BY <1>1, AttributeKeeps
  <2> QED BY <1>3, <1>11, <2>1 DEF Declare
<1> QED BY <1>4, <1>5, <1>7, <1>8, <1>9, <1>10, <1>11

-----------------------------------------------------------------------------
(* Every operation is a step of dynamic scoping *)

\* A step of dynamic scoping, from the frames before to the frames after.
ScopeStep == Scoping!Step(Frames, Frames')

\* A step that keeps the snapshots and changes one current binding.
LEMMA BindScopes ==
  ASSUME GoodInv, GoodInv', SameFrames, overlay' = overlay, NEW n \in Names,
         Keeps(b[n], b'[n]), \A m \in Names : m # n => b'[m] = b[m]
  PROVE  ScopeStep
<1> DEFINE l == Len(Shadows)
<1>1. l \in Nat /\ Len(Shadows') = l /\ \A j \in 1..l : Shadows'[j].saved = Shadows[j].saved
  BY ShadowsType DEF SameFrames
<1>2. FramesAre(Shadows, l, b, Frames) BY FramesOf
<1>3. FramesAre(Shadows', l, b', Frames') BY <1>1, FramesOfNext
<1> HIDE DEF l
<1>4. Scoping!Write(Frames, Frames', n) BY <1>1, <1>2, <1>3, WriteStep
<1> QED BY <1>4 DEF ScopeStep, Scoping!Step

\* Assignments and builtins.
LEMMA OperationScopes ==
  ASSUME GoodInv, GoodInv', NEW n \in Names,
         Assign(n) \/ SpecialPrefix(n) \/ SetVar(n) \/ Export(n) \/ Readonly(n)
           \/ UnsetName(n) \/ Declare(n)
  PROVE  ScopeStep
<1>1. PICK x : Bind(n, x) /\ Keeps(b[n], x) BY OperationKeeps
<1>2. b' = [b EXCEPT ![n] = x] /\ scopes' = scopes /\ overlay' = overlay BY <1>1 DEF Bind
<1>3. UNCHANGED prefix \/ Ran
  BY DEF Assign, SpecialPrefix, SetVar, Export, Readonly, UnsetName, Declare
<1>4. SameFrames BY <1>2, <1>3, FramesKept
<1>5. b'[n] = x /\ \A m \in Names : m # n => b'[m] = b[m] BY <1>2 DEF GoodInv
<1> QED BY <1>1, <1>2, <1>4, <1>5, BindScopes

\* local: of a name that is a local already, a write; else a declaration.
LEMMA LocalScopes ==
  ASSUME GoodInv, GoodInv', NEW n \in Names, Local(n), ~broken'
  PROVE  ScopeStep
<1> DEFINE k == Len(scopes)
           top == scopes[k]
           l == Len(Shadows)
<1>1. k \in Nat /\ k \in 1..Len(scopes) /\ top \in GoodScopes
  BY DEF Local, GoodInv
<1>2. top.saved \in GoodSaved BY <1>1 DEF GoodScopes
<1>3. \A m \in Names : m # n => b'[m] = b[m] BY DEF Local, GoodInv
<1>4. ~b[n].readonly /\ Ran /\ overlay' = overlay BY DEF Local
<1>5. scopes' = [scopes EXCEPT ![k] = [top EXCEPT !.saved = Snapshot(top.saved, n)]]
  BY <1>1 DEF Local, Shadowed
<1>6. CASE n \in DOMAIN top.saved
  <2>1. Snapshot(top.saved, n) = top.saved
    <3>1. PICK S \in SUBSET Names : top.saved \in [S -> Good] BY <1>2 DEF GoodSaved
    <3>2. n \in S BY <1>6, <3>1
    <3> QED BY <3>1, <3>2 DEF Snapshot
  <2>2. [top EXCEPT !.saved = top.saved] = top BY <1>1 DEF GoodScopes
  <2>3. scopes' = scopes
    <3> HIDE DEF top
    <3>1. [scopes EXCEPT ![k] = top] = scopes BY <1>1 DEF GoodInv, top
    <3> QED BY <1>5, <2>1, <2>2, <3>1
  <2>4. SameFrames BY <1>4, <2>3, FramesKept
  <2>5. Keeps(b[n], b'[n]) BY <1>4 DEF Keeps
  <2> QED BY <1>3, <1>4, <2>4, <2>5, BindScopes
<1>7. CASE n \notin DOMAIN top.saved
  <2> DEFINE t == [top EXCEPT !.saved = Snapshot(top.saved, n)]
  <2>1. /\ DOMAIN t.saved = DOMAIN top.saved \cup {n}
        /\ t.saved[n] = b[n] /\ \A m \in DOMAIN top.saved : t.saved[m] = top.saved[m]
    BY <1>1, <1>7 DEF GoodScopes, Snapshot
  <2>2. prefix # None => n \notin DOMAIN prefix.saved BY <1>7 DEF Local, Idle
  <2> HIDE DEF top, t
  <2>3. /\ Len(scopes') = k /\ scopes'[k] = t /\ scopes[k] = top
        /\ \A j \in 1..k : j # k => scopes'[j] = scopes[j]
    BY <1>1, <1>5 DEF t, GoodInv, top
  <2>4. /\ k \in 1..l /\ Len(Shadows') = l /\ Shadows'[k] = t /\ Shadows[k] = top
        /\ \A j \in 1..l : j # k => Shadows'[j].saved = Shadows[j].saved
        /\ \A j \in (k + 1)..l : n \notin DOMAIN Shadows[j].saved
    <3>1. CASE prefix = None
      <4>1. Shadows = scopes /\ Shadows' = scopes'
        BY <1>4, <3>1, RanPrefix, ShadowsAre, ShadowsAreNext
      <4> QED BY <1>1, <2>3, <4>1
    <3>2. CASE prefix # None
      <4>1. prefix' # None /\ prefix'.saved = prefix.saved BY <1>4, <3>2, RanPrefix
      <4>2. /\ l = k + 1 /\ Shadows[k + 1] = prefix /\ \A j \in 1..k : Shadows[j] = scopes[j]
        BY <3>2, ShadowsAre
      <4>3. /\ Len(Shadows') = k + 1 /\ Shadows'[k + 1] = prefix'
            /\ \A j \in 1..k : Shadows'[j] = scopes'[j]
        BY <2>3, <4>1, ShadowsAreNext
      <4>4. /\ \A j \in 1..(k + 1) : j \in 1..k \/ j = k + 1
            /\ \A j \in (k + 1)..(k + 1) : j = k + 1 /\ k \in 1..(k + 1)
        BY <1>1
      <4> HIDE DEF k, l
      <4>5. k \in 1..l BY <1>1, <4>2, <4>4 DEF k
      <4> QED BY <1>1, <2>2, <2>3, <3>2, <4>1, <4>2, <4>3, <4>4, <4>5 DEF k
    <3> QED BY <3>1, <3>2
  <2>5. l \in Nat BY ShadowsType
  <2>6. \A j \in k..l : n \notin DOMAIN Shadows[j].saved
    <3>1. \A j \in k..l : j = k \/ j \in (k + 1)..l BY <1>1, <2>4, <2>5
    <3>2. n \notin DOMAIN Shadows[k].saved BY <1>7, <2>4
    <3> QED BY <2>4, <3>1, <3>2
  <2>7. FramesAre(Shadows, l, b, Frames) BY FramesOf
  <2>8. FramesAre(Shadows', l, b', Frames') BY <2>4, FramesOfNext
  <2>9. /\ DOMAIN Shadows'[k].saved = DOMAIN Shadows[k].saved \cup {n}
        /\ Shadows'[k].saved[n] = b[n]
        /\ \A m \in DOMAIN Shadows[k].saved : Shadows'[k].saved[m] = Shadows[k].saved[m]
    BY <2>1, <2>4
  <2> HIDE DEF k, l
  <2>10. Scoping!Declare(Frames, Frames', n)
    <3>1. PICK sh, sh2, bb, bb2, f, g :
            sh = Shadows /\ sh2 = Shadows' /\ bb = b /\ bb2 = b' /\ f = Frames /\ g = Frames'
      OBVIOUS
    <3>a. PICK m \in Nat : m = l BY <2>5
    <3>2. PICK i \in 1..m : m = l /\ i = k BY <2>4, <3>a
    <3>3. FramesAre(sh, m, bb, f) /\ FramesAre(sh2, m, bb2, g) BY <2>7, <2>8, <3>1, <3>2
    <3>4. \A j \in 1..m : j # i => sh2[j].saved = sh[j].saved BY <2>4, <3>1, <3>2
    <3>5. /\ DOMAIN sh2[i].saved = DOMAIN sh[i].saved \cup {n} /\ sh2[i].saved[n] = bb[n]
          /\ \A x \in DOMAIN sh[i].saved : sh2[i].saved[x] = sh[i].saved[x]
      BY <2>9, <3>1, <3>2
    <3>6. \A j \in i..m : n \notin DOMAIN sh[j].saved BY <2>6, <3>1, <3>2
    <3>7. ~bb[n].readonly /\ \A x \in Names : x # n => bb2[x] = bb[x] BY <1>3, <1>4, <3>1
    <3>8. SavedBefore(sh, sh2, m, i, bb, bb2, n) BY <3>4, <3>5, <3>6, <3>7 DEF SavedBefore
    <3>9. Scoping!Declare(f, g, n) BY <3>3, <3>8, DeclareStep
    <3> QED BY <3>1, <3>9
  <2> QED BY <1>4, <2>10 DEF ScopeStep, Scoping!Step
<1> QED BY <1>6, <1>7

\* A frame is entered.
LEMMA PushScopes ==
  ASSUME GoodInv, GoodInv', overlay' = overlay, NEW l \in Nat,
         Len(Shadows) = l, Len(Shadows') = l + 1,
         \A i \in 1..l : Shadows'[i].saved = Shadows[i].saved,
         \A n \in Names : IF n \in DOMAIN Shadows'[l + 1].saved
                          THEN Shadows'[l + 1].saved[n] = b[n] /\ ~b[n].readonly
                          ELSE b'[n] = b[n]
  PROVE  ScopeStep
<1>1. FramesAre(Shadows, l, b, Frames) /\ FramesAre(Shadows', l + 1, b', Frames')
  BY FramesOf, FramesOfNext
<1>p. Puts(Shadows'[l + 1].saved, b, b') BY DEF Puts
<1>r. \A n \in Names : n \in DOMAIN Shadows'[l + 1].saved => ~b[n].readonly OBVIOUS
<1>2. Scoping!Enter(Frames, Frames') BY <1>1, <1>p, <1>r, EnterStep
<1> QED BY <1>2 DEF ScopeStep, Scoping!Step

\* A frame is left.
LEMMA PopScopes ==
  ASSUME GoodInv, GoodInv', overlay' = overlay, NEW l \in Nat,
         Len(Shadows) = l + 1, Len(Shadows') = l,
         \A i \in 1..l : Shadows'[i].saved = Shadows[i].saved,
         \A n \in Names : b'[n] = IF n \in DOMAIN Shadows[l + 1].saved
                                  THEN Shadows[l + 1].saved[n] ELSE b[n]
  PROVE  ScopeStep
<1>1. FramesAre(Shadows, l + 1, b, Frames) /\ FramesAre(Shadows', l, b', Frames')
  BY FramesOf, FramesOfNext
<1>2. Scoping!Leave(Frames, Frames') BY <1>1, LeaveStep
<1> QED BY <1>2 DEF ScopeStep, Scoping!Step

\* A function call, and its return.
LEMMA CallScopes ==
  ASSUME GoodInv, GoodInv', NEW S \in SUBSET Names, Call(S) PROVE ScopeStep
<1> DEFINE k == Len(scopes)
           frame == [id |-> entered', saved |-> [n \in S |-> b[n]]]
<1>1. prefix = None /\ prefix' = None /\ overlay' = overlay BY DEF Call, Idle
<1>2. k \in Nat /\ Shadows = scopes /\ Shadows' = scopes'
  BY <1>1, ShadowsAre, ShadowsAreNext
<1>3. DOMAIN frame.saved = S /\ \A n \in S : frame.saved[n] = b[n] OBVIOUS
<1>4. scopes' = Append(scopes, frame) BY DEF Call
<1> HIDE DEF frame
<1>5. Len(scopes') = k + 1 /\ scopes'[k + 1] = frame /\ \A i \in 1..k : scopes'[i] = scopes[i]
  BY <1>4 DEF GoodInv
<1>6. \A n \in Names : IF n \in S THEN ~b[n].readonly ELSE b'[n] = b[n] BY DEF Call
<1> QED BY <1>1, <1>2, <1>3, <1>5, <1>6, PushScopes

\* A return takes the last frame off.
LEMMA ReturnScopes ==
  ASSUME GoodInv, GoodInv', FunctionReturn PROVE ScopeStep
<1> DEFINE k == Len(scopes) - 1
<1>1. Len(scopes) \in Nat /\ Len(scopes) > 0 BY DEF FunctionReturn, GoodInv
<1>2. prefix = None /\ prefix' = None /\ overlay' = overlay BY DEF FunctionReturn, Idle
<1>3. Shadows = scopes /\ Shadows' = scopes' BY <1>2, ShadowsAre, ShadowsAreNext
<1>4. k \in Nat /\ k + 1 = Len(scopes) BY <1>1
<1>5. Len(scopes') = k /\ \A i \in 1..k : scopes'[i] = scopes[i]
  <2>1. scopes' = SubSeq(scopes, 1, k) BY DEF FunctionReturn, LeaveScope
  <2>2. scopes \in Seq(GoodScopes) BY DEF GoodInv
  <2> QED BY <1>1, <1>4, <2>1, <2>2
<1>6. \A n \in Names : b'[n] = IF n \in DOMAIN scopes[k + 1].saved
                               THEN scopes[k + 1].saved[n] ELSE b[n]
  BY <1>4 DEF FunctionReturn, Restore
<1> HIDE DEF k
<1> QED BY <1>2, <1>3, <1>4, <1>5, <1>6, PopScopes

\* A regular builtin with prefix assignments, and its end.
LEMMA BuiltinScopes ==
  ASSUME GoodInv, GoodInv', NEW S \in SUBSET Names, BuiltinStart(S) \/ BuiltinEnd
  PROVE  ScopeStep
<1> DEFINE k == Len(scopes)
<1>1. k \in Nat BY ShadowsAre
<1>2. CASE BuiltinStart(S)
  <2>1. entered' \in Ids BY <1>2, EnteredType DEF BuiltinStart
  <2>2. prefix = None /\ overlay' = overlay /\ scopes' = scopes
    BY <1>2 DEF BuiltinStart, Idle
  <2>3. DOMAIN prefix'.saved = S /\ \A n \in S : prefix'.saved[n] = b[n]
    BY <1>2 DEF BuiltinStart
  <2>4. prefix' # None
    <3>1. [n \in S |-> b[n]] \in [S -> Bindings] BY DEF GoodInv, Good
    <3>2. [n \in S |-> b[n]] \in Saved BY <3>1 DEF Saved
    <3>3. prefix' \in SavedPrefixes BY <1>2, <2>1, <3>2 DEF BuiltinStart, SavedPrefixes
    <3> QED BY <3>3, NoneAssumption
  <2>5. /\ Shadows = scopes /\ Len(Shadows') = k + 1 /\ Shadows'[k + 1] = prefix'
        /\ \A i \in 1..k : Shadows'[i] = scopes[i]
    BY <2>2, <2>4, ShadowsAre, ShadowsAreNext
  <2>6. \A n \in Names : IF n \in S THEN ~b[n].readonly ELSE b'[n] = b[n]
    BY <1>2 DEF BuiltinStart
  <2> QED BY <1>1, <2>2, <2>3, <2>5, <2>6, PushScopes
<1>3. CASE BuiltinEnd
  <2>1. prefix # None /\ prefix' = None /\ overlay' = overlay /\ scopes' = scopes
    BY <1>3 DEF BuiltinEnd, Idle
  <2>2. /\ Len(Shadows) = k + 1 /\ Shadows[k + 1] = prefix /\ Shadows' = scopes
        /\ \A i \in 1..k : Shadows[i] = scopes[i]
    BY <2>1, ShadowsAre, ShadowsAreNext
  <2>3. \A n \in Names : b'[n] = IF n \in DOMAIN prefix.saved THEN prefix.saved[n] ELSE b[n]
    BY <1>3 DEF BuiltinEnd, Restore
  <2> QED BY <1>1, <2>1, <2>2, <2>3, PopScopes
<1> QED BY <1>2, <1>3

\* A change of directory rebinds what is not readonly and what the project sets.
LEMMA DirectoryScopes ==
  ASSUME GoodInv, GoodInv', NEW S \in SUBSET Names, NEW D \in SUBSET Names,
         ChangeDirectory(S, D)
  PROVE  ScopeStep
<1> DEFINE l == Len(Shadows)
<1>1. PICK f \in [S -> Vals], d \in [D -> Vals] :
        LET moved == [n \in Names |-> IF n \in D
                        THEN Written(b[n], TryExportVar(b[n], d[n]), OwnerId(n)) ELSE b[n]]
            base == Deactivated(moved)
        IN b' = [n \in Names |-> IF n \in S
                      THEN Written(base[n], TryExportVar(base[n], f[n]), Project) ELSE base[n]]
  BY DEF ChangeDirectory
<1> DEFINE moved == [n \in Names |-> IF n \in D
                      THEN Written(b[n], TryExportVar(b[n], d[n]), OwnerId(n)) ELSE b[n]]
           base == Deactivated(moved)
<1>2. \A n \in Names : b'[n] = IF n \in S
                      THEN Written(base[n], TryExportVar(base[n], f[n]), Project) ELSE base[n]
  BY <1>1
<1>3. \A x \in Good : \A v, i : x.readonly => Written(x, TryExportVar(x, v), i) = x
  BY DEF Written, TryExportVar, Good, Bindings
<1>4. ASSUME NEW n \in Names
      PROVE  \/ b'[n] = b[n] \/ ~b[n].readonly
             \/ overlay # None /\ n \in DOMAIN overlay.saved
  <2> SUFFICES ASSUME b[n].readonly, ~(overlay # None /\ n \in DOMAIN overlay.saved)
               PROVE  b'[n] = b[n]
    OBVIOUS
  <2>1. b[n] \in Good BY DEF GoodInv
  <2>2. moved[n] = b[n] BY <1>3, <2>1
  <2> HIDE DEF moved
  <2>3. base[n] = moved[n] BY DEF Deactivated
  <2> HIDE DEF base
  <2> QED BY <1>2, <1>3, <2>1, <2>2, <2>3
<1>5. SameFrames
  <2>1. scopes' = scopes /\ Ran BY DEF ChangeDirectory
  <2> QED BY <2>1, FramesKept
<1>6. l \in Nat /\ Len(Shadows') = l /\ \A j \in 1..l : Shadows'[j].saved = Shadows[j].saved
  BY <1>5, ShadowsType DEF SameFrames
<1>7. FramesAre(Shadows, l, b, Frames) BY FramesOf
<1>8. FramesAre(Shadows', l, b', Frames') BY <1>6, FramesOfNext
<1> HIDE DEF l, moved, base
<1>9. Scoping!Rebind(Frames, Frames') BY <1>4, <1>6, <1>7, <1>8, RebindStep
<1> QED BY <1>9 DEF ScopeStep, Scoping!Step

\* Defects are not forgotten.
LEMMA BrokenStays == [Next]_vars /\ ~broken' => ~broken
<1> SUFFICES ASSUME [Next]_vars, ~broken' PROVE ~broken
  OBVIOUS
<1>1. CASE UNCHANGED vars BY <1>1 DEF vars
<1>2. ASSUME NEW n \in Names, NEW x, Bind(n, x) PROVE ~broken
  BY <1>2 DEF Bind, history
<1>3. ASSUME NEW n \in Names, Assign(n) \/ SpecialPrefix(n) \/ SetVar(n) \/ Export(n)
               \/ Readonly(n) \/ UnsetName(n) \/ Declare(n)
      PROVE  ~broken
  BY <1>2, <1>3, Zenon DEF Assign, SpecialPrefix, SetVar, Export, Readonly, UnsetName, Declare
<1>4. ASSUME NEW n \in Names, Local(n) PROVE ~broken BY <1>4, Zenon DEF Local
<1>5. ASSUME NEW S \in SUBSET Names, Call(S) PROVE ~broken
  <2>1. broken' = broken \/ broken' = TRUE BY <1>5 DEF Call
  <2> QED BY <2>1
<1>6. CASE FunctionReturn \/ BuiltinEnd
  <2>1. UNCHANGED history BY <1>6 DEF FunctionReturn, BuiltinEnd
  <2> QED BY <2>1 DEF history
<1>7. ASSUME NEW S \in SUBSET Names, BuiltinStart(S) PROVE ~broken
  BY <1>7, Zenon DEF BuiltinStart
<1>8. ASSUME NEW S \in SUBSET Names, NEW D \in SUBSET Names, ChangeDirectory(S, D)
      PROVE  ~broken
  BY <1>8, Zenon DEF ChangeDirectory
<1> QED BY <1>1, <1>3, <1>4, <1>5, <1>6, <1>7, <1>8, Zenon DEF Next

\* Every step without a defect is one of dynamic scoping.
LEMMA NextScopes ==
  GoodInv /\ GoodInv' /\ [Next]_vars => [Scoping!Next]_(Scoping!scopeVars)
<1> SUFFICES ASSUME GoodInv, GoodInv', [Next]_vars PROVE [Scoping!Next]_(Scoping!scopeVars)
  OBVIOUS
<1>1. CASE UNCHANGED vars
  <2>1. UNCHANGED <<b, scopes, prefix, overlay, broken>> BY <1>1 DEF vars
  <2>2. Shadows' = Shadows BY <2>1 DEF Shadows
  <2>3. Frames' = Frames BY <2>1, <2>2 DEF Frames, FrameBinding
  <2> QED BY <2>1, <2>3 DEF Scoping!scopeVars
<1>2. CASE broken' BY <1>2 DEF Scoping!Next
<1>3. CASE Next /\ ~broken'
  <2>0. ~broken BY <1>3, BrokenStays
  <2>1. ASSUME NEW n \in Names, Assign(n) \/ SpecialPrefix(n) \/ SetVar(n) \/ Export(n)
                 \/ Readonly(n) \/ UnsetName(n) \/ Declare(n)
        PROVE  ScopeStep
    BY <2>1, OperationScopes
  <2>2. ASSUME NEW n \in Names, Local(n) PROVE ScopeStep BY <1>3, <2>2, LocalScopes
  <2>3. ASSUME NEW S \in SUBSET Names, Call(S) PROVE ScopeStep BY <2>3, CallScopes
  <2>4. ASSUME FunctionReturn PROVE ScopeStep BY <2>4, ReturnScopes
  <2>5. ASSUME NEW S \in SUBSET Names, BuiltinStart(S) \/ BuiltinEnd PROVE ScopeStep
    BY <2>5, BuiltinScopes
  <2>6. ASSUME NEW S \in SUBSET Names, NEW D \in SUBSET Names, ChangeDirectory(S, D)
        PROVE  ScopeStep
    BY <2>6, DirectoryScopes
  <2>7. {} \in SUBSET Names OBVIOUS
  <2>8. ScopeStep BY <1>3, <2>1, <2>2, <2>3, <2>4, <2>5, <2>6, <2>7 DEF Next
  <2> QED BY <1>3, <2>0, <2>8 DEF ScopeStep, Scoping!Next
<1> QED BY <1>1, <1>2, <1>3

\* The shell starts with the inherited bindings as the only frame.
LEMMA InitScopes == Init => Scoping!Init
<1> SUFFICES ASSUME Init PROVE Scoping!Init
  OBVIOUS
<1>1. GoodInv BY InitGood
<1>2. scopes = << >> /\ prefix = None /\ overlay = None /\ broken = FALSE BY DEF Init
<1>3. Len(Shadows) = 0 BY <1>2 DEF Shadows
<1>4. FramesAre(Shadows, 0, b, Frames) BY <1>1, <1>3, FramesOf
<1>5. StackOf(0, Frames) BY <1>4, FramesType
<1>6. 1 \in 1..(0 + 1) /\ Len(Frames) = 1 BY <1>5 DEF StackOf
<1>7. DOMAIN Frames[1] = Names BY <1>4, <1>6 DEF FramesAre
<1>8. Frames[1] \in [Names -> Bindings]
  <2>1. /\ Frames[1] = [n \in DOMAIN Frames[1] |-> Frames[1][n]]
        /\ \A n \in DOMAIN Frames[1] : Frames[1][n] \in Bindings
    BY <1>5, <1>6 DEF StackOf
  <2> QED BY <1>7, <2>1
<1> QED BY <1>2, <1>6, <1>8 DEF Scoping!Init

\* Shallow binding, snapshots that are put back (declare_local,
\* leave_function_scope, saved_assignments, deactivate_project_env), implements
\* dynamic scoping: for any names, values and nesting of calls, locals and prefix
\* assignments go with their frame and nothing else does, a write changes the
\* visible binding only, and readonly bindings keep their content.
THEOREM ScopingImplemented == Spec => ImplementsScopes
<1>1. Spec => []GoodInv
  BY InitGood, NextGood, PTL DEF Spec
<1>2. Spec => Scoping!Init
  BY InitScopes DEF Spec
<1>3. Spec => [][Scoping!Next]_(Scoping!scopeVars)
  BY <1>1, NextScopes, PTL DEF Spec
<1> QED
  BY <1>2, <1>3, PTL DEF ImplementsScopes, Scoping!Spec
=============================================================================
