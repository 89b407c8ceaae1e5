--------------------------- MODULE RefCountProofs ---------------------------
(***************************************************************************)
(* What holds of the counted references of RefCount, of the collections of *)
(* Collections and of the arrays of Arrays, for any numbers of variables,  *)
(* objects, items, elements and indexes, with its proofs.                  *)
(***************************************************************************)
EXTENDS RefCount, FiniteSetTheorems, SequenceTheorems, TLAPS

-----------------------------------------------------------------------------
(* The invariant, of objects lv, cells p, counts k, activations s, forgotten *)
(* fields f and calls of Terminate t.                                      *)

\* The activations that have given up the reference of their cell.
GivesUp(s) == {i \in DOMAIN s : s[i].pc # "init"}

\* The cells of those.
Given(s) == {s[i].cell : i \in GivesUp(s)}

\* The references to an object: the cells not given up, the parameters.
Refs(o, p, s) == {c \in Cell \ Given(s) : p[c] = o}
Params(o, s) == {i \in DOMAIN s : s[i].tmp = o}

\* How many they are, with the fields that were forgotten.
Uses(o, p, s, f) == Cardinality(Refs(o, p, s)) + Cardinality(Params(o, s)) + f[o]

\* What a cell or a parameter holds: only objects that live, and an object that does not
\* live has an empty field.
Pointers(lv, p, s) ==
    /\ \A c \in Cell : p[c] \in lv \cup {Null}
    /\ \A o \in Obj \ lv : p[o] = Null
    /\ \A i \in DOMAIN s : s[i].tmp \in lv \cup {Null}

\* A constructor makes what it is going to assign, to a variable that no activation
\* under it releases or goes through.
Making(s, i) ==
    /\ s[i].cell \in Var
    /\ s[i].tmp = s[i].obj
    /\ \A j \in 1 .. i - 1 : s[j].via # s[i].cell /\ (s[j].pc # "init" => s[j].cell # s[i].cell)

\* A field that is overwritten is of the object of an activation below, or of an object
\* that a variable holds.
Held(p, s, i) ==
    s[i].cell \in Obj =>
        \/ \E j \in 1 .. i - 1 : s[j].obj = s[i].cell
        \/ s[i].via \in Var \ Given(s) /\ p[s[i].via] = s[i].cell

\* An activation that gives up its reference: it was the last one to an object of its own.
Dropping(lv, p, k, s, i) ==
    /\ s[i].obj \in lv
    /\ p[s[i].cell] = s[i].obj
    /\ k[s[i].obj] = 0
    /\ Held(p, s, i)
    /\ \A j \in GivesUp(s) : s[j].obj = s[i].obj => i = j

\* A destructor waits for the release of the field, or the field is empty.
Destroying(p, s, i) ==
    IF i = Len(s) THEN p[s[i].obj] = Null
    ELSE s[i + 1].pc # "init" /\ s[i + 1].cell = s[i].obj /\ s[i + 1].tmp = Null

Destructors(p, s) == \A i \in DOMAIN s : s[i].pc = "dtor" => Destroying(p, s, i)

Activations(lv, p, k, s) ==
    \A i \in DOMAIN s : IF s[i].pc = "init" THEN Making(s, i) ELSE Dropping(lv, p, k, s, i)

\* Every object that lives has a reference or is being given up, Terminate has been called
\* for those only.
Lives(lv, k, s, t) ==
    \A o \in lv : IF \E i \in GivesUp(s) : s[i].obj = o THEN t[o] = 1
                  ELSE k[o] > 0 /\ t[o] = 0

Exact(lv, p, k, s, f) == \A o \in lv : k[o] = Uses(o, p, s, f)

Kept(lv, p, k, s, f, t) ==
    /\ lv \subseteq Obj /\ p \in [Cell -> Value] /\ k \in [Obj -> Nat] /\ s \in Seq(Frame)
    /\ f \in [Obj -> Nat] /\ t \in [Obj -> Nat]
    /\ Pointers(lv, p, s) /\ Activations(lv, p, k, s) /\ Lives(lv, k, s, t)
    /\ Exact(lv, p, k, s, f)

RefInv == Kept(live, ptr, cnt, stack, lost, terms) /\ Destructors(ptr, stack)

-----------------------------------------------------------------------------
(* References and their numbers. *)

LEMMA CellsFinite == IsFiniteSet(Cell)
  BY RefAssumption, FS_Union DEF Cell

LEMMA UsesNumber ==
  ASSUME NEW s \in Seq(Frame), NEW p \in [Cell -> Value], NEW o
  PROVE  /\ IsFiniteSet(Refs(o, p, s)) /\ Cardinality(Refs(o, p, s)) \in Nat
         /\ IsFiniteSet(Params(o, s)) /\ Cardinality(Params(o, s)) \in Nat
<1>1. Refs(o, p, s) \in SUBSET Cell
  BY DEF Refs
<1>2. IsFiniteSet(DOMAIN s)
  <2>1. DOMAIN s = 1 .. Len(s) /\ Len(s) \in Nat
    OBVIOUS
  <2>. QED  BY <2>1, FS_Interval
<1>3. Params(o, s) \in SUBSET DOMAIN s
  BY DEF Params
<1>4. IsFiniteSet(Refs(o, p, s)) /\ IsFiniteSet(Params(o, s))
  BY <1>1, <1>2, <1>3, CellsFinite, FS_Subset
<1>. QED  BY <1>4, FS_CardinalityType

\* The activations are told apart by what they hold and whether they give up a reference.
Alike(s, z) ==
    /\ Len(z) = Len(s)
    /\ \A i \in DOMAIN s : /\ z[i].cell = s[i].cell /\ z[i].tmp = s[i].tmp
                           /\ z[i].obj = s[i].obj /\ z[i].via = s[i].via
                           /\ z[i].pc = "init" <=> s[i].pc = "init"

LEMMA AlikeSets ==
  ASSUME NEW s \in Seq(Frame), NEW z \in Seq(Frame), Alike(s, z)
  PROVE  /\ DOMAIN z = DOMAIN s /\ GivesUp(z) = GivesUp(s) /\ Given(z) = Given(s)
         /\ \A o, p : Refs(o, p, z) = Refs(o, p, s)
         /\ \A o : Params(o, z) = Params(o, s)
<1>1. DOMAIN z = DOMAIN s
  BY DEF Alike
<1>2. GivesUp(z) = GivesUp(s)
  BY <1>1 DEF Alike, GivesUp
<1>3. Given(z) = Given(s)
  BY <1>1, <1>2 DEF Alike, Given, GivesUp
<1>4. \A o, p : Refs(o, p, z) = Refs(o, p, s)
  BY <1>3 DEF Refs
<1>5. \A o : Params(o, z) = Params(o, s)
  BY <1>1 DEF Alike, Params
<1>. QED  BY <1>1, <1>2, <1>3, <1>4, <1>5

LEMMA AlikeKeeps ==
  ASSUME NEW s \in Seq(Frame), NEW z \in Seq(Frame), Alike(s, z), NEW lv, NEW p, NEW k, NEW f,
         NEW t
  PROVE  /\ Pointers(lv, p, s) => Pointers(lv, p, z)
         /\ Activations(lv, p, k, s) => Activations(lv, p, k, z)
         /\ Lives(lv, k, s, t) => Lives(lv, k, z, t)
         /\ \A o : Uses(o, p, z, f) = Uses(o, p, s, f)
<1>1. DOMAIN z = DOMAIN s /\ GivesUp(z) = GivesUp(s) /\ Given(z) = Given(s)
  BY AlikeSets
<1>2. Pointers(lv, p, s) => Pointers(lv, p, z)
  BY <1>1 DEF Pointers, Alike
<1>3. ASSUME Activations(lv, p, k, s), NEW i \in DOMAIN z
      PROVE  IF z[i].pc = "init" THEN Making(z, i) ELSE Dropping(lv, p, k, z, i)
  <2>0. i \in DOMAIN s /\ i \in 1 .. Len(s) /\ Len(s) \in Nat
    BY <1>1, <1>3
  <2>1. CASE z[i].pc = "init"
    <3>1. Making(s, i)
      BY <2>0, <2>1, <1>3 DEF Activations, Alike
    <3>2. 1 .. i - 1 \subseteq DOMAIN s
      BY <2>0
    <3>. QED  BY <2>0, <2>1, <3>1, <3>2 DEF Making, Alike
  <2>2. CASE z[i].pc # "init"
    <3>1. Dropping(lv, p, k, s, i)
      BY <2>0, <2>2, <1>3 DEF Activations, Alike
    <3>2. \A j \in 1 .. i - 1 : j \in DOMAIN s
      BY <2>0
    <3>3. Held(p, z, i)
      BY <2>0, <3>1, <3>2, <1>1 DEF Dropping, Held, Alike
    <3>4. GivesUp(s) \subseteq DOMAIN s
      BY DEF GivesUp
    <3>. QED  BY <2>0, <2>2, <3>1, <3>3, <3>4, <1>1 DEF Dropping, Alike
  <2>. QED  BY <2>1, <2>2
<1>4. Lives(lv, k, s, t) => Lives(lv, k, z, t)
  <2>1. \A i \in GivesUp(s) : z[i].obj = s[i].obj
    BY DEF GivesUp, Alike
  <2>. QED  BY <2>1, <1>1 DEF Lives
<1>5. \A o : Uses(o, p, z, f) = Uses(o, p, s, f)
  BY AlikeSets DEF Uses
<1>. QED  BY <1>2, <1>3, <1>4, <1>5 DEF Activations

\* A cell that holds an object counts for it; so does a parameter.
LEMMA InUse ==
  ASSUME NEW s \in Seq(Frame), NEW p \in [Cell -> Value], NEW f \in [Obj -> Nat], NEW o \in Obj
  PROVE  /\ \A c \in Cell \ Given(s) : p[c] = o => Uses(o, p, s, f) > 0
         /\ \A i \in DOMAIN s : s[i].tmp = o => Uses(o, p, s, f) > 0
<1>1. f[o] \in Nat
  OBVIOUS
<1>2. \A c \in Cell \ Given(s) : p[c] = o => Cardinality(Refs(o, p, s)) # 0
  <2>1. \A c \in Cell \ Given(s) : p[c] = o => Refs(o, p, s) # {}
    BY DEF Refs
  <2>. QED  BY <2>1, UsesNumber, FS_EmptySet
<1>3. \A i \in DOMAIN s : s[i].tmp = o => Cardinality(Params(o, s)) # 0
  <2>1. \A i \in DOMAIN s : s[i].tmp = o => Params(o, s) # {}
    BY DEF Params
  <2>. QED  BY <2>1, UsesNumber, FS_EmptySet
<1>. QED  BY <1>1, <1>2, <1>3, UsesNumber DEF Uses

-----------------------------------------------------------------------------
(* What an operator= does to the references. *)

\* The state an operator= starts from: count[o] holds one more for the parameter x.
Calling(lv, p, k, s, f, t, c, x) ==
    /\ lv \subseteq Obj /\ p \in [Cell -> Value] /\ k \in [Obj -> Nat] /\ s \in Seq(Frame)
    /\ f \in [Obj -> Nat] /\ t \in [Obj -> Nat]
    /\ c \in Var \cup lv /\ x \in lv \cup {Null}
    /\ Pointers(lv, p, s) /\ Activations(lv, p, k, s) /\ Lives(lv, k, s, t)
    /\ \A o \in lv : k[o] = Uses(o, p, s, f) + (IF x = o THEN 1 ELSE 0)
    /\ c \notin Given(s)
    /\ \A j \in DOMAIN s : s[j].via # c

\* A sequence with one activation more.
LEMMA Entered ==
  ASSUME NEW s \in Seq(Frame), NEW fr \in Frame, NEW z, z = Append(s, fr)
  PROVE  /\ z \in Seq(Frame) /\ Len(z) = Len(s) + 1 /\ Len(s) \in Nat
         /\ DOMAIN z = 1 .. Len(s) + 1 /\ DOMAIN s = 1 .. Len(s)
         /\ DOMAIN z = DOMAIN s \cup {Len(s) + 1} /\ Len(s) + 1 \notin DOMAIN s
         /\ \A i \in DOMAIN s : z[i] = s[i]
         /\ z[Len(s) + 1] = fr
  OBVIOUS

\* The same activations below it keep what they had, if it gives up no cell they use.
LEMMA BelowKeeps ==
  ASSUME NEW s \in Seq(Frame), NEW fr \in Frame, NEW z, z = Append(s, fr),
         NEW lv \in SUBSET Obj, NEW p \in [Cell -> Value], NEW k,
         Activations(lv, p, k, s), fr.obj \in lv,
         fr.pc # "init" => \A j \in GivesUp(s) : s[j].obj # fr.obj,
         fr.pc # "init" => \A j \in DOMAIN s : s[j].via # fr.cell,
         NEW i \in DOMAIN s
  PROVE  IF z[i].pc = "init" THEN Making(z, i) ELSE Dropping(lv, p, k, z, i)
<1>1. /\ z \in Seq(Frame) /\ Len(z) = Len(s) + 1 /\ Len(s) \in Nat
      /\ DOMAIN z = DOMAIN s \cup {Len(s) + 1} /\ Len(s) + 1 \notin DOMAIN s
      /\ i \in 1 .. Len(s) /\ DOMAIN s = 1 .. Len(s)
      /\ \A j \in DOMAIN s : z[j] = s[j]
      /\ z[Len(s) + 1] = fr
  BY Entered
<1>2. CASE s[i].pc = "init"
  <2>1. Making(s, i)
    BY <1>2 DEF Activations
  <2>2. 1 .. i - 1 \subseteq DOMAIN s
    BY <1>1
  <2>. QED  BY <1>1, <1>2, <2>1, <2>2 DEF Making
<1>3. CASE s[i].pc # "init"
  <2>1. Dropping(lv, p, k, s, i)
    BY <1>3 DEF Activations
  <2>2. \A j \in 1 .. i - 1 : j \in DOMAIN s
    BY <1>1
  <2>3. \A v \in Var \ Given(s) : s[i].via = v => v \notin Given(z)
    BY <1>1 DEF Given, GivesUp
  <2>4. Held(p, z, i)
    BY <1>1, <2>1, <2>2, <2>3 DEF Dropping, Held
  <2>5. \A j \in GivesUp(z) : z[j].obj = z[i].obj => i = j
    BY <1>1, <1>3, <2>1 DEF Dropping, GivesUp
  <2>. QED  BY <1>1, <1>3, <2>1, <2>4, <2>5 DEF Dropping
<1>. QED  BY <1>1, <1>2, <1>3

\* The last reference is dropped: Terminate is entered.
LEMMA EnterKeeps ==
  ASSUME NEW lv, NEW p, NEW k, NEW s, NEW f, NEW t, NEW c, NEW x, Calling(lv, p, k, s, f, t, c, x),
         NEW fr \in Frame, fr.cell = c, fr.tmp = x, fr.pc = "term", fr.obj = p[c], k[p[c]] = 1,
         c \in Obj => \/ \E j \in DOMAIN s : s[j].obj = c
                      \/ fr.via \in Var \ Given(s) /\ p[fr.via] = c
  PROVE  Kept(lv, p, [k EXCEPT ![p[c]] = 0], Append(s, fr), f, [t EXCEPT ![p[c]] = @ + 1])
<1> DEFINE old == p[c]
           z == Append(s, fr)
           k1 == [k EXCEPT ![old] = 0]
           t1 == [t EXCEPT ![old] = @ + 1]
<1>a. /\ old = p[c] /\ z = Append(s, fr) /\ k1 = [k EXCEPT ![old] = 0]
      /\ t1 = [t EXCEPT ![old] = @ + 1] /\ fr.obj = old /\ k[old] = 1
  OBVIOUS
<1>b. old \in Obj
  BY DEF Frame
<1>. HIDE DEF old, z, k1, t1
<1>. USE <1>a, <1>b
<1>0. /\ lv \subseteq Obj /\ p \in [Cell -> Value] /\ k \in [Obj -> Nat] /\ s \in Seq(Frame)
      /\ f \in [Obj -> Nat] /\ t \in [Obj -> Nat]
      /\ c \in Var \cup lv /\ c \in Cell /\ x \in lv \cup {Null} /\ c \notin Given(s)
      /\ Null \notin Obj
  BY RefAssumption DEF Calling, Cell
<1>1. /\ z \in Seq(Frame) /\ Len(z) = Len(s) + 1 /\ Len(s) \in Nat
      /\ DOMAIN z = DOMAIN s \cup {Len(s) + 1} /\ Len(s) + 1 \notin DOMAIN s
      /\ DOMAIN s = 1 .. Len(s)
      /\ \A j \in DOMAIN s : z[j] = s[j]
      /\ z[Len(s) + 1] = fr
  BY <1>0, Entered
<1>2. k1 \in [Obj -> Nat] /\ t1 \in [Obj -> Nat]
  BY <1>0
<1>3. Pointers(lv, p, z)
  BY <1>0, <1>1 DEF Pointers, Calling
<1>4. old \in lv
  BY <1>0 DEF Pointers, Calling
<1>5. \A j \in GivesUp(s) : s[j].obj # old
  BY <1>4 DEF Calling, Lives, Activations, Dropping, GivesUp
<1>6. Activations(lv, p, k1, s)
  <2>1. ASSUME NEW i \in DOMAIN s
        PROVE  IF s[i].pc = "init" THEN Making(s, i) ELSE Dropping(lv, p, k1, s, i)
    <3>1. IF s[i].pc = "init" THEN Making(s, i) ELSE Dropping(lv, p, k, s, i)
      BY DEF Calling, Activations
    <3>2. s[i].pc # "init" => s[i].obj # old
      BY <1>5 DEF GivesUp
    <3>. QED  BY <3>1, <3>2, <1>0 DEF Dropping
  <2>. QED  BY <2>1 DEF Activations
<1>7. Activations(lv, p, k1, z)
  <2>1. ASSUME NEW i \in DOMAIN s
        PROVE  IF z[i].pc = "init" THEN Making(z, i) ELSE Dropping(lv, p, k1, z, i)
    <3>1. \A j \in DOMAIN s : s[j].via # fr.cell
      BY DEF Calling
    <3>2. \A j \in GivesUp(s) : s[j].obj # fr.obj
      BY <1>5
    <3>3. lv \in SUBSET Obj /\ fr.obj \in lv
      BY <1>0, <1>4
    <3>. QED  BY <1>0, <1>6, <3>1, <3>2, <3>3, BelowKeeps
  <2>2. Dropping(lv, p, k1, z, Len(s) + 1)
    <3>1. Held(p, z, Len(s) + 1)
      <4>1. ASSUME NEW j \in DOMAIN s, s[j].obj = c
            PROVE  j \in 1 .. Len(s) + 1 - 1 /\ z[j].obj = c
        BY <1>1, <4>1
      <4>2. ASSUME fr.via \in Var \ Given(s), c \in Obj
            PROVE  fr.via \notin Given(z)
        BY <1>1, <4>2, RefAssumption DEF Given, GivesUp
      <4>3. z[Len(s) + 1].cell = c /\ z[Len(s) + 1].via = fr.via
        BY <1>1
      <4>. QED  BY <4>1, <4>2, <4>3 DEF Held
    <3>2. \A j \in GivesUp(z) : z[j].obj = old => Len(s) + 1 = j
      BY <1>1, <1>5 DEF GivesUp
    <3>3. k1[old] = 0
      BY <1>0
    <3>. QED  BY <3>1, <3>2, <3>3, <1>0, <1>1, <1>4 DEF Dropping
  <2>. QED  BY <1>1, <2>1, <2>2 DEF Activations
<1>8. Lives(lv, k1, z, t1)
  <2>1. ASSUME NEW o \in lv
        PROVE  IF \E i \in GivesUp(z) : z[i].obj = o THEN t1[o] = 1 ELSE k1[o] > 0 /\ t1[o] = 0
    <3>1. IF \E i \in GivesUp(s) : s[i].obj = o THEN t[o] = 1 ELSE k[o] > 0 /\ t[o] = 0
      BY DEF Calling, Lives
    <3>2. GivesUp(z) = GivesUp(s) \cup {Len(s) + 1} /\ GivesUp(s) \subseteq DOMAIN s
      BY <1>1 DEF GivesUp
    <3>3. CASE o = old
      <4>1. t[o] = 0
        BY <3>1, <3>3, <1>5
      <4>. QED  BY <4>1, <3>2, <3>3, <1>0, <1>1
    <3>4. CASE o # old
      <4>1. (\E i \in GivesUp(z) : z[i].obj = o) <=> (\E i \in GivesUp(s) : s[i].obj = o)
        BY <3>2, <3>4, <1>1
      <4>2. k1[o] = k[o] /\ t1[o] = t[o]
        BY <3>4, <1>0
      <4>. QED  BY <3>1, <4>1, <4>2
    <3>. QED  BY <3>3, <3>4
  <2>. QED  BY <2>1 DEF Lives
<1>9. Exact(lv, p, k1, z, f)
  <2>1. Given(z) = Given(s) \cup {c}
    BY <1>1 DEF Given, GivesUp
  <2>2. ASSUME NEW o \in lv
        PROVE  k1[o] = Uses(o, p, z, f)
    <3>1. k[o] = Uses(o, p, s, f) + (IF x = o THEN 1 ELSE 0)
      BY DEF Calling
    <3>2. /\ IsFiniteSet(Refs(o, p, s)) /\ Cardinality(Refs(o, p, s)) \in Nat
          /\ IsFiniteSet(Params(o, s)) /\ Cardinality(Params(o, s)) \in Nat
      BY <1>0, UsesNumber
    <3>3. Cardinality(Refs(o, p, z)) = Cardinality(Refs(o, p, s)) - (IF o = old THEN 1 ELSE 0)
      <4>1. Refs(o, p, z) = Refs(o, p, s) \ {c}
        BY <2>1 DEF Refs
      <4>2. c \in Refs(o, p, s) <=> o = old
        BY <1>0 DEF Refs
      <4>3. Cardinality(Refs(o, p, s) \ {c})
              = IF c \in Refs(o, p, s) THEN Cardinality(Refs(o, p, s)) - 1
                ELSE Cardinality(Refs(o, p, s))
        BY <3>2, FS_RemoveElement
      <4>. QED  BY <4>1, <4>2, <4>3, <3>2
    <3>4. Cardinality(Params(o, z)) = Cardinality(Params(o, s)) + (IF x = o THEN 1 ELSE 0)
      <4>1. Params(o, z) = IF x = o THEN Params(o, s) \cup {Len(s) + 1} ELSE Params(o, s)
        BY <1>1 DEF Params
      <4>2. Len(s) + 1 \notin Params(o, s)
        BY <1>1 DEF Params
      <4>3. Cardinality(Params(o, s) \cup {Len(s) + 1}) = Cardinality(Params(o, s)) + 1
        BY <4>2, <3>2, FS_AddElement
      <4>. QED  BY <4>1, <4>3, <3>2
    <3>5. k1[o] = IF o = old THEN k[o] - 1 ELSE k[o]
      BY <1>0
    <3>6. f[o] \in Nat
      BY <1>0
    <3>. QED  BY <3>1, <3>2, <3>3, <3>4, <3>5, <3>6 DEF Uses
  <2>. QED  BY <2>2 DEF Exact
<1>10. Kept(lv, p, k1, z, f, t1)
  BY <1>0, <1>1, <1>2, <1>3, <1>7, <1>8, <1>9 DEF Kept
<1>. QED  BY <1>10 DEF old, z, k1, t1

\* Nobody waits for an object that a cell holds which is not given up.
LEMMA HeldIsUsed ==
  ASSUME NEW lv, NEW p, NEW k, NEW s, NEW f, NEW t, NEW c, NEW x, Calling(lv, p, k, s, f, t, c, x),
         NEW old \in Obj, p[c] = old
  PROVE  old \in lv /\ k[old] > 0
<1>0. /\ p \in [Cell -> Value] /\ s \in Seq(Frame) /\ f \in [Obj -> Nat] /\ k \in [Obj -> Nat]
      /\ lv \subseteq Obj /\ c \in Cell \ Given(s)
  BY DEF Calling, Cell
<1>1. old \in lv
  BY <1>0, RefAssumption DEF Calling, Pointers
<1>2. Uses(old, p, s, f) > 0
  BY <1>0, InUse
<1>3. Uses(old, p, s, f) \in Nat
  BY <1>0, UsesNumber DEF Uses
<1>4. k[old] = Uses(old, p, s, f) + (IF x = old THEN 1 ELSE 0)
  BY <1>1 DEF Calling
<1>. QED  BY <1>1, <1>2, <1>3, <1>4

\* One reference to old is counted down or forgotten, and it is not the last.
Drops(k, k1, f, f1, old) ==
    /\ k1 \in [Obj -> Nat] /\ f1 \in [Obj -> Nat]
    /\ \A o \in Obj : k1[o] - f1[o] = k[o] - f[o] - (IF o = old THEN 1 ELSE 0)
    /\ \A o \in Obj : k1[o] = 0 <=> k[o] = 0

\* A reference is stored in the place of another.
LEMMA StoreKeeps ==
  ASSUME NEW lv, NEW p, NEW k, NEW s, NEW f, NEW t, NEW c, NEW x, Calling(lv, p, k, s, f, t, c, x),
         NEW k1, NEW f1, Drops(k, k1, f, f1, p[c])
  PROVE  Kept(lv, [p EXCEPT ![c] = x], k1, s, f1, t)
<1> DEFINE p1 == [p EXCEPT ![c] = x]
<1>a. p1 = [p EXCEPT ![c] = x]
  OBVIOUS
<1>b. /\ k1 \in [Obj -> Nat] /\ f1 \in [Obj -> Nat]
      /\ \A o \in Obj : k1[o] - f1[o] = k[o] - f[o] - (IF o = p[c] THEN 1 ELSE 0)
      /\ \A o \in Obj : k1[o] = 0 <=> k[o] = 0
  BY DEF Drops
<1>. HIDE DEF p1
<1>. USE <1>a, <1>b
<1>0. /\ lv \subseteq Obj /\ p \in [Cell -> Value] /\ k \in [Obj -> Nat] /\ s \in Seq(Frame)
      /\ f \in [Obj -> Nat] /\ t \in [Obj -> Nat]
      /\ c \in Var \cup lv /\ c \in Cell /\ x \in lv \cup {Null} /\ c \notin Given(s)
      /\ Null \notin Obj
  BY RefAssumption DEF Calling, Cell
<1>1. /\ p1 \in [Cell -> Value] /\ p1[c] = x
      /\ \A d \in Cell : d # c => p1[d] = p[d]
  BY <1>0 DEF Value
<1>2. Pointers(lv, p1, s)
  <2>1. \A o \in Obj \ lv : o # c /\ o \in Cell
    BY <1>0, RefAssumption DEF Cell
  <2>. QED  BY <1>0, <1>1, <2>1 DEF Pointers, Calling
<1>3. Activations(lv, p1, k1, s)
  <2>1. ASSUME NEW i \in DOMAIN s
        PROVE  IF s[i].pc = "init" THEN Making(s, i) ELSE Dropping(lv, p1, k1, s, i)
    <3>1. IF s[i].pc = "init" THEN Making(s, i) ELSE Dropping(lv, p, k, s, i)
      BY DEF Calling, Activations
    <3>2. s[i] \in Frame
      BY <1>0
    <3>3. s[i].pc # "init" => p1[s[i].cell] = p[s[i].cell]
      <4>1. s[i].pc # "init" => s[i].cell # c
        BY <1>0 DEF Given, GivesUp
      <4>. QED  BY <4>1, <3>2, <1>1 DEF Frame
    <3>4. s[i].via \in Var => p1[s[i].via] = p[s[i].via]
      BY <3>2, <1>1 DEF Calling, Cell
    <3>5. Held(p, s, i) => Held(p1, s, i)
      BY <3>4 DEF Held
    <3>6. lv \subseteq Obj /\ \A o \in Obj : k1[o] = 0 <=> k[o] = 0
      BY <1>0
    <3>. QED  BY <3>1, <3>3, <3>5, <3>6 DEF Dropping
  <2>. QED  BY <2>1 DEF Activations
<1>4. Lives(lv, k1, s, t)
  <2>1. \A o \in lv : k[o] > 0 => k1[o] > 0
    BY <1>0
  <2>. QED  BY <2>1 DEF Lives, Calling
<1>5. Exact(lv, p1, k1, s, f1)
  <2>2. ASSUME NEW o \in lv
        PROVE  k1[o] = Uses(o, p1, s, f1)
    <3>1. k[o] = Uses(o, p, s, f) + (IF x = o THEN 1 ELSE 0)
      BY DEF Calling
    <3>2. /\ IsFiniteSet(Refs(o, p, s)) /\ Cardinality(Refs(o, p, s)) \in Nat
          /\ IsFiniteSet(Refs(o, p1, s)) /\ Cardinality(Refs(o, p1, s)) \in Nat
          /\ IsFiniteSet(Params(o, s)) /\ Cardinality(Params(o, s)) \in Nat
      BY <1>0, <1>1, UsesNumber
    <3> DEFINE R == Refs(o, p, s) \ {c}
    <3>3. /\ IsFiniteSet(R)
          /\ Cardinality(R) = IF p[c] = o THEN Cardinality(Refs(o, p, s)) - 1
                              ELSE Cardinality(Refs(o, p, s))
      <4>1. c \in Refs(o, p, s) <=> p[c] = o
        BY <1>0 DEF Refs
      <4>. QED  BY <4>1, <3>2, FS_RemoveElement
    <3>4. Cardinality(Refs(o, p1, s)) = IF x = o THEN Cardinality(R) + 1 ELSE Cardinality(R)
      <4>1. Refs(o, p1, s) = IF x = o THEN R \cup {c} ELSE R
        BY <1>0, <1>1 DEF Refs
      <4>2. Cardinality(R \cup {c}) = Cardinality(R) + 1
        <5>1. c \notin R
          OBVIOUS
        <5>. HIDE DEF R
        <5>. QED  BY <5>1, <3>3, FS_AddElement
      <4>. QED  BY <4>1, <4>2
    <3>5. o \in Obj /\ f[o] \in Nat /\ f1[o] \in Nat /\ k[o] \in Nat /\ k1[o] \in Nat
      BY <1>0
    <3>6. k1[o] - f1[o] = k[o] - f[o] - (IF o = p[c] THEN 1 ELSE 0)
      BY <3>5
    <3>. HIDE DEF R
    <3>. QED  BY <3>1, <3>2, <3>3, <3>4, <3>5, <3>6 DEF Uses
  <2>. QED  BY <2>2 DEF Exact
<1>6. Kept(lv, p1, k1, s, f1, t)
  BY <1>0, <1>1, <1>2, <1>3, <1>4, <1>5 DEF Kept
<1>. QED  BY <1>6 DEF p1

\* The release of a reference that is not the last one is a step of that kind.
LEMMA ReleaseCounts ==
  ASSUME NEW k \in [Obj -> Nat], NEW f \in [Obj -> Nat], NEW old \in Value,
         old # Null => k[old] > 0 /\ k[old] # 1
  PROVE  Drops(k, Release(old, k), f, f, old)
<1>1. CASE old = Null
  BY <1>1, RefAssumption DEF Release, Drops
<1>2. CASE old # Null
  <2>1. old \in Obj /\ k[old] \in Nat /\ k[old] > 1
    BY <1>2 DEF Value
  <2>2. Release(old, k) = [o \in Obj |-> IF o = old THEN k[o] - 1 ELSE k[o]]
    BY <1>2, <2>1 DEF Release
  <2>. QED  BY <2>1, <2>2 DEF Drops
<1>. QED  BY <1>1, <1>2

-----------------------------------------------------------------------------
(* What a return does. *)

\* The object of the activation on top: no variable, field or parameter refers to it any
\* more but the cell given up, and no field of it is being overwritten.
Unused(lv, p, k, s, n, c, x) ==
    /\ n \in DOMAIN s /\ x \in lv /\ k[x] = 0 /\ p[c] = x
    /\ c \in Given(s)
    /\ \A i \in GivesUp(s) : s[i].obj = x => i = n
    /\ \A i \in GivesUp(s) : s[i].cell = c => i = n
    /\ \A d \in Cell \ Given(s) : p[d] # x
    /\ \A i \in DOMAIN s : s[i].tmp # x
    /\ x \notin Given(s)

LEMMA LastUnused ==
  ASSUME NEW lv \in SUBSET Obj, NEW p \in [Cell -> Value], NEW k, NEW s \in Seq(Frame),
         NEW f \in [Obj -> Nat],
         Activations(lv, p, k, s), Exact(lv, p, k, s, f),
         Len(s) > 0, s[Len(s)].pc # "init"
  PROVE  Unused(lv, p, k, s, Len(s), s[Len(s)].cell, s[Len(s)].obj)
<1> DEFINE n == Len(s)
           x == s[n].obj
<1>1. n \in DOMAIN s /\ n \in GivesUp(s) /\ n \in Nat
  BY DEF GivesUp
<1>2. Dropping(lv, p, k, s, n)
  BY <1>1 DEF Activations
<1>3. x \in lv /\ k[x] = 0 /\ p[s[n].cell] = x /\ s[n].cell \in Given(s)
  BY <1>1, <1>2 DEF Dropping, Given
<1>4. \A i \in GivesUp(s) : s[i].obj = x => i = n
  BY <1>2 DEF Dropping
<1>5. \A i \in GivesUp(s) : Dropping(lv, p, k, s, i)
  BY DEF GivesUp, Activations
<1>6. \A i \in GivesUp(s) : s[i].cell = s[n].cell => i = n
  BY <1>3, <1>4, <1>5 DEF Dropping
<1>7. Uses(x, p, s, f) = 0
  BY <1>3 DEF Exact
<1>8. (\A d \in Cell \ Given(s) : p[d] # x) /\ (\A i \in DOMAIN s : s[i].tmp # x)
  <2>1. x \in Obj
    BY <1>3
  <2>2. ~(Uses(x, p, s, f) > 0)
    BY <1>7
  <2>. HIDE DEF x
  <2>. QED  BY <2>1, <2>2, InUse
<1>9. x \notin Given(s)
  <2>1. SUFFICES ASSUME NEW i \in GivesUp(s), s[i].cell = x PROVE FALSE
    BY DEF Given
  <2>2. Held(p, s, i) /\ i \in DOMAIN s /\ s[i].cell \in Obj
    BY <1>3, <1>5, <2>1 DEF Dropping, GivesUp
  <2>3. ASSUME NEW j \in 1 .. i - 1, s[j].obj = x PROVE FALSE
    <3>1. j \in DOMAIN s /\ j < n
      BY <2>2, <2>3
    <3>2. s[j].pc # "init"
      BY <1>8, <2>3, <3>1 DEF Activations, Making
    <3>3. j = n
      BY <1>4, <2>3, <3>1, <3>2 DEF GivesUp
    <3>. QED  BY <3>1, <3>3, <1>1
  <2>4. CASE s[i].via \in Var \ Given(s) /\ p[s[i].via] = x
    BY <2>4, <1>8 DEF Cell
  <2>. QED  BY <2>1, <2>2, <2>3, <2>4 DEF Held
<1>. QED  BY <1>1, <1>3, <1>4, <1>6, <1>8, <1>9 DEF Unused

\* z is s without its last activation.
Shortened(s, z) ==
    /\ z \in Seq(Frame) /\ Len(z) = Len(s) - 1 /\ Len(s) \in Nat
    /\ DOMAIN s = DOMAIN z \cup {Len(s)} /\ Len(s) \notin DOMAIN z
    /\ DOMAIN z = 1 .. Len(s) - 1 /\ DOMAIN s = 1 .. Len(s)
    /\ \A i \in DOMAIN z : z[i] = s[i]

LEMMA Left ==
  ASSUME NEW s \in Seq(Frame), Len(s) > 0
  PROVE  Shortened(s, Front(s))
<1> DEFINE m == Len(s) - 1
<1>1. m \in Nat /\ Len(s) = m + 1 /\ \A i \in 1 .. m : i \in 1 .. Len(s)
  OBVIOUS
<1> DEFINE z == Front(s)
<1>2. z = SubSeq(s, 1, m)
  BY DEF Front
<1>. HIDE DEF m, z
<1>3. SubSeq(s, 1, m) \in Seq(Frame) /\ Len(SubSeq(s, 1, m)) = m
  BY <1>1
<1>4. \A i \in 1 .. m : SubSeq(s, 1, m)[i] = s[i]
  BY <1>1
<1>5. DOMAIN z = 1 .. m /\ DOMAIN s = 1 .. m + 1
  BY <1>1, <1>2, <1>3
<1>6. 1 .. m + 1 = (1 .. m) \cup {m + 1} /\ m + 1 \notin 1 .. m /\ m + 1 - 1 = m
  BY <1>1
<1>7. Shortened(s, z)
  BY <1>1, <1>2, <1>3, <1>4, <1>5, <1>6 DEF Shortened
<1>. QED  BY <1>7 DEF z

\* What holds of the activations that stay.
LEMMA LeftActivations ==
  ASSUME NEW s \in Seq(Frame), NEW z, Shortened(s, z), NEW lv \in SUBSET Obj,
         NEW p \in [Cell -> Value], NEW k, Activations(lv, p, k, s)
  PROVE  Activations(lv, p, k, z)
<1>1. /\ z \in Seq(Frame) /\ Len(z) = Len(s) - 1 /\ Len(s) \in Nat
      /\ DOMAIN s = DOMAIN z \cup {Len(s)} /\ Len(s) \notin DOMAIN z
      /\ DOMAIN z = 1 .. Len(s) - 1
      /\ \A i \in DOMAIN z : z[i] = s[i]
  BY DEF Shortened
<1>2. GivesUp(z) \subseteq GivesUp(s) /\ Given(z) \subseteq Given(s)
  BY <1>1 DEF GivesUp, Given
<1>3. ASSUME NEW i \in DOMAIN z
      PROVE  IF z[i].pc = "init" THEN Making(z, i) ELSE Dropping(lv, p, k, z, i)
  <2>1. IF s[i].pc = "init" THEN Making(s, i) ELSE Dropping(lv, p, k, s, i)
    BY <1>1 DEF Activations
  <2>2. 1 .. i - 1 \subseteq DOMAIN z
    BY <1>1
  <2>3. \A j \in 1 .. i - 1 : j \in DOMAIN z
    BY <1>1
  <2>4. Held(p, s, i) => Held(p, z, i)
    BY <1>1, <1>2, <2>3 DEF Held
  <2>5. \A j \in GivesUp(z) : z[j] = s[j]
    BY <1>1 DEF GivesUp
  <2>6. s[i].pc = "init" => Making(z, i)
    BY <1>1, <2>1, <2>2 DEF Making
  <2>7. s[i].pc # "init" => Dropping(lv, p, k, z, i)
    BY <1>1, <1>2, <2>1, <2>4, <2>5 DEF Dropping
  <2>. QED  BY <1>1, <2>6, <2>7
<1>. QED  BY <1>3 DEF Activations

\* The object of the activation on top is freed, its cell gets the parameter.
LEMMA FreeKeeps ==
  ASSUME NEW lv, NEW p, NEW k, NEW s, NEW f, NEW t, Kept(lv, p, k, s, f, t),
         NEW n, n = Len(s), n > 0, s[n].pc # "init", p[s[n].obj] = Null,
         \A i \in DOMAIN s : i # n /\ s[i].pc = "dtor" => Destroying(p, s, i)
  PROVE  LET p1 == [p EXCEPT ![s[n].cell] = s[n].tmp]
         IN  Kept(lv \ {s[n].obj}, p1, k, Front(s), f, t) /\ Destructors(p1, Front(s))
<1> DEFINE c == s[n].cell
           x == s[n].obj
           u == s[n].tmp
           z == Front(s)
           p1 == [p EXCEPT ![c] = u]
           lv1 == lv \ {x}
<1>a. /\ c = s[n].cell /\ x = s[n].obj /\ u = s[n].tmp /\ z = Front(s)
      /\ p1 = [p EXCEPT ![c] = u] /\ lv1 = lv \ {x} /\ p[x] = Null
  OBVIOUS
<1>b. /\ lv \in SUBSET Obj /\ p \in [Cell -> Value] /\ k \in [Obj -> Nat] /\ s \in Seq(Frame)
      /\ f \in [Obj -> Nat] /\ t \in [Obj -> Nat]
      /\ Pointers(lv, p, s) /\ Activations(lv, p, k, s) /\ Lives(lv, k, s, t)
      /\ Exact(lv, p, k, s, f)
  BY DEF Kept
<1>c. Shortened(s, z)
  BY <1>b, Left
<1>. HIDE DEF c, x, u, z, p1, lv1
<1>. USE <1>a, <1>b, <1>c
<1>0. Unused(lv, p, k, s, n, c, x)
  BY LastUnused
<1>1. /\ n \in DOMAIN s /\ x \in lv /\ k[x] = 0 /\ p[c] = x
      /\ c \in Given(s)
      /\ \A i \in GivesUp(s) : s[i].obj = x => i = n
      /\ \A i \in GivesUp(s) : s[i].cell = c => i = n
      /\ \A d \in Cell \ Given(s) : p[d] # x
      /\ \A i \in DOMAIN s : s[i].tmp # x
      /\ x \notin Given(s)
  BY <1>0 DEF Unused
<1>2. /\ z \in Seq(Frame) /\ Len(z) = n - 1 /\ n \in Nat
      /\ DOMAIN s = DOMAIN z \cup {n} /\ n \notin DOMAIN z
      /\ DOMAIN z = 1 .. n - 1 /\ DOMAIN s = 1 .. n
      /\ \A i \in DOMAIN z : z[i] = s[i]
  BY DEF Shortened
<1>3. s[n] \in Frame /\ c \in Cell /\ u \in lv1 \cup {Null} /\ lv1 \in SUBSET Obj /\ x \in Obj
  <2>1. s[n] \in Frame
    BY <1>1
  <2>2. u \in lv \cup {Null} /\ u # x
    BY <1>1 DEF Pointers
  <2>. QED  BY <2>1, <2>2, <1>1 DEF Frame
<1>4. /\ p1 \in [Cell -> Value] /\ p1[c] = u
      /\ \A d \in Cell : d # c => p1[d] = p[d]
  BY <1>3 DEF Value
<1>5. GivesUp(z) = GivesUp(s) \ {n} /\ Given(z) = Given(s) \ {c}
  <2>1. GivesUp(z) = GivesUp(s) \ {n}
    BY <1>2 DEF GivesUp
  <2>2. \A i \in GivesUp(z) : z[i].cell = s[i].cell
    BY <1>2 DEF GivesUp
  <2>3. ASSUME NEW i \in GivesUp(z) PROVE z[i].cell \in Given(s) \ {c}
    <3>1. i \in GivesUp(s) /\ i # n /\ z[i].cell = s[i].cell
      BY <2>1, <2>2
    <3>2. s[i].cell # c
      BY <3>1, <1>1
    <3>. QED  BY <3>1, <3>2 DEF Given
  <2>4. ASSUME NEW i \in GivesUp(s), s[i].cell # c PROVE s[i].cell \in Given(z)
    <3>1. i \in GivesUp(z)
      BY <2>1, <2>4
    <3>2. z[i].cell = s[i].cell
      BY <3>1, <2>2
    <3>. QED  BY <3>1, <3>2 DEF Given
  <2>5. Given(z) \subseteq Given(s) \ {c}
    BY ONLY <2>3 DEF Given
  <2>6. Given(s) \ {c} \subseteq Given(z)
    BY ONLY <2>4 DEF Given
  <2>. QED  BY <2>1, <2>5, <2>6
<1>6. c # x
  BY <1>1
<1>7. Pointers(lv1, p1, z)
  <2>1. \A d \in Cell : p1[d] \in lv1 \cup {Null}
    <3>1. ASSUME NEW d \in Cell, d # c, p[d] = x PROVE FALSE
      <4>1. d \in Given(s)
        BY <1>1, <3>1
      <4>2. PICK i \in GivesUp(s) : s[i].cell = d
        BY <4>1 DEF Given
      <4>3. p[s[i].cell] = s[i].obj
        BY <4>2 DEF GivesUp, Activations, Dropping
      <4>. QED  BY <4>2, <4>3, <3>1, <1>1
    <3>2. \A d \in Cell : p[d] \in lv \cup {Null}
      BY DEF Pointers
    <3>. QED  BY <3>1, <3>2, <1>3, <1>4
  <2>2. \A o \in Obj \ lv1 : p1[o] = Null
    <3>1. c \notin Obj \ lv1
      <4>1. SUFFICES ASSUME c \in Obj \ lv PROVE FALSE
        BY <1>6
      <4>2. p[c] = Null
        BY <4>1 DEF Pointers
      <4>. QED  BY <4>2, <1>1, <1>3, RefAssumption
    <3>2. \A o \in Obj \ lv1 : p[o] = Null
      BY DEF Pointers
    <3>. QED  BY <3>1, <3>2, <1>4 DEF Cell
  <2>3. \A i \in DOMAIN z : z[i].tmp \in lv1 \cup {Null}
    BY <1>1, <1>2 DEF Pointers
  <2>. QED  BY <2>1, <2>2, <2>3 DEF Pointers
<1>8. Activations(lv1, p1, k, z)
  <2>1. Activations(lv, p, k, z)
    BY LeftActivations
  <2>2. ASSUME NEW i \in DOMAIN z, z[i].pc # "init"
        PROVE  Dropping(lv1, p1, k, z, i)
    <3>1. Dropping(lv, p, k, z, i)
      BY <2>1, <2>2 DEF Activations
    <3>2. z[i] \in Frame /\ i \in GivesUp(s) /\ i # n /\ z[i] = s[i]
      BY <1>2, <2>2 DEF GivesUp
    <3>3. z[i].cell # c /\ z[i].obj # x
      BY <1>1, <3>2
    <3>4. z[i].via \in Var \ Given(z) /\ p[z[i].via] = z[i].cell
            => p1[z[i].via] = z[i].cell
      <4>1. ASSUME z[i].via = c, z[i].cell \in Obj, p[c] = z[i].cell PROVE FALSE
        <5>1. z[i].cell \in Given(s)
          BY <3>2 DEF Given
        <5>. QED  BY <5>1, <4>1, <1>1
      <4>2. ASSUME z[i].via \in Var, p[z[i].via] = z[i].cell PROVE z[i].cell \in Obj
        <5>1. p[z[i].via] \in Value
          BY <4>2 DEF Cell
        <5>. QED  BY <5>1, <4>2, <3>2, RefAssumption DEF Value, Frame, Cell
      <4>. QED  BY <4>1, <4>2, <1>4 DEF Cell
    <3>5. Held(p1, z, i)
      BY <3>1, <3>4 DEF Dropping, Held
    <3>6. p1[z[i].cell] = z[i].obj
      BY <3>1, <3>2, <3>3, <1>4 DEF Dropping, Frame
    <3>. QED  BY <3>1, <3>3, <3>5, <3>6 DEF Dropping
  <2>. QED  BY <2>1, <2>2 DEF Activations
<1>9. Lives(lv1, k, z, t)
  <2>1. ASSUME NEW o \in lv1
        PROVE  (\E i \in GivesUp(z) : z[i].obj = o) <=> (\E i \in GivesUp(s) : s[i].obj = o)
    BY <1>2, <1>5 DEF GivesUp
  <2>. QED  BY <2>1 DEF Lives
<1>10. Exact(lv1, p1, k, z, f)
  <2>1. ASSUME NEW o \in lv1
        PROVE  k[o] = Uses(o, p1, z, f)
    <3>1. k[o] = Uses(o, p, s, f)
      BY DEF Exact
    <3>2. /\ IsFiniteSet(Refs(o, p, s)) /\ Cardinality(Refs(o, p, s)) \in Nat
          /\ IsFiniteSet(Params(o, s)) /\ Cardinality(Params(o, s)) \in Nat
      BY UsesNumber
    <3>3. o # Null /\ f[o] \in Nat
      BY <1>3, RefAssumption
    <3>4. Cardinality(Refs(o, p1, z)) = Cardinality(Refs(o, p, s)) + (IF u = o THEN 1 ELSE 0)
      <4>1. Refs(o, p1, z) = IF u = o THEN Refs(o, p, s) \cup {c} ELSE Refs(o, p, s)
        BY <1>1, <1>3, <1>4, <1>5 DEF Refs
      <4>2. c \notin Refs(o, p, s)
        BY <1>1 DEF Refs
      <4>3. Cardinality(Refs(o, p, s) \cup {c}) = Cardinality(Refs(o, p, s)) + 1
        BY <4>2, <3>2, FS_AddElement
      <4>. QED  BY <4>1, <4>3, <3>2
    <3>5. Cardinality(Params(o, z)) = Cardinality(Params(o, s)) - (IF u = o THEN 1 ELSE 0)
      <4>1. Params(o, z) = Params(o, s) \ {n}
        BY <1>2 DEF Params
      <4>2. n \in Params(o, s) <=> u = o
        BY <1>1 DEF Params
      <4>3. Cardinality(Params(o, s) \ {n})
              = IF n \in Params(o, s) THEN Cardinality(Params(o, s)) - 1
                ELSE Cardinality(Params(o, s))
        BY <3>2, FS_RemoveElement
      <4>. QED  BY <4>1, <4>2, <4>3, <3>2
    <3>. QED  BY <3>1, <3>2, <3>3, <3>4, <3>5 DEF Uses
  <2>. QED  BY <2>1 DEF Exact
<1>11. Destructors(p1, z)
  <2>1. ASSUME NEW i \in DOMAIN z, z[i].pc = "dtor"
        PROVE  Destroying(p1, z, i)
    <3>1. Destroying(p, s, i) /\ i # n /\ i \in DOMAIN s /\ z[i] = s[i]
      BY <2>1, <1>2
    <3>2. s[i + 1].pc # "init" /\ s[i + 1].cell = s[i].obj /\ s[i + 1].tmp = Null
      BY <3>1, <1>2 DEF Destroying
    <3>3. CASE i = n - 1
      <4>1. c = s[i].obj /\ u = Null /\ i = Len(z)
        BY <3>2, <3>3, <1>2
      <4>. QED  BY <4>1, <3>1, <1>4 DEF Destroying
    <3>4. CASE i # n - 1
      <4>1. i + 1 \in DOMAIN z /\ i # Len(z)
        BY <3>4, <1>2, <2>1
      <4>. QED  BY <4>1, <3>1, <3>2, <1>2 DEF Destroying
    <3>. QED  BY <3>3, <3>4
  <2>. QED  BY <2>1 DEF Destructors
<1>12. Kept(lv1, p1, k, z, f, t)
  BY <1>2, <1>3, <1>4, <1>7, <1>8, <1>9, <1>10 DEF Kept
<1>. QED  BY <1>11, <1>12 DEF c, x, u, z, p1, lv1

-----------------------------------------------------------------------------
(* What a constructor does. *)

\* An object that did not live gets its first reference, the parameter of the assignment.
LEMMA BeginKeeps ==
  ASSUME NEW lv, NEW p, NEW k, NEW s, NEW f, NEW t, Kept(lv, p, k, s, f, t),
         NEW v \in Var \ Given(s), \A j \in DOMAIN s : s[j].via # v,
         NEW o \in Obj \ lv,
         NEW fr \in Frame, fr.cell = v, fr.tmp = o, fr.obj = o, fr.pc = "init"
  PROVE  Kept(lv \cup {o}, p, [k EXCEPT ![o] = 1], Append(s, fr), [f EXCEPT ![o] = 0],
              [t EXCEPT ![o] = 0])
<1> DEFINE z == Append(s, fr)
           lv1 == lv \cup {o}
           k1 == [k EXCEPT ![o] = 1]
           f1 == [f EXCEPT ![o] = 0]
           t1 == [t EXCEPT ![o] = 0]
<1>a. /\ z = Append(s, fr) /\ lv1 = lv \cup {o} /\ k1 = [k EXCEPT ![o] = 1]
      /\ f1 = [f EXCEPT ![o] = 0] /\ t1 = [t EXCEPT ![o] = 0]
  OBVIOUS
<1>b. /\ lv \in SUBSET Obj /\ p \in [Cell -> Value] /\ k \in [Obj -> Nat] /\ s \in Seq(Frame)
      /\ f \in [Obj -> Nat] /\ t \in [Obj -> Nat]
      /\ Pointers(lv, p, s) /\ Activations(lv, p, k, s) /\ Lives(lv, k, s, t)
      /\ Exact(lv, p, k, s, f)
  BY DEF Kept
<1>. HIDE DEF z, lv1, k1, f1, t1
<1>. USE <1>a, <1>b
<1>1. /\ z \in Seq(Frame) /\ Len(z) = Len(s) + 1 /\ Len(s) \in Nat
      /\ DOMAIN z = DOMAIN s \cup {Len(s) + 1} /\ Len(s) + 1 \notin DOMAIN s
      /\ DOMAIN s = 1 .. Len(s)
      /\ \A j \in DOMAIN s : z[j] = s[j]
      /\ z[Len(s) + 1] = fr
  BY Entered
<1>2. /\ lv1 \subseteq Obj /\ k1 \in [Obj -> Nat] /\ f1 \in [Obj -> Nat] /\ t1 \in [Obj -> Nat]
      /\ k1[o] = 1 /\ f1[o] = 0 /\ t1[o] = 0
      /\ \A q \in lv : q # o /\ k1[q] = k[q] /\ f1[q] = f[q] /\ t1[q] = t[q]
  OBVIOUS
<1>3. Pointers(lv1, p, z)
  BY <1>1 DEF Pointers
<1>4. Activations(lv1, p, k1, s)
  BY <1>2 DEF Activations, Dropping
<1>5. Activations(lv1, p, k1, z)
  <2>1. ASSUME NEW i \in DOMAIN s
        PROVE  IF z[i].pc = "init" THEN Making(z, i) ELSE Dropping(lv1, p, k1, z, i)
    <3>1. lv1 \in SUBSET Obj /\ fr.obj \in lv1 /\ fr.pc = "init"
      BY <1>2
    <3>. QED  BY <1>4, <3>1, BelowKeeps
  <2>2. Making(z, Len(s) + 1)
    <3>1. 1 .. Len(s) + 1 - 1 = DOMAIN s
      BY <1>1
    <3>2. \A j \in DOMAIN s : s[j].pc # "init" => s[j].cell # v
      BY DEF Given, GivesUp
    <3>3. \A j \in 1 .. Len(s) + 1 - 1 :
            z[j].via # v /\ (z[j].pc # "init" => z[j].cell # v)
      BY <1>1, <3>1, <3>2
    <3>4. v \in Var
      OBVIOUS
    <3>. QED  BY <1>1, <3>3, <3>4 DEF Making
  <2>. QED  BY <1>1, <2>1, <2>2 DEF Activations
<1>6. GivesUp(z) = GivesUp(s) /\ Given(z) = Given(s)
  <2>1. GivesUp(z) = GivesUp(s)
    BY <1>1 DEF GivesUp
  <2>. QED  BY <2>1, <1>1 DEF Given, GivesUp
<1>7. Lives(lv1, k1, z, t1)
  <2>1. \A i \in GivesUp(s) : z[i].obj = s[i].obj /\ s[i].obj # o
    BY <1>1 DEF GivesUp, Activations, Dropping
  <2>2. ASSUME NEW q \in lv
        PROVE  IF \E i \in GivesUp(z) : z[i].obj = q THEN t1[q] = 1 ELSE k1[q] > 0 /\ t1[q] = 0
    <3>1. (\E i \in GivesUp(z) : z[i].obj = q) <=> (\E i \in GivesUp(s) : s[i].obj = q)
      BY <1>6, <2>1
    <3>2. k1[q] = k[q] /\ t1[q] = t[q]
      BY <1>2
    <3>. QED  BY <3>1, <3>2 DEF Lives
  <2>3. IF \E i \in GivesUp(z) : z[i].obj = o THEN t1[o] = 1 ELSE k1[o] > 0 /\ t1[o] = 0
    <3>1. ~ \E i \in GivesUp(z) : z[i].obj = o
      BY <1>6, <2>1
    <3>. QED  BY <1>2, <3>1
  <2>4. ASSUME NEW q \in lv1
        PROVE  IF \E i \in GivesUp(z) : z[i].obj = q THEN t1[q] = 1 ELSE k1[q] > 0 /\ t1[q] = 0
    <3>1. CASE q = o
      BY <3>1, <2>3, Zenon
    <3>2. CASE q # o
      <4>1. q \in lv
        BY <3>2
      <4>. QED  BY <4>1, <2>2, Zenon
    <3>. QED  BY <3>1, <3>2, Zenon
  <2>. QED  BY <2>4, Zenon DEF Lives
<1>8. \A q : Refs(q, p, z) = Refs(q, p, s)
  BY <1>6 DEF Refs
<1>9. Exact(lv1, p, k1, z, f1)
  <2>1. ASSUME NEW q \in lv
        PROVE  k1[q] = Uses(q, p, z, f1)
    <3>1. k[q] = Uses(q, p, s, f)
      BY DEF Exact
    <3>2. Params(q, z) = Params(q, s)
      BY <1>1 DEF Params
    <3>3. k1[q] = k[q] /\ f1[q] = f[q]
      BY <1>2
    <3>. QED  BY <3>1, <3>2, <3>3, <1>8 DEF Uses
  <2>2. k1[o] = Uses(o, p, z, f1)
    <3>1. Refs(o, p, z) = {}
      BY <1>8, RefAssumption DEF Refs, Pointers
    <3>2. Params(o, z) = {Len(s) + 1}
      BY <1>1, RefAssumption DEF Params, Pointers
    <3>3. Cardinality({Len(s) + 1}) = 1 /\ Cardinality({}) = 0
      BY FS_Singleton, FS_EmptySet
    <3>4. Uses(o, p, z, f1) = Cardinality({}) + Cardinality({Len(s) + 1}) + f1[o]
      BY <3>1, <3>2 DEF Uses
    <3>. QED  BY <1>2, <3>3, <3>4
  <2>. QED  BY <2>1, <2>2 DEF Exact
<1>10. Kept(lv1, p, k1, z, f1, t1)
  BY <1>1, <1>2, <1>3, <1>5, <1>7, <1>9 DEF Kept
<1>. QED  BY <1>10 DEF z, lv1, k1, f1, t1

-----------------------------------------------------------------------------
(* The statements of a program. *)

\* A destructor under the activation on top waits for it.
LEMMA DestructorsStay ==
  ASSUME NEW s \in Seq(Frame), NEW p, Destructors(p, s),
         Len(s) > 0 => s[Len(s)].pc # "dtor", NEW p1
  PROVE  /\ Destructors(p1, s)
         /\ \A fr \in Frame : fr.pc # "dtor" => Destructors(p1, Append(s, fr))
         /\ Len(s) > 0 /\ s[Len(s)].pc = "init" =>
              \A z : Shortened(s, z) => Destructors(p1, z)
<1>1. ASSUME NEW i \in DOMAIN s, s[i].pc = "dtor"
      PROVE  /\ i # Len(s) /\ i \in 1 .. Len(s) /\ Len(s) \in Nat /\ i + 1 \in DOMAIN s
             /\ s[i + 1].pc # "init" /\ s[i + 1].cell = s[i].obj /\ s[i + 1].tmp = Null
  <2>1. i \in 1 .. Len(s) /\ Len(s) \in Nat /\ i # Len(s)
    BY <1>1
  <2>2. i + 1 \in DOMAIN s
    BY <2>1
  <2>. QED  BY <1>1, <2>1, <2>2 DEF Destructors, Destroying
<1>2. Destructors(p1, s)
  BY <1>1 DEF Destructors, Destroying
<1>3. ASSUME NEW fr \in Frame, fr.pc # "dtor", NEW z, z = Append(s, fr)
      PROVE  Destructors(p1, z)
  <2>1. /\ DOMAIN z = DOMAIN s \cup {Len(s) + 1} /\ Len(z) = Len(s) + 1
        /\ \A i \in DOMAIN s : z[i] = s[i]
        /\ z[Len(s) + 1] = fr /\ Len(s) \in Nat /\ DOMAIN s = 1 .. Len(s)
    BY <1>3, Entered
  <2>2. ASSUME NEW i \in DOMAIN z, z[i].pc = "dtor" PROVE Destroying(p1, z, i)
    <3>1. i \in DOMAIN s /\ s[i].pc = "dtor" /\ z[i] = s[i]
      BY <1>3, <2>1, <2>2
    <3>2. i # Len(z)
      BY <3>1, <2>1, <1>1
    <3>. QED  BY <3>1, <3>2, <2>1, <1>1 DEF Destroying
  <2>. QED  BY <2>2 DEF Destructors
<1>4. ASSUME Len(s) > 0, s[Len(s)].pc = "init", NEW z, Shortened(s, z)
      PROVE  Destructors(p1, z)
  <2>1. /\ Len(z) = Len(s) - 1 /\ Len(s) \in Nat
        /\ DOMAIN z = 1 .. Len(s) - 1 /\ DOMAIN s = 1 .. Len(s)
        /\ \A i \in DOMAIN z : z[i] = s[i] /\ i \in DOMAIN s
    BY <1>4 DEF Shortened
  <2>2. ASSUME NEW i \in DOMAIN z, z[i].pc = "dtor" PROVE Destroying(p1, z, i)
    <3>1. i \in DOMAIN s /\ s[i].pc = "dtor" /\ z[i] = s[i]
      BY <2>1, <2>2
    <3>2. i + 1 # Len(s)
      BY <3>1, <1>1, <1>4
    <3>3. i # Len(z) /\ i + 1 \in DOMAIN z
      BY <3>2, <2>1
    <3>. QED  BY <3>1, <3>3, <2>1, <1>1 DEF Destroying
  <2>. QED  BY <2>2 DEF Destructors
<1>. QED  BY <1>2, <1>3, <1>4

\* An operator= keeps the invariant, whatever its call was.
LEMMA AssignKeeps ==
  ASSUME NEW c, NEW x, NEW count, NEW via \in Var \cup {Null}, NEW st,
         Calling(live, ptr, count, st, lost, terms, c, x),
         c \in Obj => \/ \E j \in DOMAIN st : st[j].obj = c
                      \/ via \in Var \ Given(st) /\ ptr[via] = c,
         Destructors([ptr EXCEPT ![c] = x], st),
         \A fr \in Frame : fr.pc # "dtor" => Destructors(ptr, Append(st, fr)),
         OperatorAssign(c, x, count, via, st)
  PROVE  RefInv' /\ UNCHANGED faulted
<1> DEFINE old == ptr[c]
           fr == [cell |-> c, tmp |-> x, obj |-> old, pc |-> "term", via |-> via, ops |-> 0]
<1>0. /\ live \subseteq Obj /\ ptr \in [Cell -> Value] /\ count \in [Obj -> Nat]
      /\ st \in Seq(Frame) /\ lost \in [Obj -> Nat] /\ terms \in [Obj -> Nat]
      /\ c \in Cell /\ x \in Value /\ old \in Value
  BY DEF Calling, Cell, Value
<1>a. ReleaseAndStore(c, x, count, via, st) /\ UNCHANGED faulted
  <2>1. c \in Var \cup live /\ old \in live \cup {Null} /\ x \in live \cup {Null}
    BY <1>0 DEF Calling, Pointers
  <2>2. ~ Freed({c, old, x})
    BY <2>1, RefAssumption DEF Freed
  <2>. QED  BY <2>2 DEF OperatorAssign
<1>1. CASE DropsLast(old, count)
  <2>1. /\ cnt' = [count EXCEPT ![old] = 0]
        /\ terms' = [terms EXCEPT ![old] = @ + 1]
        /\ stack' = Append(st, fr)
        /\ live' = live /\ ptr' = ptr /\ lost' = lost
    BY <1>1, <1>a DEF ReleaseAndStore, Terminate
  <2>2. old \in Obj /\ count[old] = 1
    BY <1>0, <1>1 DEF DropsLast, Value
  <2>3. fr \in Frame
    BY <1>0, <2>2, RefAssumption DEF Frame
  <2>4. fr.cell = c /\ fr.tmp = x /\ fr.obj = ptr[c] /\ fr.pc = "term" /\ fr.via = via
    OBVIOUS
  <2>. HIDE DEF fr
  <2>5. Destructors(ptr, Append(st, fr))
    BY <2>3, <2>4
  <2>6. Kept(live, ptr, [count EXCEPT ![ptr[c]] = 0], Append(st, fr), lost,
             [terms EXCEPT ![ptr[c]] = @ + 1])
    <3>1. c \in Obj => \/ \E j \in DOMAIN st : st[j].obj = c
                       \/ fr.via \in Var \ Given(st) /\ ptr[fr.via] = c
      BY <2>4
    <3>. QED  BY <2>2, <2>3, <2>4, <3>1, EnterKeeps
  <2>. QED  BY <1>a, <2>1, <2>5, <2>6 DEF RefInv
<1>2. CASE ~ DropsLast(old, count)
  <2>1. /\ ptr' = [ptr EXCEPT ![c] = x]
        /\ cnt' = Release(old, count)
        /\ stack' = st
        /\ live' = live /\ terms' = terms /\ lost' = lost
    BY <1>2, <1>a DEF ReleaseAndStore
  <2>2. old # Null => count[old] > 0 /\ count[old] # 1
    <3>1. old # Null => old \in Obj
      BY <1>0 DEF Value
    <3>2. old # Null => count[old] > 0
      BY <3>1, HeldIsUsed
    <3>. QED  BY <1>2, <3>2 DEF DropsLast
  <2>3. Drops(count, Release(old, count), lost, lost, old)
    <3>. HIDE DEF old
    <3>. QED  BY <1>0, <2>2, ReleaseCounts
  <2>4. Kept(live, [ptr EXCEPT ![c] = x], Release(old, count), st, lost, terms)
    BY <2>3, StoreKeeps
  <2>. QED  BY <1>a, <2>1, <2>4 DEF RefInv
<1>. QED  BY <1>1, <1>2

\* The statement counter of the handler on top tells nothing apart.
LEMMA CountedAlike ==
  ASSUME stack \in Seq(Frame), CanExecute
  PROVE  /\ Counted \in Seq(Frame) /\ Alike(stack, Counted)
         /\ \A i \in DOMAIN stack : Counted[i].pc = stack[i].pc
<1>1. CASE stack = <<>>
  BY <1>1 DEF Counted, Alike
<1>2. CASE stack # <<>>
  <2> DEFINE n == Len(stack)
             fr == [stack[n] EXCEPT !.ops = @ + 1]
  <2>1. stack \in Seq(Frame) /\ n \in DOMAIN stack /\ stack[n] \in Frame /\ stack[n].ops < HandlerOps
    BY <1>2 DEF CanExecute, InHandler, Top
  <2>2. HandlerOps \in Nat
    BY RefAssumption
  <2>3. fr \in Frame
    <3>1. stack[n].ops + 1 \in 0 .. HandlerOps
      BY <2>1, <2>2 DEF Frame
    <3>. QED  BY <2>1, <3>1 DEF Frame
  <2>4. /\ fr.cell = stack[n].cell /\ fr.tmp = stack[n].tmp /\ fr.obj = stack[n].obj
        /\ fr.via = stack[n].via /\ fr.pc = stack[n].pc
    BY <2>1 DEF Frame
  <2>5. Counted = [stack EXCEPT ![n] = fr]
    BY <1>2 DEF Counted
  <2>. HIDE DEF fr
  <2>6. Counted \in Seq(Frame) /\ Len(Counted) = n
    BY <2>1, <2>3, <2>5
  <2>7. \A i \in DOMAIN stack : Counted[i] = IF i = n THEN fr ELSE stack[i]
    BY <2>1, <2>5
  <2>. QED  BY <2>4, <2>6, <2>7 DEF Alike
<1>. QED  BY <1>1, <1>2

\* A cell that is being released holds the object that is given up.
LEMMA GivenHoldsDying ==
  ASSUME RefInv, NEW c \in Releasing
  PROVE  ptr[c] \in Dying /\ ptr[c] # Null
<1>1. PICK i \in Releases : c = stack[i].cell
  BY DEF Releasing
<1>2. i \in DOMAIN stack /\ stack[i].pc # "init"
  BY DEF Releases
<1>3. ptr[stack[i].cell] = stack[i].obj /\ stack[i].obj \in live /\ live \subseteq Obj
  BY <1>2 DEF RefInv, Kept, Activations, Dropping
<1>. QED  BY <1>1, <1>3, RefAssumption DEF Dying

\* What a statement assigns lives and is in use, unless it is dying.
LEMMA SourcesLive ==
  ASSUME RefInv, NEW x \in Sources, x \notin Dying
  PROVE  x \in live \cup {Null} /\ (x # Null => cnt[x] > 0)
<1>1. /\ live \subseteq Obj /\ ptr \in [Cell -> Value] /\ cnt \in [Obj -> Nat]
      /\ stack \in Seq(Frame) /\ lost \in [Obj -> Nat]
  BY DEF RefInv, Kept
<1>2. Given(stack) = Releasing
  BY DEF Given, GivesUp, Releasing, Releases
<1>3. CASE x = Null
  BY <1>3
<1>4. ASSUME NEW w \in Cell, x = ptr[w], x # Null
      PROVE  x \in live /\ Uses(x, ptr, stack, lost) > 0
  <2>1. w \in Cell \ Given(stack)
    BY <1>2, <1>4, GivenHoldsDying
  <2>2. x \in live
    BY <1>4, <2>1 DEF RefInv, Kept, Pointers
  <2>. QED  BY <1>1, <1>4, <2>1, <2>2, InUse
<1>5. ASSUME InHandler, x = Top.obj
      PROVE  x \in live /\ Uses(x, ptr, stack, lost) > 0
  <2>1. Len(stack) \in DOMAIN stack /\ Top = stack[Len(stack)]
    BY <1>1, <1>5 DEF InHandler, Top
  <2>a. stack[Len(stack)].pc = "init"
    BY <1>5, <2>1 DEF Dying, Releases
  <2>2. stack[Len(stack)].tmp = x
    BY <1>5, <2>1, <2>a DEF RefInv, Kept, Activations, Making
  <2>3. x \in Obj
    <3>1. stack[Len(stack)] \in Frame
      BY <1>1, <2>1
    <3>. QED  BY <1>5, <2>1, <3>1 DEF Frame
  <2>4. x \in live
    BY <2>1, <2>2, <2>3, RefAssumption DEF RefInv, Kept, Pointers
  <2>. QED  BY <1>1, <2>1, <2>2, <2>3, <2>4, InUse
<1>6. x # Null => x \in live /\ Uses(x, ptr, stack, lost) > 0
  <2>1. Var \subseteq Cell /\ live \subseteq Cell
    BY <1>1 DEF Cell
  <2>2. \/ x = Null \/ \E w \in Cell : x = ptr[w]
        \/ InHandler /\ x = Top.obj
    BY <2>1 DEF Sources
  <2>. QED  BY <1>4, <1>5, <2>2
<1>7. x # Null => cnt[x] = Uses(x, ptr, stack, lost)
  BY <1>6 DEF RefInv, Kept, Exact
<1>. QED  BY <1>3, <1>6, <1>7

\* A statement that leaves alone what is going on under it.
LEMMA NothingStrays ==
  ASSUME RefInv, NEW x, NEW c, Strays(c, x) = {}
  PROVE  x \notin Dying /\ c \notin Releasing /\ \A i \in DOMAIN stack : stack[i].via # c
<1>1. x \notin Dying
  BY DEF Strays
<1>2. c \notin Releasing
  <2>1. c \in Releasing => {x, ptr[c]} \ {Null} = {}
    BY DEF Strays
  <2>2. c \in Releasing => ptr[c] # Null
    BY GivenHoldsDying
  <2>. QED  BY <2>1, <2>2
<1>3. ASSUME NEW i \in DOMAIN stack, stack[i].via = c PROVE FALSE
  <2>1. stack[i].cell \in Strays(c, x)
    BY <1>3 DEF Strays
  <2>. QED  BY <2>1
<1>. QED  BY <1>1, <1>2, <1>3

\* A statement calls operator=.
LEMMA StatementCalls ==
  ASSUME RefInv, CanExecute, NEW x \in Sources, NEW c \in Var \cup live, Strays(c, x) = {}
  PROVE  Calling(live, ptr, AddRef(x, cnt), Counted, lost, terms, c, x)
<1>1. /\ live \subseteq Obj /\ ptr \in [Cell -> Value] /\ cnt \in [Obj -> Nat]
      /\ stack \in Seq(Frame) /\ lost \in [Obj -> Nat] /\ terms \in [Obj -> Nat]
      /\ Null \notin Obj /\ Null \notin Var
  BY RefAssumption DEF RefInv, Kept
<1>a. x \notin Dying /\ c \notin Releasing /\ \A i \in DOMAIN stack : stack[i].via # c
  BY NothingStrays
<1>2. x \in live \cup {Null} /\ (x # Null => cnt[x] > 0)
  BY <1>a, SourcesLive
<1>3. /\ AddRef(x, cnt) \in [Obj -> Nat]
      /\ \A o \in Obj : AddRef(x, cnt)[o] = cnt[o] + (IF x = o THEN 1 ELSE 0)
  BY <1>1, <1>2 DEF AddRef
<1>4. Counted \in Seq(Frame) /\ Alike(stack, Counted)
  <2>. QED  BY <1>1, CountedAlike
<1>5. Pointers(live, ptr, Counted)
  BY <1>1, <1>4, AlikeKeeps DEF RefInv, Kept
<1>6. Activations(live, ptr, AddRef(x, cnt), Counted)
  <2>1. ASSUME NEW i \in DOMAIN stack, Dropping(live, ptr, cnt, stack, i)
        PROVE  Dropping(live, ptr, AddRef(x, cnt), stack, i)
    <3>1. stack[i].obj # x
      BY <1>1, <1>2, <2>1 DEF Dropping
    <3>. QED  BY <1>1, <1>3, <2>1, <3>1 DEF Dropping
  <2>2. Activations(live, ptr, AddRef(x, cnt), stack)
    BY <2>1 DEF RefInv, Kept, Activations
  <2>. QED  BY <1>1, <1>4, <2>2, AlikeKeeps
<1>7. Lives(live, AddRef(x, cnt), Counted, terms)
  <2>1. \A o \in live : cnt[o] > 0 => AddRef(x, cnt)[o] > 0
    BY <1>1, <1>3
  <2>2. Lives(live, AddRef(x, cnt), stack, terms)
    BY <2>1 DEF RefInv, Kept, Lives
  <2>. QED  BY <1>1, <1>4, <2>2, AlikeKeeps
<1>8. \A o \in live : AddRef(x, cnt)[o] = Uses(o, ptr, Counted, lost) + (IF x = o THEN 1 ELSE 0)
  <2>1. \A o \in live : cnt[o] = Uses(o, ptr, stack, lost)
    BY DEF RefInv, Kept, Exact
  <2>2. \A o : Uses(o, ptr, Counted, lost) = Uses(o, ptr, stack, lost)
    <3>1. \A o : Refs(o, ptr, Counted) = Refs(o, ptr, stack)
      BY <1>1, <1>4, AlikeSets
    <3>2. \A o : Params(o, Counted) = Params(o, stack)
      BY <1>1, <1>4, AlikeSets
    <3>. QED  BY <3>1, <3>2 DEF Uses
  <2>3. \A o \in live : AddRef(x, cnt)[o] = cnt[o] + (IF x = o THEN 1 ELSE 0)
    BY <1>1, <1>3
  <2>. QED  BY <2>1, <2>2, <2>3
<1>9. c \notin Given(Counted)
  <2>1. Given(Counted) = Given(stack)
    BY <1>1, <1>4, AlikeSets
  <2>. QED  BY <1>a, <2>1 DEF Given, GivesUp, Releasing, Releases
<1>10. \A j \in DOMAIN Counted : Counted[j].via # c
  <2>1. DOMAIN Counted = DOMAIN stack
    BY <1>1, <1>4, AlikeSets
  <2>. QED  BY <2>1, <1>a, <1>4 DEF Alike
<1>. QED
  BY <1>1, <1>2, <1>3, <1>4, <1>5, <1>6, <1>7, <1>8, <1>9, <1>10 DEF Calling

\* A statement is executed by Main or by a handler, never by a destructor.
LEMMA NoDestructorOnTop ==
  ASSUME RefInv, CanExecute
  PROVE  /\ Len(stack) > 0 => stack[Len(stack)].pc # "dtor"
         /\ Len(Counted) > 0 => Counted[Len(Counted)].pc # "dtor"
         /\ Counted \in Seq(Frame) /\ Alike(stack, Counted) /\ Destructors(ptr, Counted)
<1>1. stack \in Seq(Frame)
  BY DEF RefInv, Kept
<1>2. Len(stack) > 0 => stack[Len(stack)].pc # "dtor"
  BY <1>1 DEF CanExecute, InHandler, Top
<1>3. /\ Counted \in Seq(Frame) /\ Alike(stack, Counted)
      /\ \A i \in DOMAIN stack : Counted[i].pc = stack[i].pc
  BY <1>1, CountedAlike
<1>4. Len(Counted) > 0 => Counted[Len(Counted)].pc # "dtor"
  <2>1. Len(Counted) = Len(stack)
    BY <1>3 DEF Alike
  <2>2. Len(stack) > 0 => Len(stack) \in DOMAIN stack
    BY <1>1
  <2>. QED  BY <1>2, <1>3, <2>1, <2>2
<1>5. Destructors(ptr, Counted)
  <2>1. DOMAIN Counted = DOMAIN stack /\ Len(Counted) = Len(stack)
    BY <1>1, <1>3, AlikeSets DEF Alike
  <2>2. ASSUME NEW i \in DOMAIN stack, stack[i].pc = "dtor"
        PROVE  Destroying(ptr, Counted, i)
    <3>1. Destroying(ptr, stack, i)
      BY <2>2 DEF RefInv, Destructors
    <3>2. i # Len(stack) => i + 1 \in DOMAIN stack
      BY <1>1
    <3>. QED  BY <2>1, <2>2, <3>1, <3>2, <1>3 DEF Destroying, Alike
  <2>. QED  BY <2>1, <2>2, <1>3 DEF Destructors
<1>. QED  BY <1>2, <1>3, <1>4, <1>5

\* A statement that calls operator= keeps the invariant.
LEMMA StatementKeeps ==
  ASSUME RefInv, CanExecute, NEW x \in Sources, NEW c \in Var \cup live, Strays(c, x) = {},
         NEW via \in Var \cup {Null},
         c \in Obj => \/ \E j \in DOMAIN stack : stack[j].obj = c
                      \/ via \in Var /\ ptr[via] = c,
         OperatorAssign(c, x, AddRef(x, cnt), via, Counted)
  PROVE  RefInv' /\ UNCHANGED faulted
<1>1. Calling(live, ptr, AddRef(x, cnt), Counted, lost, terms, c, x)
  BY StatementCalls
<1>2. /\ Len(Counted) > 0 => Counted[Len(Counted)].pc # "dtor"
      /\ Counted \in Seq(Frame) /\ Alike(stack, Counted) /\ Destructors(ptr, Counted)
  BY NoDestructorOnTop
<1>3. Destructors([ptr EXCEPT ![c] = x], Counted)
  BY <1>2, DestructorsStay
<1>4. \A fr \in Frame : fr.pc # "dtor" => Destructors(ptr, Append(Counted, fr))
  BY <1>2, DestructorsStay
<1>5. c \in Obj => \/ \E j \in DOMAIN Counted : Counted[j].obj = c
                   \/ via \in Var \ Given(Counted) /\ ptr[via] = c
  <2>1. stack \in Seq(Frame)
    BY DEF RefInv, Kept
  <2>2. Given(Counted) = Releasing
    BY <1>2, <2>1, AlikeSets DEF Given, GivesUp, Releasing, Releases
  <2>3. DOMAIN Counted = DOMAIN stack
    BY <1>2, <2>1, AlikeSets
  <2>4. ASSUME NEW j \in DOMAIN stack, stack[j].obj = c
        PROVE  j \in DOMAIN Counted /\ Counted[j].obj = c
    BY <1>2, <2>3, <2>4 DEF Alike
  <2>5. ASSUME via \in Releasing, ptr[via] = c
        PROVE  \E j \in DOMAIN stack : stack[j].obj = c
    BY <2>5, GivenHoldsDying DEF Dying, Releases
  <2>. QED  BY <2>2, <2>4, <2>5
<1>. QED  BY <1>1, <1>3, <1>4, <1>5, AssignKeeps

\* The statement that assigns x to c strays.
LEMMA AssignsWithoutStraying ==
  ASSUME NEW c, NEW via, Assign(c, via), strayed' = {}
  PROVE  \E x \in Sources : /\ OperatorAssign(c, x, AddRef(x, cnt), via, Counted)
                            /\ Strays(c, x) = {}
  BY DEF Assign

LEMMA AssignVarKeeps ==
  ASSUME RefInv, NEW v \in Var, AssignVar(v), strayed' = {}
  PROVE  RefInv' /\ UNCHANGED faulted
<1>1. CanExecute /\ Assign(v, Null)
  BY DEF AssignVar
<1>2. PICK x \in Sources : /\ OperatorAssign(v, x, AddRef(x, cnt), Null, Counted)
                          /\ Strays(v, x) = {}
  BY <1>1, AssignsWithoutStraying
<1>3. v \notin Obj
  BY RefAssumption
<1>. QED  BY <1>1, <1>2, <1>3, StatementKeeps

LEMMA AssignFieldKeeps ==
  ASSUME RefInv, NEW w \in Var, AssignField(w), strayed' = {}
  PROVE  RefInv' /\ UNCHANGED faulted
<1>1. ptr[w] # Null /\ CanExecute /\ Assign(ptr[w], w)
  BY DEF AssignField
<1>2. PICK x \in Sources : /\ OperatorAssign(ptr[w], x, AddRef(x, cnt), w, Counted)
                          /\ Strays(ptr[w], x) = {}
  BY <1>1, AssignsWithoutStraying
<1>3. ptr[w] \in live
  BY <1>1 DEF RefInv, Kept, Pointers, Cell
<1>. QED  BY <1>1, <1>2, <1>3, StatementKeeps

LEMMA AssignOwnFieldKeeps ==
  ASSUME RefInv, AssignOwnField, strayed' = {}
  PROVE  RefInv' /\ UNCHANGED faulted
<1>1. InHandler /\ CanExecute /\ Assign(Top.obj, Null)
  BY DEF AssignOwnField
<1>2. PICK x \in Sources : /\ OperatorAssign(Top.obj, x, AddRef(x, cnt), Null, Counted)
                          /\ Strays(Top.obj, x) = {}
  BY <1>1, AssignsWithoutStraying
<1>3. stack \in Seq(Frame) /\ Len(stack) > 0 /\ Len(stack) \in DOMAIN stack
  <2>1. stack \in Seq(Frame) /\ stack # <<>>
    BY <1>1 DEF RefInv, Kept, InHandler
  <2>. QED  BY <2>1
<1>4. Top = stack[Len(stack)] /\ Top \in Frame /\ Top.obj \in Obj
  <2>1. Top = stack[Len(stack)]
    BY DEF Top
  <2>2. Top \in Frame
    BY <1>3, <2>1
  <2>. QED  BY <2>1, <2>2 DEF Frame
<1>5. Top.obj \in live
  <2>1. Top.pc = "init" => Top.tmp = Top.obj
    BY <1>3, <1>4 DEF RefInv, Kept, Activations, Making
  <2>2. Top.pc # "init" => Top.obj \in live
    BY <1>3, <1>4 DEF RefInv, Kept, Activations, Dropping
  <2>3. Top.tmp \in live \cup {Null}
    BY <1>3, <1>4 DEF RefInv, Kept, Pointers
  <2>. QED  BY <1>4, <2>1, <2>2, <2>3, RefAssumption
<1>. QED  BY <1>1, <1>2, <1>3, <1>4, <1>5, StatementKeeps

LEMMA NewObjectKeeps ==
  ASSUME RefInv, NEW v \in Var, NewObject(v), strayed' = {}
  PROVE  RefInv' /\ UNCHANGED faulted
<1>2. PICK o \in Obj \ live :
          /\ live' = live \cup {o}
          /\ cnt' = [cnt EXCEPT ![o] = 1]
          /\ terms' = [terms EXCEPT ![o] = 0]
          /\ lost' = [lost EXCEPT ![o] = 0]
          /\ stack' = Append(Counted, [cell |-> v, tmp |-> o, obj |-> o,
                                       pc |-> "init", via |-> Null, ops |-> 0])
          /\ Strays(v, o) = {}
          /\ ptr' = ptr /\ faulted' = faulted
  BY DEF NewObject
<1>1. /\ CanExecute /\ v \notin Releasing
      /\ \A i \in DOMAIN stack : stack[i].via # v
  BY <1>2, NothingStrays DEF NewObject
<1> DEFINE fr == [cell |-> v, tmp |-> o, obj |-> o, pc |-> "init", via |-> Null, ops |-> 0]
<1>3. fr \in Frame
  BY RefAssumption DEF Frame, Cell, Value
<1>4. fr.cell = v /\ fr.tmp = o /\ fr.obj = o /\ fr.pc = "init"
  OBVIOUS
<1>5. /\ Len(Counted) > 0 => Counted[Len(Counted)].pc # "dtor"
      /\ Counted \in Seq(Frame) /\ Alike(stack, Counted) /\ Destructors(ptr, Counted)
  BY <1>1, NoDestructorOnTop
<1>6. stack \in Seq(Frame)
  BY DEF RefInv, Kept
<1>7. Kept(live, ptr, cnt, Counted, lost, terms)
  <2>1. \A q : Uses(q, ptr, Counted, lost) = Uses(q, ptr, stack, lost)
    BY <1>5, <1>6, AlikeSets DEF Uses
  <2>2. Exact(live, ptr, cnt, Counted, lost)
    BY <2>1 DEF RefInv, Kept, Exact
  <2>3. /\ Pointers(live, ptr, Counted) /\ Activations(live, ptr, cnt, Counted)
        /\ Lives(live, cnt, Counted, terms)
    BY <1>5, <1>6, AlikeKeeps DEF RefInv, Kept
  <2>. QED  BY <1>5, <2>2, <2>3 DEF RefInv, Kept
<1>8. v \in Var \ Given(Counted) /\ \A j \in DOMAIN Counted : Counted[j].via # v
  <2>1. Given(Counted) = Releasing /\ DOMAIN Counted = DOMAIN stack
    BY <1>5, <1>6, AlikeSets DEF Given, GivesUp, Releasing, Releases
  <2>. QED  BY <1>1, <1>5, <2>1 DEF Alike
<1>. HIDE DEF fr
<1>9. Kept(live \cup {o}, ptr, [cnt EXCEPT ![o] = 1], Append(Counted, fr), [lost EXCEPT ![o] = 0],
           [terms EXCEPT ![o] = 0])
  BY <1>3, <1>4, <1>7, <1>8, BeginKeeps
<1>10. Destructors(ptr, Append(Counted, fr))
  BY <1>3, <1>4, <1>5, DestructorsStay
<1>11. stack' = Append(Counted, fr)
  BY <1>2 DEF fr
<1>. QED  BY <1>2, <1>9, <1>10, <1>11 DEF RefInv

-----------------------------------------------------------------------------
(* The returns. *)

LEMMA InitializeReturnsKeeps ==
  ASSUME RefInv, InitializeReturns
  PROVE  RefInv' /\ UNCHANGED faulted
<1> DEFINE n == Len(stack)
           z == Front(stack)
<1>1. stack \in Seq(Frame) /\ n > 0 /\ n \in Nat /\ n \in DOMAIN stack
  <2>1. stack \in Seq(Frame) /\ stack # <<>>
    BY DEF RefInv, Kept, InitializeReturns
  <2>. QED  BY <2>1
<1>2. Top = stack[n] /\ stack[n].pc = "init"
  BY DEF Top, InitializeReturns
<1>3. OperatorAssign(Top.cell, Top.tmp, cnt, Null, z)
  BY DEF InitializeReturns
<1>4. Shortened(stack, z)
  BY <1>1, Left
<1>. HIDE DEF z
<1>5. /\ z \in Seq(Frame) /\ Len(z) = n - 1
      /\ DOMAIN stack = DOMAIN z \cup {n} /\ n \notin DOMAIN z
      /\ DOMAIN z = 1 .. n - 1
      /\ \A i \in DOMAIN z : z[i] = stack[i]
  BY <1>4 DEF Shortened
<1>6. /\ Top.cell \in Var /\ Top.tmp \in live \cup {Null}
      /\ \A j \in DOMAIN z : z[j].via # Top.cell /\ (z[j].pc # "init" => z[j].cell # Top.cell)
  <2>1. Making(stack, n)
    BY <1>1, <1>2 DEF RefInv, Kept, Activations
  <2>2. stack[n].tmp \in live \cup {Null}
    BY <1>1 DEF RefInv, Kept, Pointers
  <2>. QED  BY <1>2, <1>5, <2>1, <2>2 DEF Making
<1>7. GivesUp(z) = GivesUp(stack) /\ Given(z) = Given(stack)
  <2>1. GivesUp(z) = GivesUp(stack)
    BY <1>2, <1>5 DEF GivesUp
  <2>2. \A i \in GivesUp(z) : z[i].cell = stack[i].cell
    BY <1>5 DEF GivesUp
  <2>. QED  BY <2>1, <2>2 DEF Given
<1>8. \A o \in live : cnt[o] = Uses(o, ptr, z, lost) + (IF Top.tmp = o THEN 1 ELSE 0)
  <2>1. SUFFICES ASSUME NEW o \in live
                 PROVE  cnt[o] = Uses(o, ptr, z, lost) + (IF Top.tmp = o THEN 1 ELSE 0)
    OBVIOUS
  <2>2. ptr \in [Cell -> Value] /\ lost[o] \in Nat
    BY DEF RefInv, Kept
  <2>3. /\ Cardinality(Refs(o, ptr, stack)) \in Nat
        /\ IsFiniteSet(Params(o, stack)) /\ Cardinality(Params(o, stack)) \in Nat
    BY <1>1, <2>2, UsesNumber
  <2>4. cnt[o] = Cardinality(Refs(o, ptr, stack)) + Cardinality(Params(o, stack)) + lost[o]
    BY DEF RefInv, Kept, Exact, Uses
  <2>5. Refs(o, ptr, z) = Refs(o, ptr, stack)
    BY <1>7 DEF Refs
  <2>6. Params(o, z) = Params(o, stack) \ {n}
    BY <1>5 DEF Params
  <2>7. n \in Params(o, stack) <=> Top.tmp = o
    BY <1>1, <1>2 DEF Params
  <2>8. Cardinality(Params(o, stack) \ {n})
          = IF n \in Params(o, stack) THEN Cardinality(Params(o, stack)) - 1
            ELSE Cardinality(Params(o, stack))
    BY <2>3, FS_RemoveElement
  <2>. QED  BY <2>2, <2>3, <2>4, <2>5, <2>6, <2>7, <2>8 DEF Uses
<1>9. Top.cell \notin Given(z)
  BY <1>6 DEF Given, GivesUp
<1>10. Lives(live, cnt, z, terms)
  <2>1. \A i \in GivesUp(z) : z[i].obj = stack[i].obj
    BY <1>5 DEF GivesUp
  <2>2. Lives(live, cnt, stack, terms)
    BY DEF RefInv, Kept
  <2>. QED  BY <1>7, <2>1, <2>2 DEF Lives
<1>11. Pointers(live, ptr, z)
  BY <1>5 DEF RefInv, Kept, Pointers
<1>12. Activations(live, ptr, cnt, z)
  BY <1>1, <1>4, LeftActivations DEF RefInv, Kept
<1>13. Calling(live, ptr, cnt, z, lost, terms, Top.cell, Top.tmp)
  BY <1>5, <1>6, <1>8, <1>9, <1>10, <1>11, <1>12 DEF RefInv, Kept, Calling
<1>14. \A p1 : Destructors(p1, z)
  <2>1. Destructors(ptr, stack) /\ stack[Len(stack)].pc # "dtor"
    BY <1>2 DEF RefInv
  <2>. QED  BY <1>1, <1>2, <1>4, <2>1, DestructorsStay
<1>15. Len(z) > 0 => z[Len(z)].pc # "dtor"
  <2>1. SUFFICES ASSUME Len(z) > 0, z[Len(z)].pc = "dtor" PROVE FALSE
    OBVIOUS
  <2>2. n - 1 \in DOMAIN z /\ stack[n - 1].pc = "dtor" /\ n - 1 # n /\ n - 1 + 1 = n
    BY <1>1, <1>5, <2>1
  <2>3. Destroying(ptr, stack, n - 1)
    BY <1>5, <2>2 DEF RefInv, Destructors
  <2>. QED  BY <1>2, <2>2, <2>3 DEF Destroying
<1>16. \A fr \in Frame : fr.pc # "dtor" => Destructors(ptr, Append(z, fr))
  BY <1>5, <1>14, <1>15, DestructorsStay
<1>17. Top.cell \notin Obj /\ Null \in Var \cup {Null}
  BY <1>6, RefAssumption
<1>. QED  BY <1>3, <1>13, <1>14, <1>16, <1>17, AssignKeeps

\* The object that an activation on top gives up, and what is under it.
LEMMA TopDrops ==
  ASSUME RefInv, stack # <<>>, Top.pc # "init"
  PROVE  /\ stack \in Seq(Frame) /\ Len(stack) > 0 /\ Len(stack) \in DOMAIN stack
         /\ Top = stack[Len(stack)] /\ Top \in Frame
         /\ Unused(live, ptr, cnt, stack, Len(stack), Top.cell, Top.obj)
<1>1. stack \in Seq(Frame) /\ Len(stack) > 0 /\ Len(stack) \in DOMAIN stack
  <2>1. stack \in Seq(Frame)
    BY DEF RefInv, Kept
  <2>. QED  BY <2>1
<1>2. Top = stack[Len(stack)]
  BY DEF Top
<1>3. Top \in Frame
  BY <1>1, <1>2
<1>4. Unused(live, ptr, cnt, stack, Len(stack), Top.cell, Top.obj)
  BY <1>1, <1>2, LastUnused DEF RefInv, Kept
<1>. QED  BY <1>1, <1>2, <1>3, <1>4

LEMMA DestructorReturnsKeeps ==
  ASSUME RefInv, DestructorReturns
  PROVE  RefInv' /\ UNCHANGED faulted
<1>0. stack # <<>> /\ Top.pc = "dtor"
  BY DEF DestructorReturns
<1>2. /\ stack \in Seq(Frame) /\ Len(stack) > 0 /\ Len(stack) \in DOMAIN stack
      /\ Top = stack[Len(stack)] /\ Top \in Frame
      /\ Unused(live, ptr, cnt, stack, Len(stack), Top.cell, Top.obj)
  BY <1>0, TopDrops
<1>1. /\ stack # <<>> /\ Top.pc = "dtor" /\ FreeAndStore(Top.obj)
      /\ UNCHANGED <<cnt, terms, lost, faulted>>
  <2>1. Top.tmp \in live \cup {Null}
    BY <1>2 DEF RefInv, Kept, Pointers
  <2>2. ~ Freed({Top.tmp})
    BY <2>1, RefAssumption DEF Freed
  <2>. QED  BY <1>0, <2>2 DEF DestructorReturns
<1>3. ptr[Top.obj] = Null
  BY <1>1, <1>2 DEF RefInv, Destructors, Destroying
<1> DEFINE p1 == [ptr EXCEPT ![Top.cell] = Top.tmp]
<1>4. Kept(live \ {Top.obj}, p1, cnt, Front(stack), lost, terms) /\ Destructors(p1, Front(stack))
  <2>1. \A i \in DOMAIN stack : i # Len(stack) /\ stack[i].pc = "dtor" => Destroying(ptr, stack, i)
    BY DEF RefInv, Destructors
  <2>2. stack[Len(stack)].pc # "init"
    BY <1>1, <1>2
  <2>. QED  BY <1>2, <1>3, <2>1, <2>2, FreeKeeps DEF RefInv
<1>5. ptr' = p1
  <2>1. ptr \in [Cell -> Value] /\ Top.obj \in Cell
    BY <1>2 DEF RefInv, Kept, Frame, Cell
  <2>2. Top.cell \in Cell
    BY <1>2 DEF Frame
  <2>3. ptr' = [d \in Cell |-> IF d = Top.cell THEN Top.tmp ELSE IF d = Top.obj THEN Null ELSE ptr[d]]
    BY <1>1 DEF FreeAndStore
  <2>. QED  BY <1>3, <2>1, <2>2, <2>3
<1>. QED  BY <1>1, <1>4, <1>5 DEF RefInv, FreeAndStore

\* The field of the object on top can be overwritten with Nothing.
LEMMA ClearingCalls ==
  ASSUME RefInv, stack # <<>>, Top.pc # "init", NEW st \in Seq(Frame), Alike(stack, st)
  PROVE  Calling(live, ptr, cnt, st, lost, terms, Top.obj, Null)
<1>1. /\ stack \in Seq(Frame) /\ Len(stack) > 0 /\ Len(stack) \in DOMAIN stack
      /\ Top = stack[Len(stack)] /\ Top \in Frame
      /\ Unused(live, ptr, cnt, stack, Len(stack), Top.cell, Top.obj)
  BY TopDrops
<1>2. Top.obj \in live /\ Top.obj \notin Given(stack)
  BY <1>1 DEF Unused
<1>3. /\ Pointers(live, ptr, st) /\ Activations(live, ptr, cnt, st) /\ Lives(live, cnt, st, terms)
  BY <1>1, AlikeKeeps DEF RefInv, Kept
<1>4. \A o \in live : cnt[o] = Uses(o, ptr, st, lost) + (IF Null = o THEN 1 ELSE 0)
  <2>1. SUFFICES ASSUME NEW o \in live
                 PROVE  cnt[o] = Uses(o, ptr, st, lost) + (IF Null = o THEN 1 ELSE 0)
    OBVIOUS
  <2>2. o # Null /\ cnt[o] = Uses(o, ptr, stack, lost) /\ cnt[o] \in Nat
    BY RefAssumption DEF RefInv, Kept, Exact
  <2>3. Uses(o, ptr, st, lost) = Uses(o, ptr, stack, lost)
    BY <1>1, AlikeSets DEF Uses
  <2>. QED  BY <2>2, <2>3
<1>5. Top.obj \notin Given(st)
  BY <1>1, <1>2, AlikeSets
<1>6. \A j \in DOMAIN st : st[j].via # Top.obj
  <2>1. SUFFICES ASSUME NEW j \in DOMAIN st PROVE st[j].via # Top.obj
    OBVIOUS
  <2>2. st[j] \in Frame
    OBVIOUS
  <2>3. Top.obj \in Obj
    BY <1>1 DEF Frame
  <2>. QED  BY <2>2, <2>3, RefAssumption DEF Frame
<1>. QED  BY <1>2, <1>3, <1>4, <1>5, <1>6 DEF RefInv, Kept, Calling

LEMMA FieldIsEntered ==
  ASSUME RefInv, TerminateReturns, NEW field, field = ptr[Top.obj], DropsLast(field, cnt),
         cnt' = [cnt EXCEPT ![field] = 0],
         terms' = [terms EXCEPT ![field] = @ + 1],
         stack' = Append([stack EXCEPT ![Len(stack)].pc = "dtor", ![Len(stack)].obj = Top.obj],
                         [cell |-> Top.obj, tmp |-> Null, obj |-> field,
                          pc |-> "term", via |-> Null, ops |-> 0]),
         UNCHANGED <<live, ptr, lost>>
  PROVE  RefInv'
<1> DEFINE n == Len(stack)
           x == Top.obj
           st == [stack EXCEPT ![n].pc = "dtor", ![n].obj = x]
           fr == [cell |-> x, tmp |-> Null, obj |-> field, pc |-> "term", via |-> Null, ops |-> 0]
<1>1. stack # <<>> /\ Top.pc = "term"
  BY DEF TerminateReturns
<1>2. /\ stack \in Seq(Frame) /\ n > 0 /\ n \in DOMAIN stack
      /\ Top = stack[n] /\ Top \in Frame
      /\ Unused(live, ptr, cnt, stack, n, Top.cell, x)
  BY <1>1, TopDrops
<1>3. x \in Obj /\ x \in live /\ field \in Value
  BY <1>2 DEF Unused, Frame, RefInv, Kept, Cell
<1>4. field \in Obj /\ cnt[field] = 1
  BY <1>3 DEF DropsLast, Value
<1>5. fr \in Frame
  BY <1>3, <1>4, RefAssumption DEF Frame, Cell, Value
<1>6. /\ fr.cell = x /\ fr.tmp = Null /\ fr.obj = field /\ fr.pc = "term" /\ fr.via = Null
  OBVIOUS
<1>7. /\ st \in Seq(Frame) /\ Len(st) = n /\ DOMAIN st = DOMAIN stack
      /\ \A i \in DOMAIN stack : i # n => st[i] = stack[i]
      /\ st[n] = [stack[n] EXCEPT !.pc = "dtor", !.obj = x]
  <2> DEFINE top == [stack[n] EXCEPT !.pc = "dtor", !.obj = x]
  <2>1. top \in Frame
    BY <1>2, <1>3 DEF Frame
  <2>2. st = [stack EXCEPT ![n] = top]
    BY <1>2
  <2>. HIDE DEF top, st
  <2>3. /\ st \in Seq(Frame) /\ Len(st) = n /\ DOMAIN st = DOMAIN stack
        /\ \A i \in DOMAIN stack : i # n => st[i] = stack[i]
        /\ st[n] = top
    BY <1>2, <2>1, <2>2
  <2>. QED  BY <2>3 DEF top
<1>8. /\ st[n].cell = Top.cell /\ st[n].tmp = Top.tmp /\ st[n].obj = x /\ st[n].via = Top.via
      /\ st[n].pc = "dtor"
  BY <1>2, <1>7 DEF Frame
<1>. HIDE DEF st, fr
<1>9. Alike(stack, st)
  BY <1>1, <1>2, <1>7, <1>8 DEF Alike
<1>10. Calling(live, ptr, cnt, st, lost, terms, x, Null)
  BY <1>1, <1>7, <1>9, ClearingCalls
<1>11. Kept(live, ptr, [cnt EXCEPT ![ptr[x]] = 0], Append(st, fr), lost,
            [terms EXCEPT ![ptr[x]] = @ + 1])
  <2>1. n \in DOMAIN st /\ st[n].obj = x
    BY <1>2, <1>7, <1>8
  <2>2. fr.obj = ptr[x] /\ cnt[ptr[x]] = 1
    BY <1>4, <1>6
  <2>. QED  BY <1>5, <1>6, <1>10, <2>1, <2>2, EnterKeeps
<1>12. Destructors(ptr, Append(st, fr))
  <2> DEFINE z == Append(st, fr)
  <2>1. /\ Len(z) = n + 1 /\ n \in Nat /\ DOMAIN z = DOMAIN stack \cup {n + 1}
        /\ DOMAIN stack = 1 .. n
        /\ \A i \in DOMAIN stack : z[i] = st[i]
        /\ z[n + 1] = fr
    BY <1>2, <1>5, <1>7, Entered
  <2>. HIDE DEF z
  <2>2. ASSUME NEW i \in DOMAIN z, z[i].pc = "dtor" PROVE Destroying(ptr, z, i)
    <3>1. i \in DOMAIN stack /\ i # Len(z)
      BY <2>1, <2>2, <1>6
    <3>2. CASE i = n
      BY <3>1, <3>2, <2>1, <1>6, <1>8 DEF Destroying
    <3>3. CASE i # n
      <4>1. z[i] = stack[i] /\ i + 1 \in DOMAIN stack
        BY <3>1, <3>3, <2>1, <1>7
      <4>2. Destroying(ptr, stack, i)
        BY <4>1, <3>1, <2>2 DEF RefInv, Destructors
      <4>3. stack[i + 1].pc # "init" /\ stack[i + 1].cell = stack[i].obj /\ stack[i + 1].tmp = Null
        BY <4>2, <3>3 DEF Destroying
      <4>4. z[i + 1].pc # "init" /\ z[i + 1].cell = z[i].obj /\ z[i + 1].tmp = Null
        <5>1. z[i + 1] = st[i + 1]
          BY <4>1, <2>1
        <5>. QED  BY <4>1, <4>3, <5>1, <1>9 DEF Alike
      <4>. QED  BY <4>4, <3>1 DEF Destroying
    <3>. QED  BY <3>2, <3>3
  <2>3. Destructors(ptr, z)
    BY <2>2 DEF Destructors
  <2>. QED  BY <2>3 DEF z
<1>13. stack' = Append(st, fr)
  BY DEF st, fr
<1>. QED  BY <1>11, <1>12, <1>13 DEF RefInv

LEMMA FieldIsCleared ==
  ASSUME RefInv, stack # <<>>, Top.pc = "term", NEW field, field = ptr[Top.obj],
         FreeAndStore(Top.obj), SkipsField \/ ~ DropsLast(field, cnt),
         cnt' = IF SkipsField THEN cnt ELSE Release(field, cnt),
         lost' = IF SkipsField /\ field # Null THEN [lost EXCEPT ![field] = @ + 1] ELSE lost,
         UNCHANGED terms
  PROVE  RefInv'
<1> DEFINE n == Len(stack)
           x == Top.obj
           pm == [ptr EXCEPT ![x] = Null]
           p1 == [pm EXCEPT ![Top.cell] = Top.tmp]
<1>1. /\ stack \in Seq(Frame) /\ n > 0 /\ n \in DOMAIN stack
      /\ Top = stack[n] /\ Top \in Frame
      /\ Unused(live, ptr, cnt, stack, n, Top.cell, x)
  BY TopDrops
<1>2. /\ x \in Obj /\ x \in live /\ field \in Value /\ x \in Cell
      /\ ptr \in [Cell -> Value] /\ cnt \in [Obj -> Nat] /\ lost \in [Obj -> Nat]
  BY <1>1 DEF Unused, Frame, RefInv, Kept, Cell
<1>3. Calling(live, ptr, cnt, stack, lost, terms, x, Null)
  <2>1. Alike(stack, stack)
    BY <1>1 DEF Alike
  <2>. QED  BY <1>1, <2>1, ClearingCalls
<1>4. Drops(cnt, cnt', lost, lost', field)
  <2>1. CASE SkipsField
    <3>1. CASE field = Null
      <4>1. cnt' = cnt /\ lost' = lost
        BY <2>1, <3>1
      <4>. QED  BY <4>1, <3>1, <1>2, RefAssumption DEF Drops
    <3>2. CASE field # Null
      <4>1. cnt' = cnt /\ lost' = [lost EXCEPT ![field] = @ + 1] /\ field \in Obj
        BY <2>1, <3>2, <1>2 DEF Value
      <4>2. /\ lost' \in [Obj -> Nat]
            /\ \A o \in Obj : lost'[o] = lost[o] + (IF o = field THEN 1 ELSE 0)
        BY <4>1, <1>2
      <4>. QED  BY <4>1, <4>2, <1>2 DEF Drops
    <3>. QED  BY <3>1, <3>2
  <2>2. CASE ~ SkipsField
    <3>1. cnt' = Release(field, cnt) /\ lost' = lost /\ ~ DropsLast(field, cnt)
      BY <2>2
    <3>2. field # Null => cnt[field] > 0
      BY <1>2, <1>3, HeldIsUsed DEF Value
    <3>3. field # Null => cnt[field] > 0 /\ cnt[field] # 1
      BY <3>1, <3>2 DEF DropsLast
    <3>4. Drops(cnt, Release(field, cnt), lost, lost, field)
      BY <1>2, <3>3, ReleaseCounts
    <3>. QED  BY <3>1, <3>4
  <2>. QED  BY <2>1, <2>2
<1>5. Kept(live, pm, cnt', stack, lost', terms)
  BY <1>3, <1>4, StoreKeeps
<1>6. pm[x] = Null
  BY <1>2
<1>7. \A i \in DOMAIN stack : i # n /\ stack[i].pc = "dtor" => Destroying(pm, stack, i)
  BY DEF RefInv, Destructors, Destroying
<1>8. stack[n].pc # "init" /\ Top.cell = stack[n].cell /\ Top.tmp = stack[n].tmp /\ x = stack[n].obj
  BY <1>1
<1>. HIDE DEF pm
<1>9. Kept(live \ {x}, p1, cnt', Front(stack), lost', terms) /\ Destructors(p1, Front(stack))
  <2>1. pm[stack[n].obj] = Null
    BY <1>6, <1>8
  <2>. QED  BY <1>1, <1>5, <1>7, <1>8, <2>1, FreeKeeps
<1>10. ptr' = p1 /\ live' = live \ {x} /\ stack' = Front(stack) /\ terms' = terms
  <2>1. Top.cell \in Cell
    BY <1>1 DEF Frame
  <2>2. ptr' = [d \in Cell |-> IF d = Top.cell THEN Top.tmp ELSE IF d = x THEN Null ELSE ptr[d]]
    BY DEF FreeAndStore
  <2>3. ptr' = p1
    BY <1>2, <2>1, <2>2 DEF pm
  <2>. QED  BY <2>3 DEF FreeAndStore
<1>. QED  BY <1>9, <1>10 DEF RefInv

\* delete frees the object of the activation, and uses no memory that was freed.
LEMMA DeletesTop ==
  ASSUME RefInv, stack # <<>>, Top.pc = "term"
  PROVE  /\ Deleted = Top.obj /\ FieldOf(Top.obj) = ptr[Top.obj]
         /\ Top.obj \notin Releasing /\ Top.tmp # Top.obj
         /\ ~ Freed({Top.obj, Top.tmp}) /\ ~ Freed({ptr[Top.obj]})
<1>1. /\ stack \in Seq(Frame) /\ Len(stack) \in DOMAIN stack
      /\ Top = stack[Len(stack)] /\ Top \in Frame
      /\ Unused(live, ptr, cnt, stack, Len(stack), Top.cell, Top.obj)
  BY TopDrops
<1>2. Top.obj \in live /\ Top.obj \in Obj /\ Top.obj \in Cell /\ ptr[Top.cell] = Top.obj
  BY <1>1 DEF Unused, Frame, Cell
<1>3. Deleted = Top.obj /\ FieldOf(Top.obj) = ptr[Top.obj]
  BY <1>2, RefAssumption DEF Deleted, FieldOf
<1>4. Top.obj \notin Releasing
  BY <1>1 DEF Unused, Given, GivesUp, Releasing, Releases
<1>5. Top.tmp # Top.obj /\ Top.tmp \in live \cup {Null}
  BY <1>1 DEF Unused, RefInv, Kept, Pointers
<1>6. ptr[Top.obj] \in live \cup {Null}
  BY <1>2 DEF RefInv, Kept, Pointers
<1>7. ~ Freed({Top.obj, Top.tmp}) /\ ~ Freed({ptr[Top.obj]})
  BY <1>2, <1>5, <1>6, RefAssumption DEF Freed
<1>. QED  BY <1>3, <1>4, <1>5, <1>7

LEMMA TerminateReturnsKeeps ==
  ASSUME RefInv, TerminateReturns
  PROVE  RefInv' /\ UNCHANGED faulted
<1>1. stack # <<>> /\ Top.pc = "term"
  BY DEF TerminateReturns
<1>2. Deleted = Top.obj /\ FieldOf(Top.obj) = ptr[Top.obj]
  BY <1>1, DeletesTop
<1> DEFINE field == ptr[Top.obj]
<1>3. CASE ~ SkipsField /\ DropsLast(field, cnt)
  <2>1. /\ Terminate(field, Top.obj, Null, [cnt EXCEPT ![field] = 0], Null,
                     [stack EXCEPT ![Len(stack)].pc = "dtor", ![Len(stack)].obj = Top.obj])
        /\ UNCHANGED faulted
    BY <1>1, <1>2, <1>3, DeletesTop DEF TerminateReturns
  <2>. QED  BY <1>3, <2>1, FieldIsEntered DEF Terminate
<1>4. CASE ~ (~ SkipsField /\ DropsLast(field, cnt))
  <2>1. /\ FreeAndStore(Top.obj)
        /\ cnt' = IF SkipsField THEN cnt ELSE Release(field, cnt)
        /\ lost' = IF SkipsField /\ field # Null
                   THEN [lost EXCEPT ![field] = @ + 1] ELSE lost
        /\ UNCHANGED <<terms, faulted>>
    BY <1>1, <1>2, <1>4, DeletesTop DEF TerminateReturns
  <2>. QED  BY <1>1, <1>4, <2>1, FieldIsCleared
<1>. QED  BY <1>3, <1>4

-----------------------------------------------------------------------------
(* The theorems. *)

LEMMA RefInvInit == Init => RefInv
<1> SUFFICES ASSUME Init PROVE RefInv
  OBVIOUS
<1>1. stack = <<>> /\ live = {} /\ stack \in Seq(Frame) /\ DOMAIN stack = {}
  BY DEF Init
<1>2. /\ ptr \in [Cell -> Value] /\ cnt \in [Obj -> Nat] /\ lost \in [Obj -> Nat]
      /\ terms \in [Obj -> Nat]
  BY DEF Init, Value
<1>3. Pointers(live, ptr, stack)
  BY <1>1 DEF Init, Pointers, Cell
<1>4. Activations(live, ptr, cnt, stack) /\ Destructors(ptr, stack)
  BY <1>1 DEF Activations, Destructors
<1>5. Lives(live, cnt, stack, terms) /\ Exact(live, ptr, cnt, stack, lost)
  BY <1>1 DEF Lives, Exact
<1>. QED  BY <1>1, <1>2, <1>3, <1>4, <1>5 DEF RefInv, Kept

\* What a handler did not leave alone stays so.
LEMMA StraysGrow == Next => strayed \subseteq strayed'
<1> SUFFICES ASSUME Next PROVE strayed \subseteq strayed'
  OBVIOUS
<1>1. ASSUME NEW c, NEW via, Assign(c, via) PROVE strayed \subseteq strayed'
  BY <1>1 DEF Assign
<1>2. CASE Statement
  BY <1>1, <1>2 DEF Statement, AssignVar, AssignField, AssignOwnField, NewObject
<1>3. CASE Return
  BY <1>3 DEF Return, InitializeReturns, TerminateReturns, DestructorReturns
<1>. QED  BY <1>2, <1>3 DEF Next

\* The invariant, as long as every handler leaves alone what is going on under it.
Undisturbed == strayed = {} => RefInv /\ faulted = FALSE

LEMMA RefInvStep ==
  ASSUME Undisturbed, [Next]_vars, strayed' = {}
  PROVE  strayed = {} /\ RefInv /\ (RefInv /\ faulted = FALSE)'
<1>0. strayed = {}
  BY StraysGrow DEF vars
<1>a. RefInv /\ faulted = FALSE
  BY <1>0 DEF Undisturbed
<1>1. ASSUME NEW v \in Var, AssignVar(v) PROVE RefInv' /\ UNCHANGED faulted
  BY <1>1, <1>a, AssignVarKeeps
<1>2. ASSUME NEW w \in Var, AssignField(w) PROVE RefInv' /\ UNCHANGED faulted
  BY <1>2, <1>a, AssignFieldKeeps
<1>3. ASSUME NEW v \in Var, NewObject(v) PROVE RefInv' /\ UNCHANGED faulted
  BY <1>3, <1>a, NewObjectKeeps
<1>4. CASE AssignOwnField
  BY <1>4, <1>0, <1>a, AssignOwnFieldKeeps
<1>5. CASE InitializeReturns
  BY <1>5, <1>0, <1>a, InitializeReturnsKeeps
<1>6. CASE TerminateReturns
  BY <1>6, <1>0, <1>a, TerminateReturnsKeeps
<1>7. CASE DestructorReturns
  BY <1>7, <1>0, <1>a, DestructorReturnsKeeps
<1>8. CASE UNCHANGED vars
  BY <1>8, <1>0, <1>a DEF vars, RefInv
<1>. QED
  BY <1>0, <1>a, <1>1, <1>2, <1>3, <1>4, <1>5, <1>6, <1>7, <1>8 DEF Next, Statement, Return

LEMMA RefInductive == Spec => []Undisturbed
<1>1. Init => Undisturbed
  BY RefInvInit DEF Undisturbed, Init
<1>2. Undisturbed /\ [Next]_vars => Undisturbed'
  BY RefInvStep DEF Undisturbed
<1>. QED  BY <1>1, <1>2, PTL DEF Spec

\* As long as no Terminate handler copies an object that is dying and none writes over what
\* is being released under it: the count of every object is the number of its references,
\* cells, parameters in flight and forgotten fields; no variable, no field of an object
\* that lives and no parameter refers to an object that was freed; and freed memory is
\* not used, however handlers and destructors nest (ref<T>, core.h).
THEOREM CountsAreExact == Spec => [](strayed = {} => CountsSound /\ ~ faulted)
<1>1. Undisturbed => (strayed = {} => CountsSound /\ ~ faulted)
  <2> SUFFICES ASSUME RefInv, strayed = {}, faulted = FALSE PROVE CountsSound /\ ~ faulted
    BY DEF Undisturbed
  <2>1. TypeOK
    <3>1. cnt \in [Obj -> Int]
      BY DEF RefInv, Kept
    <3>. QED  BY <3>1 DEF RefInv, Kept, TypeOK
  <2>2. \A o \in live :
          cnt[o] = Cardinality(CellRefs(o)) + Cardinality(TmpRefs(o)) + lost[o]
    BY DEF RefInv, Kept, Exact, Uses, Refs, Params, Given, GivesUp, CellRefs, TmpRefs, Releasing,
           Releases
  <2>3. DeletesOwnObject
    BY DEF RefInv, Kept, Activations, Dropping, GivesUp, DeletesOwnObject, Releases
  <2>4. /\ \A c \in Var \cup live : ptr[c] \in live \cup {Null}
        /\ \A i \in DOMAIN stack : stack[i].tmp \in live \cup {Null}
    BY DEF RefInv, Kept, Pointers, Cell
  <2>. QED  BY <2>1, <2>2, <2>3, <2>4 DEF CountsSound, CountExact, NoDangling
<1>. QED  BY <1>1, RefInductive, PTL

\* As long as handlers leave alone what is going on under them, Terminate has run exactly
\* once when the memory of an object is freed (release, core.h).
THEOREM TerminatesOnce ==
  Spec => [][strayed' = {} => \A o \in live \ live' : terms[o] = 1]_vars
<1> DEFINE Once == strayed' = {} => \A o \in live \ live' : terms[o] = 1
<1>1. Undisturbed /\ [Next]_vars => [Once]_vars
  <2> SUFFICES ASSUME Undisturbed, Next, strayed' = {} PROVE \A o \in live \ live' : terms[o] = 1
    BY DEF Once
  <2>a. RefInv
    BY RefInvStep
  <2>1. ASSUME stack # <<>>, Top.pc # "init" PROVE terms[Top.obj] = 1
    <3>1. /\ Len(stack) \in DOMAIN stack /\ Top = stack[Len(stack)]
          /\ Unused(live, ptr, cnt, stack, Len(stack), Top.cell, Top.obj)
      BY <2>1, <2>a, TopDrops
    <3>2. Top.obj \in live /\ Len(stack) \in GivesUp(stack)
      BY <2>1, <3>1 DEF Unused, GivesUp
    <3>. QED  BY <3>1, <3>2, <2>a DEF RefInv, Kept, Lives
  <2>2. ASSUME NEW c, NEW x, NEW count, NEW via, NEW st, OperatorAssign(c, x, count, via, st)
        PROVE  live' = live
    BY <2>2 DEF OperatorAssign, ReleaseAndStore, Terminate, Fault
  <2>3. CASE Statement
    BY <2>2, <2>3 DEF Statement, AssignVar, AssignField, AssignOwnField, NewObject, Assign
  <2>4. CASE InitializeReturns
    BY <2>2, <2>4 DEF InitializeReturns
  <2>5. CASE TerminateReturns
    <3>1. stack # <<>> /\ Top.pc = "term" /\ Top.pc # "init"
      BY <2>5 DEF TerminateReturns
    <3>2. Deleted = Top.obj
      BY <3>1, <2>a, DeletesTop
    <3>3. live' = live \/ live' = live \ {Top.obj}
      BY <2>5, <3>2 DEF TerminateReturns, FreeAndStore, Terminate, Fault
    <3>. QED  BY <2>1, <3>1, <3>3
  <2>6. CASE DestructorReturns
    BY <2>1, <2>6 DEF DestructorReturns, FreeAndStore, Fault
  <2>. QED  BY <2>3, <2>4, <2>5, <2>6 DEF Next, Return
<1>. QED  BY <1>1, RefInductive, PTL DEF Spec, Once

\* As long as handlers leave alone what is going on under them: what is allocated between
\* two statements and that no variable reaches is held by something unreachable too, or
\* by a field that was forgotten: nothing but cycles leaks (release, core.h).
THEOREM CyclesOnlyLeak == Spec => [](strayed = {} => OnlyCyclesLeak)
<1>1. Undisturbed => (strayed = {} => OnlyCyclesLeak)
  <2> SUFFICES ASSUME RefInv, stack = <<>>, NEW o \in live \ Reachable, ~ (lost[o] > 0)
               PROVE  \E q \in live \ Reachable : ptr[q] = o
    BY DEF OnlyCyclesLeak, Undisturbed
  <2>1. stack \in Seq(Frame) /\ DOMAIN stack = {} /\ GivesUp(stack) = {} /\ Given(stack) = {}
    BY DEF RefInv, Kept, GivesUp, Given
  <2>2. /\ o \in Obj /\ o # Null /\ cnt[o] > 0 /\ lost[o] = 0
        /\ ptr \in [Cell -> Value] /\ cnt[o] \in Nat
    <3>1. o \in Obj /\ o # Null /\ lost[o] \in Nat /\ ptr \in [Cell -> Value] /\ cnt[o] \in Nat
      BY RefAssumption DEF RefInv, Kept
    <3>2. cnt[o] > 0
      BY <2>1 DEF RefInv, Kept, Lives
    <3>. QED  BY <3>1, <3>2
  <2>3. Refs(o, ptr, stack) # {}
    <3>1. Params(o, stack) = {}
      BY <2>1 DEF Params
    <3>2. cnt[o] = Cardinality(Refs(o, ptr, stack)) + Cardinality(Params(o, stack)) + lost[o]
      BY DEF RefInv, Kept, Exact, Uses
    <3>3. Cardinality({}) = 0
      BY FS_EmptySet
    <3>. QED  BY <2>2, <3>1, <3>2, <3>3
  <2>4. PICK c \in Cell : ptr[c] = o
    BY <2>3 DEF Refs
  <2>5. c \notin Var
    <3>1. SUFFICES ASSUME c \in Var PROVE o \in Reachable
      OBVIOUS
    <3>2. ASSUME NEW S \in SUBSET live, \A v \in Var : ptr[v] \in live => ptr[v] \in S
          PROVE  o \in S
      BY <2>2, <2>4, <3>1, <3>2
    <3>. QED  BY <3>2 DEF Reachable
  <2>6. c \in live
    <3>1. c \in Obj
      BY <2>4, <2>5 DEF Cell
    <3>. QED  BY <2>2, <2>4, <3>1 DEF RefInv, Kept, Pointers
  <2>7. c \notin Reachable
    <3>1. SUFFICES ASSUME c \in Reachable PROVE o \in Reachable
      OBVIOUS
    <3>2. ASSUME NEW S \in SUBSET live, \A v \in Var : ptr[v] \in live => ptr[v] \in S,
                 \A q \in S : ptr[q] \in live => ptr[q] \in S
          PROVE  o \in S
      <4>1. c \in S
        BY <3>1, <3>2 DEF Reachable
      <4>. QED  BY <2>2, <2>4, <3>2, <4>1
    <3>. QED  BY <3>2 DEF Reachable
  <2>. QED  BY <2>4, <2>6, <2>7
<1>. QED  BY <1>1, RefInductive, PTL
-----------------------------------------------------------------------------
(***************************************************************************)
(* What holds of the collections and dictionaries of Collections, for any  *)
(* items, keys and numbers of nodes and loops, with its proofs.            *)
(***************************************************************************)
CONSTANTS Col, Dict, Item, Zero, Key, NoKey, MaxNodes, MaxLoops

VARIABLES list, made, loops, missed, wild, careful

Coll == INSTANCE Collections

\* What the instance takes from FiniteSets is what this module has from there.
LEMMA CardinalitySame == \A S : Coll!Cardinality(S) = Cardinality(S)
  BY Zenon DEF Coll!Cardinality, Cardinality

-----------------------------------------------------------------------------
(* Numbers, sequences and the list that an iterator goes through.              *)

\* Strictly smaller sets are a well-founded order on the parts of a finite set, so that
\* among the initial parts of S that end in a member of S one is the smallest.
LEMMA Lowest ==
  ASSUME NEW n \in Nat, NEW S \in SUBSET (1 .. n), S # {}
  PROVE  Coll!Min(S) \in S /\ \A j \in S : Coll!Min(S) <= j
<1> DEFINE Upto(k) == {j \in S : j <= k}
           T == {Upto(k) : k \in S}
<1>1. IsFiniteSet(S)
  <2>1. 1 \in Int /\ n \in Int /\ S \subseteq 1 .. n
    OBVIOUS
  <2>2. IsFiniteSet(1 .. n)
    BY <2>1, FS_Interval
  <2> QED BY <2>1, <2>2, FS_Subset
<1>2. IsWellFoundedOn(StrictSubsetOrdering(S), SUBSET S)
  <2>1. FiniteSubsetsOf(S) = SUBSET S
    BY <1>1, FS_FiniteSubsetsOfFinite
  <2> QED BY <2>1, FS_StrictSubsetOrderingWellFounded
<1>3. T \subseteq SUBSET S /\ T # {}
  OBVIOUS
<1>4. PICK x \in T : \A y \in T : <<y, x>> \notin StrictSubsetOrdering(S)
  <2> HIDE DEF T
  <2> QED BY <1>2, <1>3, WFMin
<1>5. PICK k \in S : x = Upto(k)
  BY <1>4
<1>6. \A j \in S : k <= j
  <2> SUFFICES ASSUME NEW j \in S, j < k PROVE FALSE
    OBVIOUS
  <2>1. Upto(j) \in T
    OBVIOUS
  <2>2. k \in Nat /\ j \in Nat /\ S \subseteq Nat
    OBVIOUS
  <2>3. Upto(j) \subseteq Upto(k) /\ k \in Upto(k) /\ k \notin Upto(j)
    <3>1. ~(k <= j) /\ k <= k /\ \A i \in S : i <= j => i <= k
      BY <2>2
    <3> QED BY <3>1
  <2>4. <<Upto(j), x>> \in StrictSubsetOrdering(S)
    <3> HIDE DEF Upto
    <3> QED BY <2>1, <2>3, <1>3, <1>5 DEF StrictSubsetOrdering
  <2> QED BY <2>1, <2>4, <1>4
<1> QED BY <1>6 DEF Coll!Min

NodeRecord == [id : Nat, key : Key \cup {NoKey}, item : Item]
Lists == Seq(NodeRecord)

LEMMA RemovedAt ==
  ASSUME NEW s \in Lists, NEW i \in DOMAIN s
  PROVE  /\ Coll!RemoveAt(s, i) \in Lists /\ Len(Coll!RemoveAt(s, i)) = Len(s) - 1
         /\ \A j \in DOMAIN Coll!RemoveAt(s, i) :
              Coll!RemoveAt(s, i)[j] = IF j < i THEN s[j] ELSE s[j + 1]
<1>. DEFINE f == SubSeq(s, 1, i - 1)
            g == SubSeq(s, i + 1, Len(s))
<1>1. s \in Seq(NodeRecord) /\ Len(s) \in Nat /\ i \in 1 .. Len(s)
  BY DEF Lists
<1>2. f \in Seq(NodeRecord) /\ Len(f) = i - 1 /\ \A j \in 1 .. i - 1 : f[j] = s[j]
  BY <1>1
<1>3. g \in Seq(NodeRecord) /\ Len(g) = Len(s) - i /\ \A j \in 1 .. Len(s) - i : g[j] = s[i + j]
  <2>1. /\ SubSeq(s, i + 1, Len(s)) \in Seq(NodeRecord)
        /\ Len(SubSeq(s, i + 1, Len(s))) = IF i + 1 <= Len(s) THEN Len(s) - (i + 1) + 1 ELSE 0
        /\ \A j \in 1 .. Len(s) - (i + 1) + 1 : SubSeq(s, i + 1, Len(s))[j] = s[(i + 1) + j - 1]
    BY <1>1, SubSeqProperties
  <2>. QED  BY <1>1, <2>1
<1>4. Coll!RemoveAt(s, i) = f \o g
  BY DEF Coll!RemoveAt
<1>. HIDE DEF f, g
<1>5. /\ f \o g \in Seq(NodeRecord) /\ Len(f \o g) = Len(f) + Len(g)
      /\ \A j \in 1 .. Len(f) + Len(g) : (f \o g)[j] = IF j <= Len(f) THEN f[j] ELSE g[j - Len(f)]
  BY <1>2, <1>3, ConcatProperties
<1>l. /\ Len(s) \in Nat /\ i \in 1 .. Len(s) /\ Len(f) = i - 1 /\ Len(g) = Len(s) - i
      /\ Len(f) + Len(g) = Len(s) - 1
  BY <1>1, <1>2, <1>3
<1>6. ASSUME NEW j \in 1 .. Len(s) - 1
      PROVE  (f \o g)[j] = IF j < i THEN s[j] ELSE s[j + 1]
  <2>1. CASE j < i
    BY <1>1, <1>2, <1>3, <1>5, <2>1
  <2>2. CASE i <= j
    <3>0. PICK k \in 1 .. Len(s) - i : k = j - (i - 1)
      BY <1>1, <2>2
    <3>i. i \in Int /\ j \in Int /\ k \in Int /\ i <= j /\ k = j - (i - 1)
      BY <1>l, <2>2, <3>0
    <3>1. j \in 1 .. Len(f) + Len(g) /\ ~(j <= Len(f)) /\ j - Len(f) = k
      <4>1. j \in 1 .. Len(f) + Len(g)
        BY <1>l
      <4>2. ~(j <= i - 1)
        BY ONLY <3>i
      <4>. QED  BY <1>l, <3>i, <4>1, <4>2
    <3>2. (f \o g)[j] = g[k]
      BY <1>5, <3>1
    <3>3. g[k] = s[i + k]
      BY <1>3
    <3>4. i + k = j + 1 /\ ~(j < i)
      BY ONLY <3>i
    <3>. QED  BY <3>2, <3>3, <3>4
  <2>3. j < i \/ i <= j
    BY <1>l
  <2>. QED  BY <2>1, <2>2, <2>3
<1>7. Len(f \o g) = Len(s) - 1 /\ DOMAIN (f \o g) = 1 .. Len(s) - 1
  BY <1>1, <1>2, <1>3, <1>5
<1>. QED  BY <1>4, <1>5, <1>6, <1>7 DEF Lists

LEMMA InsertedAt ==
  ASSUME NEW s \in Lists, NEW i \in 1 .. Len(s) + 1, NEW n \in NodeRecord
  PROVE  /\ Coll!InsertAt(s, i, n) \in Lists /\ Len(Coll!InsertAt(s, i, n)) = Len(s) + 1
         /\ \A j \in DOMAIN Coll!InsertAt(s, i, n) :
              Coll!InsertAt(s, i, n)[j] = IF j < i THEN s[j] ELSE IF j = i THEN n ELSE s[j - 1]
<1>. DEFINE f == SubSeq(s, 1, i - 1)
            g == SubSeq(s, i, Len(s))
<1>1. s \in Seq(NodeRecord) /\ Len(s) \in Nat /\ <<n>> \in Seq(NodeRecord)
      /\ Len(<<n>>) = 1 /\ <<n>>[1] = n
  BY DEF Lists
<1>2. f \in Seq(NodeRecord) /\ Len(f) = i - 1 /\ \A j \in 1 .. i - 1 : f[j] = s[j]
  BY <1>1
<1>3. g \in Seq(NodeRecord) /\ Len(g) = Len(s) - i + 1
      /\ \A j \in 1 .. Len(s) - i + 1 : g[j] = s[i + j - 1]
  <2>1. /\ SubSeq(s, i, Len(s)) \in Seq(NodeRecord)
        /\ Len(SubSeq(s, i, Len(s))) = IF i <= Len(s) THEN Len(s) - i + 1 ELSE 0
        /\ \A j \in 1 .. Len(s) - i + 1 : SubSeq(s, i, Len(s))[j] = s[i + j - 1]
    BY <1>1, SubSeqProperties
  <2>. QED  BY <1>1, <2>1
<1>. DEFINE h == f \o <<n>>
<1>4. Coll!InsertAt(s, i, n) = h \o g
  BY DEF Coll!InsertAt
<1>. HIDE DEF f, g
<1>5. /\ h \in Seq(NodeRecord) /\ Len(h) = i
      /\ \A j \in 1 .. i : h[j] = IF j < i THEN s[j] ELSE n
  <2>1. /\ f \o <<n>> \in Seq(NodeRecord) /\ Len(f \o <<n>>) = Len(f) + Len(<<n>>)
        /\ \A j \in 1 .. Len(f) + Len(<<n>>) :
             (f \o <<n>>)[j] = IF j <= Len(f) THEN f[j] ELSE <<n>>[j - Len(f)]
    BY <1>1, <1>2, ConcatProperties
  <2>2. ASSUME NEW j \in 1 .. i PROVE h[j] = IF j < i THEN s[j] ELSE n
    <3>1. CASE j = i
      <4>1. j - Len(f) = 1 /\ ~(j <= Len(f)) /\ j \in 1 .. Len(f) + Len(<<n>>)
        BY <1>1, <1>2, <3>1
      <4>. QED  BY <1>1, <2>1, <3>1, <4>1
    <3>2. CASE j < i
      <4>1. j <= Len(f) /\ j \in 1 .. Len(f) + Len(<<n>>) /\ j \in 1 .. i - 1
        BY <1>1, <1>2, <3>2
      <4>2. (f \o <<n>>)[j] = f[j] /\ f[j] = s[j]
        BY <1>2, <2>1, <4>1
      <4>. QED  BY <3>2, <4>2
    <3>3. j = i \/ j < i
      BY <1>1
    <3>. QED  BY <3>1, <3>2, <3>3
  <2>3. Len(h) = i
    BY <1>1, <1>2, <2>1
  <2>. QED  BY <2>1, <2>2, <2>3
<1>. HIDE DEF h
<1>6. /\ h \o g \in Seq(NodeRecord) /\ Len(h \o g) = Len(h) + Len(g)
      /\ \A j \in 1 .. Len(h) + Len(g) : (h \o g)[j] = IF j <= Len(h) THEN h[j] ELSE g[j - Len(h)]
  BY <1>3, <1>5, ConcatProperties
<1>7. Len(h \o g) = Len(s) + 1 /\ DOMAIN (h \o g) = 1 .. Len(s) + 1
  BY <1>1, <1>3, <1>5, <1>6
<1>8. ASSUME NEW j \in 1 .. Len(s) + 1
      PROVE  (h \o g)[j] = IF j < i THEN s[j] ELSE IF j = i THEN n ELSE s[j - 1]
  <2>1. CASE j <= i
    BY <1>1, <1>3, <1>5, <1>6, <2>1
  <2>2. CASE i < j
    <3>0. PICK k \in 1 .. Len(s) - i + 1 : k = j - i
      BY <1>1, <2>2
    <3>1. j \in 1 .. Len(h) + Len(g) /\ ~(j <= Len(h)) /\ j - Len(h) = k
      BY <1>1, <1>3, <1>5, <2>2, <3>0
    <3>2. (h \o g)[j] = g[k]
      BY <1>6, <3>1
    <3>3. g[k] = s[i + k - 1] /\ i + k - 1 = j - 1 /\ ~(j < i) /\ j # i
      BY <1>1, <1>3, <2>2, <3>0
    <3>. QED  BY <3>2, <3>3
  <2>3. j <= i \/ i < j
    BY <1>1
  <2>. QED  BY <2>1, <2>2, <2>3
<1>. QED  BY <1>4, <1>6, <1>7, <1>8 DEF Lists

\* removeitem() erases the first node that holds the item.
LEMMA WithoutIs ==
  ASSUME NEW s \in Lists, NEW x
  PROVE  \/ Coll!Without(s, x) = s /\ \A j \in DOMAIN s : s[j].item # x
         \/ \E i \in DOMAIN s : /\ s[i].item = x /\ Coll!Without(s, x) = Coll!RemoveAt(s, i)
                                /\ \A j \in DOMAIN s : s[j].item = x => i <= j
<1>. DEFINE I == {i \in 1 .. Len(s) : s[i].item = x}
<1>1. Len(s) \in Nat /\ DOMAIN s = 1 .. Len(s)
  BY DEF Lists
<1>2. CASE I = {}
  BY <1>1, <1>2 DEF Coll!Without, Coll!RemoveFirstMatch
<1>3. CASE I # {}
  <2>1. Coll!Without(s, x) = Coll!RemoveAt(s, Coll!Min(I))
    BY <1>3 DEF Coll!Without, Coll!RemoveFirstMatch, Coll!SelectInSeq
  <2>2. I \in SUBSET (1 .. Len(s))
    OBVIOUS
  <2>3. Coll!Min(I) \in I /\ \A j \in I : Coll!Min(I) <= j
    <3>. HIDE DEF I
    <3>. QED  BY <1>1, <1>3, <2>2, Lowest
  <2>4. \A j \in DOMAIN s : s[j].item = x => j \in I
    BY <1>1
  <2>. HIDE DEF I
  <2>5. Coll!Min(I) \in DOMAIN s /\ s[Coll!Min(I)].item = x
    BY <1>1, <2>3 DEF I
  <2>. QED  BY <2>1, <2>3, <2>4, <2>5
<1>. QED  BY <1>2, <1>3

LEMMA AtIs ==
  ASSUME NEW k, list[Dict] \in Lists
  PROVE  \/ Coll!At(k) = 0 /\ \A j \in DOMAIN list[Dict] : list[Dict][j].key # k
         \/ Coll!At(k) \in DOMAIN list[Dict] /\ list[Dict][Coll!At(k)].key = k
<1>. DEFINE s == list[Dict]
            I == {i \in 1 .. Len(s) : s[i].key = k}
<1>1. Len(s) \in Nat /\ DOMAIN s = 1 .. Len(s)
  BY DEF Lists
<1>2. CASE I = {}
  BY <1>1, <1>2 DEF Coll!At, Coll!SelectInSeq
<1>3. CASE I # {}
  <2>1. Coll!At(k) = Coll!Min(I)
    BY <1>3 DEF Coll!At, Coll!SelectInSeq
  <2>2. I \in SUBSET (1 .. Len(s))
    OBVIOUS
  <2>3. Coll!Min(I) \in I
    <3>. HIDE DEF I
    <3>. QED  BY <1>1, <1>3, <2>2, Lowest
  <2>. QED  BY <1>1, <2>1, <2>3
<1>. QED  BY <1>2, <1>3


-----------------------------------------------------------------------------
(* What a loop knows of its list.                                              *)

LoopRecord == [in : Col \cup {Dict}, at : Nat, given : Seq(Nat), there : SUBSET Nat]

\* No two nodes are the same, and there have been m.
Distinct(s) == \A i, j \in DOMAIN s : s[i].id = s[j].id => i = j
MadeBy(s, m) == \A i \in DOMAIN s : s[i].id <= m

\* Of the nodes that were there from the beginning, those up to that of the loop have been
\* given; of those that have been given, none is behind it.
Walks(s, l) ==
    \E q \in DOMAIN s :
        /\ s[q].id = l.at
        /\ \A p \in DOMAIN s :
            /\ p <= q /\ s[p].id \in l.there => s[p].id \in Coll!ToSet(l.given)
            /\ s[p].id \in Coll!ToSet(l.given) => p <= q

\* What a loop has is of nodes made before.
Bounded(l, m) == (\A x \in l.there : x <= m) /\ \A i \in DOMAIN l.given : l.given[i] <= m

\* u has nodes of s, in their order, and new ones among them.
Follows(u, s, m) ==
    /\ \A i \in DOMAIN u : u[i].id \in Coll!Ids(s) \/ ~(u[i].id <= m)
    /\ \A i, j \in DOMAIN u : \A p, q \in DOMAIN s :
        s[p].id = u[i].id /\ s[q].id = u[j].id /\ i < j => p < q

\* A loop goes on with the list that was changed, unless its node has gone.
LEMMA WalksOn ==
  ASSUME NEW s \in Lists, NEW u \in Lists, NEW m \in Nat, NEW l \in LoopRecord,
         Distinct(s), Distinct(u), Follows(u, s, m), Bounded(l, m), Walks(s, l), l.at \in Coll!Ids(u)
  PROVE  Walks(u, l)
<1>1. PICK q \in DOMAIN s :
        /\ s[q].id = l.at
        /\ \A p \in DOMAIN s :
            /\ p <= q /\ s[p].id \in l.there => s[p].id \in Coll!ToSet(l.given)
            /\ s[p].id \in Coll!ToSet(l.given) => p <= q
  BY DEF Walks
<1>2. PICK r \in DOMAIN u : u[r].id = l.at
  BY DEF Coll!Ids
<1>3. DOMAIN s \subseteq Nat /\ DOMAIN u \subseteq Nat
  BY DEF Lists
<1>4. \A x \in l.there \cup Coll!ToSet(l.given) : x <= m
  BY DEF Bounded, Coll!ToSet
<1>5. ASSUME NEW p \in DOMAIN u, u[p].id \in l.there \cup Coll!ToSet(l.given)
      PROVE  \E p1 \in DOMAIN s : s[p1].id = u[p].id
  <2>1. u[p].id \in Coll!Ids(s)
    BY <1>4, <1>5 DEF Follows
  <2>. QED  BY <2>1 DEF Coll!Ids
<1>6. ASSUME NEW p \in DOMAIN u, p <= r, u[p].id \in l.there
      PROVE  u[p].id \in Coll!ToSet(l.given)
  <2>1. PICK p1 \in DOMAIN s : s[p1].id = u[p].id
    BY <1>5, <1>6
  <2>2. p1 <= q
    <3>1. CASE p = r
      <4>1. p1 = q
        BY <1>1, <1>2, <2>1, <3>1 DEF Distinct
      <4>. QED  BY <1>3, <4>1
    <3>2. CASE p < r
      <4>1. p1 < q
        BY <1>1, <1>2, <2>1, <3>2 DEF Follows
      <4>. QED  BY <1>3, <4>1
    <3>. QED  BY <1>3, <1>6, <3>1, <3>2
  <2>. QED  BY <1>1, <1>6, <2>1, <2>2
<1>7. ASSUME NEW p \in DOMAIN u, u[p].id \in Coll!ToSet(l.given)
      PROVE  p <= r
  <2>1. PICK p1 \in DOMAIN s : s[p1].id = u[p].id
    BY <1>5, <1>7
  <2>2. p1 <= q
    BY <1>1, <1>7, <2>1
  <2>3. ASSUME r < p PROVE FALSE
    <3>1. q < p1
      BY <1>1, <1>2, <2>1, <2>3 DEF Follows
    <3>. QED  BY <1>3, <2>2, <3>1
  <2>. QED  BY <1>3, <2>3
<1>. QED  BY <1>2, <1>6, <1>7 DEF Walks


-----------------------------------------------------------------------------
(* What the operations make of a list.                                         *)

\* No two nodes have one key.
Keyed(s) == \A i, j \in DOMAIN s : s[i].key = s[j].key => i = j

\* u is s without some nodes.
Thins(u, s) ==
    /\ u \in Lists /\ Distinct(u)
    /\ \A i \in DOMAIN u : \E p \in DOMAIN s : s[p] = u[i]
    /\ \A i, j \in DOMAIN u : \A p, q \in DOMAIN s :
        s[p].id = u[i].id /\ s[q].id = u[j].id /\ i < j => p < q

LEMMA ThinnedFollows ==
  ASSUME NEW s \in Lists, NEW u, NEW m \in Nat, Thins(u, s)
  PROVE  /\ Follows(u, s, m) /\ (MadeBy(s, m) => MadeBy(u, m)) /\ (Keyed(s) => Keyed(u))
<1>1. \A i \in DOMAIN u : u[i].id \in Coll!Ids(s)
  BY DEF Thins, Coll!Ids
<1>2. Follows(u, s, m)
  BY <1>1 DEF Thins, Follows
<1>3. ASSUME MadeBy(s, m) PROVE MadeBy(u, m)
  BY <1>1, <1>3 DEF MadeBy, Coll!Ids
<1>4. ASSUME Keyed(s) PROVE Keyed(u)
  <2>. SUFFICES ASSUME NEW i \in DOMAIN u, NEW j \in DOMAIN u, u[i].key = u[j].key PROVE i = j
    BY DEF Keyed
  <2>1. PICK p \in DOMAIN s : s[p] = u[i]
    BY DEF Thins
  <2>2. PICK q \in DOMAIN s : s[q] = u[j]
    BY DEF Thins
  <2>3. p = q
    BY <1>4, <2>1, <2>2 DEF Keyed
  <2>. QED  BY <2>1, <2>2, <2>3 DEF Thins, Distinct
<1>. QED  BY <1>2, <1>3, <1>4

LEMMA ThinsItself == \A s \in Lists : Distinct(s) => Thins(s, s)
  BY DEF Thins, Distinct

LEMMA ThinsFurther ==
  ASSUME NEW s \in Lists, NEW u, NEW v, Thins(u, s), Thins(v, u)
  PROVE  Thins(v, s)
<1>1. \A i \in DOMAIN v : \E p \in DOMAIN s : s[p] = v[i]
  BY DEF Thins
<1>2. ASSUME NEW i \in DOMAIN v, NEW j \in DOMAIN v, NEW p \in DOMAIN s, NEW q \in DOMAIN s,
             s[p].id = v[i].id, s[q].id = v[j].id, i < j
      PROVE  p < q
  <2>1. PICK a \in DOMAIN u : u[a] = v[i]
    BY DEF Thins
  <2>2. PICK b \in DOMAIN u : u[b] = v[j]
    BY DEF Thins
  <2>3. a < b
    BY <1>2, <2>1, <2>2 DEF Thins
  <2>. QED  BY <1>2, <2>1, <2>2, <2>3 DEF Thins
<1>. QED  BY <1>1, <1>2 DEF Thins

LEMMA RemovalThins ==
  ASSUME NEW s \in Lists, Distinct(s), NEW i \in DOMAIN s
  PROVE  /\ Thins(Coll!RemoveAt(s, i), s)
         /\ \A p \in DOMAIN s : p = i \/ s[p].id \in Coll!Ids(Coll!RemoveAt(s, i))
<1>1. PICK u : u = Coll!RemoveAt(s, i)
  OBVIOUS
<1>2. /\ u \in Lists /\ Len(u) = Len(s) - 1
      /\ \A j \in DOMAIN u : u[j] = IF j < i THEN s[j] ELSE s[j + 1]
  BY <1>1, RemovedAt
<1>3. /\ Len(s) \in Nat /\ DOMAIN s = 1 .. Len(s) /\ DOMAIN u = 1 .. Len(s) - 1
  BY <1>2 DEF Lists
<1>. DEFINE from(j) == IF j < i THEN j ELSE j + 1
<1>4. \A j \in DOMAIN u : from(j) \in DOMAIN s /\ u[j] = s[from(j)]
  BY <1>2, <1>3
<1>5. \A j, k \in DOMAIN u : j < k => from(j) < from(k)
  BY <1>3
<1>. HIDE DEF from
<1>6. Distinct(u)
  <2>. SUFFICES ASSUME NEW j \in DOMAIN u, NEW k \in DOMAIN u, u[j].id = u[k].id PROVE j = k
    BY DEF Distinct
  <2>1. from(j) = from(k)
    BY <1>4 DEF Distinct
  <2>2. ~(j < k) /\ ~(k < j)
    BY <1>3, <1>4, <1>5, <2>1
  <2>. QED  BY <1>3, <2>2
<1>7. ASSUME NEW j \in DOMAIN u, NEW k \in DOMAIN u, NEW p \in DOMAIN s, NEW q \in DOMAIN s,
             s[p].id = u[j].id, s[q].id = u[k].id, j < k
      PROVE  p < q
  <2>1. p = from(j) /\ q = from(k)
    BY <1>4, <1>7 DEF Distinct
  <2>. QED  BY <1>5, <1>7, <2>1
<1>8. Thins(u, s)
  BY <1>2, <1>4, <1>6, <1>7 DEF Thins
<1>9. ASSUME NEW p \in DOMAIN s, p # i PROVE s[p].id \in Coll!Ids(u)
  <2>1. PICK j \in DOMAIN u : from(j) = p
    <3>1. CASE p < i
      BY <1>3, <3>1 DEF from
    <3>2. CASE i < p
      <4>1. p - 1 \in DOMAIN u /\ ~(p - 1 < i) /\ (p - 1) + 1 = p
        BY <1>3, <3>2
      <4>. QED  BY <4>1 DEF from
    <3>. QED  BY <1>3, <1>9, <3>1, <3>2
  <2>. QED  BY <1>4, <2>1 DEF Coll!Ids
<1>. QED  BY <1>1, <1>8, <1>9

\* removeitem() erases a node of that item or nothing.
LEMMA WithoutThins ==
  ASSUME NEW s \in Lists, Distinct(s), NEW x
  PROVE  /\ Thins(Coll!Without(s, x), s)
         /\ \A p \in DOMAIN s : s[p].item = x \/ s[p].id \in Coll!Ids(Coll!Without(s, x))
<1>1. CASE Coll!Without(s, x) = s
  BY <1>1, ThinsItself DEF Coll!Ids
<1>2. ASSUME NEW i \in DOMAIN s, s[i].item = x, Coll!Without(s, x) = Coll!RemoveAt(s, i)
      PROVE  /\ Thins(Coll!Without(s, x), s)
             /\ \A p \in DOMAIN s : s[p].item = x \/ s[p].id \in Coll!Ids(Coll!Without(s, x))
  BY <1>2, RemovalThins
<1>. QED  BY <1>1, <1>2, WithoutIs

\* A node that is inserted.
Inserts(u, s, i, n) ==
    /\ u \in Lists /\ Len(u) = Len(s) + 1
    /\ \A j \in DOMAIN u : u[j] = IF j < i THEN s[j] ELSE IF j = i THEN n ELSE s[j - 1]

LEMMA InsertionFollows ==
  ASSUME NEW s \in Lists, Distinct(s), NEW m \in Nat, MadeBy(s, m),
         NEW i \in 1 .. Len(s) + 1, NEW n \in NodeRecord, n.id = m + 1,
         NEW u, Inserts(u, s, i, n)
  PROVE  u \in Lists /\ Distinct(u) /\ MadeBy(u, m + 1) /\ Follows(u, s, m) /\ Coll!Ids(s) \subseteq Coll!Ids(u)
<1>2. /\ u \in Lists /\ Len(u) = Len(s) + 1
      /\ \A j \in DOMAIN u : u[j] = IF j < i THEN s[j] ELSE IF j = i THEN n ELSE s[j - 1]
  BY DEF Inserts
<1>3. /\ Len(s) \in Nat /\ DOMAIN s = 1 .. Len(s) /\ DOMAIN u = 1 .. Len(s) + 1
  BY <1>2 DEF Lists
<1>. DEFINE from(j) == IF j < i THEN j ELSE j - 1
<1>4. \A j \in DOMAIN u : j # i => from(j) \in DOMAIN s /\ u[j] = s[from(j)]
  BY <1>2, <1>3
<1>5. \A j, k \in DOMAIN u : j < k /\ j # i /\ k # i => from(j) < from(k)
  BY <1>3
<1>6. u[i] = n /\ i \in DOMAIN u /\ \A p \in DOMAIN s : s[p].id # n.id /\ s[p].id \in Nat
  <2>1. \A p \in DOMAIN s : s[p].id \in Nat /\ s[p].id <= m
    <3>1. \A p \in DOMAIN s : s[p] \in NodeRecord
      BY DEF Lists
    <3>. QED  BY <3>1 DEF MadeBy, NodeRecord
  <2>2. i \in DOMAIN u /\ u[i] = n
    BY <1>2, <1>3
  <2>. QED  BY <2>1, <2>2
<1>7. \A p \in DOMAIN s : \E j \in DOMAIN u : j # i /\ from(j) = p
  <2>. TAKE p \in DOMAIN s
  <2>1. CASE p < i
    BY <1>3, <2>1
  <2>2. CASE i <= p
    <3>1. p + 1 \in DOMAIN u /\ ~(p + 1 < i) /\ p + 1 # i /\ (p + 1) - 1 = p
      BY <1>3, <2>2
    <3>. QED  BY <3>1
  <2>. QED  BY <1>3, <2>1, <2>2
<1>. HIDE DEF from
<1>8. Distinct(u)
  <2>. SUFFICES ASSUME NEW j \in DOMAIN u, NEW k \in DOMAIN u, u[j].id = u[k].id PROVE j = k
    BY DEF Distinct
  <2>1. CASE j = i \/ k = i
    BY <1>4, <1>6, <2>1
  <2>2. CASE j # i /\ k # i
    <3>1. from(j) = from(k) /\ from(j) \in DOMAIN s
      BY <1>4, <2>2 DEF Distinct
    <3>2. ~(j < k) /\ ~(k < j)
      BY <1>3, <1>5, <2>2, <3>1
    <3>. QED  BY <1>3, <3>2
  <2>. QED  BY <2>1, <2>2
<1>9. ASSUME NEW j \in DOMAIN u, NEW k \in DOMAIN u, NEW p \in DOMAIN s, NEW q \in DOMAIN s,
             s[p].id = u[j].id, s[q].id = u[k].id, j < k
      PROVE  p < q
  <2>1. j # i /\ k # i
    BY <1>6, <1>9
  <2>2. p = from(j) /\ q = from(k)
    BY <1>4, <1>9, <2>1 DEF Distinct
  <2>. QED  BY <1>5, <1>9, <2>1, <2>2
<1>10. ASSUME NEW j \in DOMAIN u PROVE u[j].id <= m + 1 /\ (u[j].id \in Coll!Ids(s) \/ ~(u[j].id <= m))
  <2>1. CASE j = i
    BY <1>6, <2>1
  <2>2. CASE j # i
    <3>1. PICK p \in DOMAIN s : u[j] = s[p]
      BY <1>4, <2>2
    <3>2. s[p].id <= m /\ s[p].id \in Nat
      BY <1>6 DEF MadeBy
    <3>. QED  BY <3>1, <3>2 DEF Coll!Ids
  <2>. QED  BY <2>1, <2>2
<1>11. Coll!Ids(s) \subseteq Coll!Ids(u)
  BY <1>4, <1>7 DEF Coll!Ids
<1>. QED  BY <1>2, <1>8, <1>9, <1>10, <1>11 DEF Follows, MadeBy


LEMMA AppendInserts ==
  ASSUME NEW s \in Lists, NEW n \in NodeRecord
  PROVE  Inserts(Append(s, n), s, Len(s) + 1, n)
<1>1. s \in Seq(NodeRecord) /\ Len(s) \in Nat
  BY DEF Lists
<1>2. PICK u : u = Append(s, n)
  OBVIOUS
<1>3. /\ u \in Seq(NodeRecord) /\ Len(u) = Len(s) + 1 /\ u[Len(s) + 1] = n
      /\ \A j \in 1 .. Len(s) : u[j] = s[j]
  BY <1>1, <1>2, AppendProperties
<1>4. DOMAIN u = 1 .. Len(s) + 1
  BY <1>3
<1>5. ASSUME NEW j \in DOMAIN u
      PROVE  u[j] = IF j < Len(s) + 1 THEN s[j] ELSE IF j = Len(s) + 1 THEN n ELSE s[j - 1]
  <2>1. CASE j = Len(s) + 1
    BY <1>1, <1>3, <2>1
  <2>2. CASE j \in 1 .. Len(s)
    BY <1>1, <1>3, <2>2
  <2>. QED  BY <1>1, <1>4, <2>1, <2>2
<1>. QED  BY <1>2, <1>3, <1>5 DEF Inserts, Lists

\* << adds nodes behind the last one.
LEMMA AppendedFollows ==
  ASSUME NEW s \in Lists, Distinct(s), made \in Nat, MadeBy(s, made), NEW t \in Lists, NoKey \notin Key,
         NEW u, u = Coll!Appended(s, t)
  PROVE  /\ u \in Lists /\ Distinct(u) /\ MadeBy(u, made + Len(t)) /\ Follows(u, s, made)
         /\ Coll!Ids(s) \subseteq Coll!Ids(u)
<1>1. PICK w : w = [i \in DOMAIN t |-> Coll!Node(made + i, NoKey, t[i].item)]
  OBVIOUS
<1>2. /\ Len(s) \in Nat /\ DOMAIN s = 1 .. Len(s) /\ Len(t) \in Nat /\ DOMAIN t = 1 .. Len(t)
      /\ \A i \in DOMAIN s : s[i] \in NodeRecord
      /\ \A i \in DOMAIN t : t[i] \in NodeRecord
  BY DEF Lists
<1>3. w \in Seq(NodeRecord) /\ Len(w) = Len(t) /\ \A i \in 1 .. Len(t) : w[i].id = made + i
  <2>1. \A i \in DOMAIN t : Coll!Node(made + i, NoKey, t[i].item) \in NodeRecord
    BY <1>2 DEF Coll!Node, NodeRecord
  <2>2. \A i \in DOMAIN t : w[i].id = made + i
    BY <1>1 DEF Coll!Node
  <2>3. w \in [1 .. Len(t) -> NodeRecord]
    BY <1>1, <1>2, <2>1
  <2>4. w \in Seq(NodeRecord)
    BY <1>2, <2>3, SeqDef
  <2>5. Len(w) = Len(t)
    BY <1>2, <2>3, <2>4, LenProperties
  <2>. QED  BY <1>2, <2>2, <2>4, <2>5
<1>4. /\ u \in Seq(NodeRecord) /\ Len(u) = Len(s) + Len(t)
      /\ \A i \in 1 .. Len(s) + Len(t) : u[i] = IF i <= Len(s) THEN s[i] ELSE w[i - Len(s)]
  <2>1. u = s \o w /\ s \in Seq(NodeRecord)
    BY <1>1 DEF Coll!Appended, Lists
  <2>2. /\ s \o w \in Seq(NodeRecord) /\ Len(s \o w) = Len(s) + Len(w)
        /\ \A i \in 1 .. Len(s) + Len(w) : (s \o w)[i] = IF i <= Len(s) THEN s[i] ELSE w[i - Len(s)]
    BY <1>3, <2>1, ConcatProperties
  <2>3. Len(w) = Len(t)
    BY <1>3
  <2>. QED  BY <2>1, <2>2, <2>3
<1>5. DOMAIN u = 1 .. Len(s) + Len(t)
  BY <1>4
<1>6. \A i \in DOMAIN s : i \in DOMAIN u /\ u[i] = s[i] /\ s[i].id <= made /\ s[i].id \in Nat
  BY <1>2, <1>4, <1>5 DEF MadeBy, NodeRecord
<1>7. ASSUME NEW i \in DOMAIN u, i \notin DOMAIN s PROVE u[i].id = made + (i - Len(s)) /\ Len(s) < i
  <2>1. PICK k \in 1 .. Len(t) : k = i - Len(s)
    BY <1>2, <1>5, <1>7
  <2>2. u[i] = w[k]
    BY <1>2, <1>4, <1>5, <1>7, <2>1
  <2>. QED  BY <1>2, <1>3, <1>5, <1>7, <2>1, <2>2
<1>8. Distinct(u)
  <2>. SUFFICES ASSUME NEW i \in DOMAIN u, NEW j \in DOMAIN u, u[i].id = u[j].id PROVE i = j
    BY DEF Distinct
  <2>1. CASE i \in DOMAIN s /\ j \in DOMAIN s
    BY <1>6, <2>1 DEF Distinct
  <2>2. CASE i \notin DOMAIN s /\ j \notin DOMAIN s
    BY <1>2, <1>5, <1>7, <2>2
  <2>3. CASE i \in DOMAIN s /\ j \notin DOMAIN s
    BY <1>2, <1>5, <1>6, <1>7, <2>3
  <2>4. CASE i \notin DOMAIN s /\ j \in DOMAIN s
    BY <1>2, <1>5, <1>6, <1>7, <2>4
  <2>. QED  BY <2>1, <2>2, <2>3, <2>4
<1>9. ASSUME NEW i \in DOMAIN u
      PROVE  u[i].id <= made + Len(t) /\ (u[i].id \in Coll!Ids(s) \/ ~(u[i].id <= made))
  <2>1. CASE i \in DOMAIN s
    BY <1>2, <1>6, <2>1 DEF Coll!Ids
  <2>2. CASE i \notin DOMAIN s
    BY <1>2, <1>5, <1>7, <2>2
  <2>. QED  BY <2>1, <2>2
<1>10. ASSUME NEW i \in DOMAIN u, NEW j \in DOMAIN u, NEW p \in DOMAIN s, NEW q \in DOMAIN s,
              s[p].id = u[i].id, s[q].id = u[j].id, i < j
       PROVE  p < q
  <2>1. p = i /\ q = j
    BY <1>6, <1>8, <1>10 DEF Distinct
  <2>. QED  BY <1>10, <2>1
<1>11. Coll!Ids(s) \subseteq Coll!Ids(u)
  BY <1>6 DEF Coll!Ids
<1>. QED  BY <1>4, <1>8, <1>9, <1>10, <1>11 DEF Follows, MadeBy, Lists

\* A node that another item is assigned to.
Reassigned(u, s, i, x) == u = [s EXCEPT ![i].item = x]

LEMMA AssignedFollows ==
  ASSUME NEW s \in Lists, Distinct(s), NEW m \in Nat, MadeBy(s, m), NEW i \in DOMAIN s, NEW x \in Item,
         NEW u, Reassigned(u, s, i, x)
  PROVE  /\ u \in Lists /\ Distinct(u) /\ MadeBy(u, m) /\ Follows(u, s, m) /\ Coll!Ids(s) \subseteq Coll!Ids(u)
         /\ Keyed(s) => Keyed(u)
<1>1. /\ s \in [1 .. Len(s) -> NodeRecord] /\ Len(s) \in Nat /\ DOMAIN s = 1 .. Len(s)
  BY DEF Lists
<1>2. DOMAIN u = DOMAIN s /\ \A j \in DOMAIN s : u[j] = IF j = i THEN [s[i] EXCEPT !.item = x] ELSE s[j]
  BY <1>1 DEF Reassigned
<1>3. [s[i] EXCEPT !.item = x] \in NodeRecord /\ [s[i] EXCEPT !.item = x].id = s[i].id
      /\ [s[i] EXCEPT !.item = x].key = s[i].key
  BY <1>1 DEF NodeRecord
<1>4. \A j \in DOMAIN s : u[j] \in NodeRecord /\ u[j].id = s[j].id /\ u[j].key = s[j].key
  BY <1>1, <1>2, <1>3
<1>5. u \in Lists
  <2>1. u \in [1 .. Len(s) -> NodeRecord]
    BY <1>1, <1>2, <1>4 DEF Reassigned
  <2>. QED  BY <1>1, <2>1, SeqDef DEF Lists
<1>6. Distinct(u) /\ (Keyed(s) => Keyed(u)) /\ MadeBy(u, m)
  BY <1>2, <1>4 DEF Distinct, Keyed, MadeBy
<1>7. Coll!Ids(s) \subseteq Coll!Ids(u) /\ \A j \in DOMAIN u : u[j].id \in Coll!Ids(s)
  BY <1>2, <1>4 DEF Coll!Ids
<1>8. ASSUME NEW j \in DOMAIN u, NEW k \in DOMAIN u, NEW p \in DOMAIN s, NEW q \in DOMAIN s,
              s[p].id = u[j].id, s[q].id = u[k].id, j < k
       PROVE  p < q
  <2>1. p = j /\ q = k
    BY <1>2, <1>4, <1>8 DEF Distinct
  <2>. QED  BY <1>8, <2>1
<1>. QED  BY <1>5, <1>6, <1>7, <1>8 DEF Follows


-----------------------------------------------------------------------------
(* >> takes the items of the other list one after the other.                   *)

\* What is left when those of the indexes in a set have been taken, by increasing index.
IsFold(f, s, t) ==
    f = [S \in SUBSET DOMAIN t |->
            IF S = {} THEN s ELSE Coll!Without(f[S \ {Coll!Max(S)}], t[Coll!Max(S)].item)]

LEMMA RemovedIs == \A s, t : Coll!Removed(s, t) = (CHOOSE f : IsFold(f, s, t))[DOMAIN t]
  BY Zenon DEF Coll!Removed, Coll!FoldLeft, Coll!MapThenFoldSet, IsFold


\* Induction over the numbers up to N, for a set: else the least that is missing would not be.
LEMMA Reached ==
  ASSUME NEW N \in Nat, NEW G, 0 \in G, \A n \in 1 .. N : n - 1 \in G => n \in G
  PROVE  \A n \in 0 .. N : n \in G
<1>. DEFINE B == {n \in 1 .. N : n \notin G}
<1>1. CASE B = {}
  <2>. SUFFICES ASSUME NEW n \in 0 .. N PROVE n \in G
    OBVIOUS
  <2>1. n = 0 \/ n \in 1 .. N
    OBVIOUS
  <2>. QED  BY <1>1, <2>1
<1>2. CASE B # {}
  <2>1. B \in SUBSET (1 .. N)
    OBVIOUS
  <2>2. Coll!Min(B) \in B /\ \A j \in B : Coll!Min(B) <= j
    <3>. HIDE DEF B
    <3>. QED  BY <1>2, <2>1, Lowest
  <2>3. PICK n \in B : \A j \in B : n <= j
    <3>. HIDE DEF B
    <3>. QED  BY <2>2
  <2>4. n \in 1 .. N /\ n \notin G
    OBVIOUS
  <2>5. n - 1 \notin G
    BY <2>4
  <2>6. n - 1 \in 1 .. N
    BY <2>4, <2>5
  <2>7. n - 1 \in B
    BY <2>5, <2>6
  <2>8. n <= n - 1
    <3>. HIDE DEF B
    <3>. QED  BY <2>3, <2>7
  <2>. QED  BY <2>4, <2>8
<1>. QED  BY <1>1, <1>2

LEMMA MaxOf ==
  ASSUME NEW n \in Nat, NEW S \in SUBSET (1 .. n), n \in S
  PROVE  Coll!Max(S) = n
<1>1. \A y \in S : n >= y
  OBVIOUS
<1>2. \A x \in S : (\A y \in S : x >= y) => x = n
  OBVIOUS
<1>. QED  BY <1>1, <1>2 DEF Coll!Max

FoldsUpTo(f, n, s, t) ==
    f = [S \in SUBSET (1 .. n) |-> IF S = {} THEN s ELSE Coll!Without(f[S \ {Coll!Max(S)}], t[Coll!Max(S)].item)]

LEMMA FoldExists ==
  ASSUME NEW s \in Lists, NEW t \in Lists
  PROVE  \E f : IsFold(f, s, t)
<1>. DEFINE G == {n \in 0 .. Len(t) : \E f : FoldsUpTo(f, n, s, t)}
<1>1. Len(t) \in Nat /\ DOMAIN t = 1 .. Len(t)
  BY DEF Lists
<1>2. 0 \in G
  <2>1. PICK f : f = [S \in SUBSET (1 .. 0) |-> s]
    OBVIOUS
  <2>2. \A S \in SUBSET (1 .. 0) : S = {}
    OBVIOUS
  <2>3. f = [S \in SUBSET (1 .. 0) |-> IF S = {} THEN s ELSE Coll!Without(f[S \ {Coll!Max(S)}], t[Coll!Max(S)].item)]
    BY <2>1, <2>2, Zenon
  <2>. QED  BY <1>1, <2>3 DEF FoldsUpTo
<1>3. ASSUME NEW n \in 1 .. Len(t), n - 1 \in G PROVE n \in G
  <2>1. PICK f : FoldsUpTo(f, n - 1, s, t)
    BY <1>3
  <2>2. \A S \in SUBSET (1 .. n - 1) :
          f[S] = IF S = {} THEN s ELSE Coll!Without(f[S \ {Coll!Max(S)}], t[Coll!Max(S)].item)
    BY <2>1 DEF FoldsUpTo
  <2>. DEFINE g == [S \in SUBSET (1 .. n) |-> IF n \in S THEN Coll!Without(f[S \ {n}], t[n].item) ELSE f[S]]
  <2>3. ASSUME NEW S \in SUBSET (1 .. n)
        PROVE  g[S] = IF S = {} THEN s ELSE Coll!Without(g[S \ {Coll!Max(S)}], t[Coll!Max(S)].item)
    <3>1. CASE n \in S
      <4>1. Coll!Max(S) = n /\ S # {}
        BY <1>1, <3>1, MaxOf
      <4>2. S \ {n} \in SUBSET (1 .. n) /\ n \notin S \ {n}
        OBVIOUS
      <4>3. g[S \ {n}] = f[S \ {n}]
        BY <4>2
      <4>4. g[S] = Coll!Without(f[S \ {n}], t[n].item)
        BY <3>1
      <4>. QED  BY <4>1, <4>3, <4>4, Zenon
    <3>2. CASE n \notin S
      <4>1. S \in SUBSET (1 .. n - 1) /\ g[S] = f[S]
        BY <1>1, <3>2
      <4>2. ASSUME NEW x PROVE g[S \ {x}] = f[S \ {x}]
        <5>1. S \ {x} \in SUBSET (1 .. n) /\ n \notin S \ {x}
          BY <3>2
        <5>. QED  BY <5>1
      <4>3. g[S \ {Coll!Max(S)}] = f[S \ {Coll!Max(S)}]
        BY <4>2, Zenon
      <4>4. f[S] = IF S = {} THEN s ELSE Coll!Without(f[S \ {Coll!Max(S)}], t[Coll!Max(S)].item)
        BY <2>2, <4>1, Zenon
      <4>. QED  BY <4>1, <4>3, <4>4, Zenon
    <3>. QED  BY <3>1, <3>2
  <2>4. PICK h : h = g
    OBVIOUS
  <2>5. h = [S \in SUBSET (1 .. n) |-> h[S]]
    BY <2>4
  <2>6. \A S \in SUBSET (1 .. n) :
          h[S] = IF S = {} THEN s ELSE Coll!Without(h[S \ {Coll!Max(S)}], t[Coll!Max(S)].item)
    <3>. HIDE DEF g
    <3>. QED  BY <2>3, <2>4, Zenon
  <2>7. FoldsUpTo(h, n, s, t)
    <3>. HIDE DEF g
    <3>. QED  BY <2>5, <2>6, Zenon DEF FoldsUpTo
  <2>. QED  BY <1>1, <2>7
<1>4. \A n \in 0 .. Len(t) : n \in G
  <2>. HIDE DEF G
  <2>. QED  BY <1>1, <1>2, <1>3, Reached
<1>5. Len(t) \in G
  <2>1. Len(t) \in 0 .. Len(t)
    BY <1>1
  <2>. HIDE DEF G
  <2>. QED  BY <1>4, <2>1
<1>6. PICK f : FoldsUpTo(f, Len(t), s, t)
  BY <1>5
<1>7. IsFold(f, s, t)
  BY <1>1, <1>6, Zenon DEF IsFold, FoldsUpTo
<1>. QED  BY <1>7

LEMMA FoldIs ==
  ASSUME NEW s \in Lists, NEW t \in Lists
  PROVE  \E f : /\ Coll!Removed(s, t) = f[1 .. Len(t)]
                /\ f[{}] = s
                /\ \A n \in 1 .. Len(t) : \A S \in SUBSET (1 .. n) :
                    n \in S => f[S] = Coll!Without(f[S \ {n}], t[n].item)
<1>1. Len(t) \in Nat /\ DOMAIN t = 1 .. Len(t)
  BY DEF Lists
<1>2. PICK f : f = CHOOSE g : IsFold(g, s, t)
  OBVIOUS
<1>3. IsFold(f, s, t)
  BY <1>2, FoldExists, Zenon
<1>4. Coll!Removed(s, t) = f[1 .. Len(t)]
  BY <1>1, <1>2, RemovedIs, Zenon
<1>5. \A S \in SUBSET (1 .. Len(t)) :
        f[S] = IF S = {} THEN s ELSE Coll!Without(f[S \ {Coll!Max(S)}], t[Coll!Max(S)].item)
  BY <1>1, <1>3 DEF IsFold
<1>6. f[{}] = s
  BY <1>5
<1>7. ASSUME NEW n \in 1 .. Len(t), NEW S \in SUBSET (1 .. n), n \in S
      PROVE  f[S] = Coll!Without(f[S \ {n}], t[n].item)
  <2>1. S \in SUBSET (1 .. Len(t)) /\ S # {}
    BY <1>1, <1>7
  <2>2. Coll!Max(S) = n
    BY <1>1, <1>7, MaxOf
  <2>. QED  BY <1>5, <2>1, <2>2, Zenon
<1>. QED  BY <1>4, <1>6, <1>7


\* What >> leaves: nodes of the other's items are gone, perhaps.
LEMMA RemovedThins ==
  ASSUME NEW s \in Lists, NEW t \in Lists, Distinct(s)
  PROVE  /\ Thins(Coll!Removed(s, t), s)
         /\ \A p \in DOMAIN s : s[p].item \in Coll!ToSet(Coll!Items(t)) \/ s[p].id \in Coll!Ids(Coll!Removed(s, t))
<1>. DEFINE Thinned(u) == /\ Thins(u, s)
                       /\ \A p \in DOMAIN s : s[p].item \in Coll!ToSet(Coll!Items(t)) \/ s[p].id \in Coll!Ids(u)
<1>1. Len(t) \in Nat /\ DOMAIN t = 1 .. Len(t)
  BY DEF Lists
<1>2. PICK f : /\ Coll!Removed(s, t) = f[1 .. Len(t)]
               /\ f[{}] = s
               /\ \A n \in 1 .. Len(t) : \A S \in SUBSET (1 .. n) :
                    n \in S => f[S] = Coll!Without(f[S \ {n}], t[n].item)
  BY FoldIs
<1>. DEFINE G == {n \in 0 .. Len(t) : Thinned(f[1 .. n])}
<1>3. 0 \in G
  <2>1. 1 .. 0 = {}
    OBVIOUS
  <2>2. Thinned(s)
    BY ThinsItself DEF Coll!Ids
  <2>3. Thinned(f[1 .. 0])
    <3>. HIDE DEF Thinned
    <3>. QED  BY <1>2, <2>1, <2>2, Zenon
  <2>. QED  BY <1>1, <2>3
<1>4. ASSUME NEW n \in 1 .. Len(t), n - 1 \in G PROVE n \in G
  <2>1. (1 .. n) \ {n} = 1 .. n - 1 /\ n \in 1 .. n
    BY <1>1
  <2>2. f[1 .. n] = Coll!Without(f[1 .. n - 1], t[n].item)
    BY <1>2, <2>1
  <2>3. Thinned(f[1 .. n - 1])
    BY <1>4
  <2>4. PICK u : u = f[1 .. n - 1]
    OBVIOUS
  <2>5. Thins(u, s) /\ u \in Lists /\ Distinct(u)
    BY <2>3, <2>4 DEF Thins
  <2>6. PICK v : v = Coll!Without(u, t[n].item)
    OBVIOUS
  <2>7. Thins(v, u) /\ \A p \in DOMAIN u : u[p].item = t[n].item \/ u[p].id \in Coll!Ids(v)
    BY <2>5, <2>6, WithoutThins
  <2>8. Thins(v, s)
    BY <2>5, <2>7, ThinsFurther
  <2>9. ASSUME NEW p \in DOMAIN s, s[p].item \notin Coll!ToSet(Coll!Items(t)) PROVE s[p].id \in Coll!Ids(v)
    <3>1. s[p].id \in Coll!Ids(u)
      BY <2>3, <2>4, <2>9
    <3>2. PICK q \in DOMAIN u : u[q].id = s[p].id
      BY <3>1 DEF Coll!Ids
    <3>3. u[q] = s[p]
      <4>1. PICK r \in DOMAIN s : s[r] = u[q]
        BY <2>5 DEF Thins
      <4>. QED  BY <3>2, <4>1 DEF Distinct
    <3>4. t[n].item \in Coll!ToSet(Coll!Items(t))
      BY <1>1 DEF Coll!ToSet, Coll!Items
    <3>. QED  BY <2>7, <2>9, <3>3, <3>4
  <2>10. Thinned(v)
    BY <2>8, <2>9
  <2>11. n \in 0 .. Len(t) /\ f[1 .. n] = v
    BY <1>1, <2>2, <2>4, <2>6
  <2>. QED  BY <2>10, <2>11
<1>5. \A n \in 0 .. Len(t) : n \in G
  <2>. HIDE DEF G
  <2>. QED  BY <1>1, <1>3, <1>4, Reached
<1>6. Len(t) \in G
  <2>1. Len(t) \in 0 .. Len(t)
    BY <1>1
  <2>. HIDE DEF G
  <2>. QED  BY <1>5, <2>1
<1>. QED  BY <1>2, <1>6


-----------------------------------------------------------------------------
(* The invariant: a list is of nodes made so far, no two the same, and the     *)
(* loops of a careful program stand at nodes of their lists, where they know   *)
(* what they have given (Walks).                                               *)
Container == Col \cup {Dict}

ListsInv ==
    /\ list \in [Container -> Lists] /\ made \in Nat /\ loops \in Seq(LoopRecord)
    /\ \A c \in Container : Distinct(list[c]) /\ MadeBy(list[c], made)
    /\ Keyed(list[Dict])
    /\ \A i \in DOMAIN loops : Bounded(loops[i], made)
    /\ careful => ~wild /\ missed = {}
    /\ careful => \A i \in DOMAIN loops :
        Walks(list[loops[i].in], loops[i]) /\ Coll!IsInjective(loops[i].given)

LEMMA LoopsTyped ==
  ASSUME ListsInv, NEW i \in DOMAIN loops
  PROVE  /\ loops[i] \in LoopRecord /\ loops[i].in \in Container /\ loops[i].at \in Nat
         /\ loops[i].given \in Seq(Nat) /\ loops[i].there \in SUBSET Nat
<1>1. loops[i] \in LoopRecord
  BY DEF ListsInv
<1>. QED  BY <1>1 DEF LoopRecord, Container

\* A list is changed under its loops.
LEMMA ListChanges ==
  ASSUME ListsInv, NEW c \in Container, NEW u \in Lists, Distinct(u),
         NEW m \in Nat, made <= m, made' = m, MadeBy(u, m), c = Dict => Keyed(u),
         list' = [list EXCEPT ![c] = u], UNCHANGED <<loops, missed, wild, careful>>,
         careful => \A i \in DOMAIN loops : loops[i].in = c => Walks(u, loops[i])
  PROVE  ListsInv'
<1>1. list' \in [Container -> Lists] /\ \A d \in Container : list'[d] = IF d = c THEN u ELSE list[d]
  BY DEF ListsInv
<1>2. made' \in Nat /\ loops' \in Seq(LoopRecord)
  BY DEF ListsInv
<1>3. ASSUME NEW d \in Container PROVE Distinct(list'[d]) /\ MadeBy(list'[d], m)
  <2>1. CASE d = c
    BY <1>1, <2>1
  <2>2. CASE d # c
    <3>1. Distinct(list[d]) /\ MadeBy(list[d], made) /\ list[d] \in Lists /\ list'[d] = list[d]
      BY <1>1, <2>2 DEF ListsInv
    <3>2. \A i \in DOMAIN list[d] : list[d][i].id \in Nat
      <4>1. \A i \in DOMAIN list[d] : list[d][i] \in NodeRecord
        BY <3>1 DEF Lists
      <4>. QED  BY <4>1 DEF NodeRecord
    <3>3. MadeBy(list[d], m)
      <4>1. made \in Nat
        BY DEF ListsInv
      <4>. QED  BY <3>1, <3>2, <4>1 DEF MadeBy
    <3>. QED  BY <3>1, <3>3
  <2>. QED  BY <2>1, <2>2
<1>4. Keyed(list'[Dict])
  <2>1. Dict \in Container
    BY DEF Container
  <2>. QED  BY <1>1, <2>1 DEF ListsInv
<1>5. ASSUME NEW i \in DOMAIN loops PROVE Bounded(loops[i], m)
  <2>1. Bounded(loops[i], made) /\ made \in Nat
    BY DEF ListsInv
  <2>2. loops[i].there \in SUBSET Nat /\ \A j \in DOMAIN loops[i].given : loops[i].given[j] \in Nat
    BY LoopsTyped
  <2>. QED  BY <2>1, <2>2 DEF Bounded
<1>6. ASSUME careful, NEW i \in DOMAIN loops PROVE Walks(list'[loops[i].in], loops[i])
  <2>1. loops[i].in \in Container /\ Walks(list[loops[i].in], loops[i])
    BY <1>6, LoopsTyped DEF ListsInv
  <2>. QED  BY <1>1, <1>6, <2>1
<1>7. careful' => ~wild' /\ missed' = {}
  BY DEF ListsInv
<1>8. careful' => \A i \in DOMAIN loops' :
        Walks(list'[loops'[i].in], loops'[i]) /\ Coll!IsInjective(loops'[i].given)
  BY <1>6 DEF ListsInv
<1>9. \A i \in DOMAIN loops' : Bounded(loops'[i], made')
  BY <1>5
<1>10. \A d \in Container : Distinct(list'[d]) /\ MadeBy(list'[d], made')
  BY <1>3
<1>. QED  BY <1>1, <1>2, <1>4, <1>7, <1>8, <1>9, <1>10 DEF ListsInv

\* The loops go on when no node at which one stands is gone.
LEMMA LoopsGoOn ==
  ASSUME ListsInv, NEW c \in Container, NEW u \in Lists, Distinct(u), Follows(u, list[c], made),
         \A n \in Coll!Current(c) : n.id \in Coll!Ids(u), careful
  PROVE  \A i \in DOMAIN loops : loops[i].in = c => Walks(u, loops[i])
<1>. SUFFICES ASSUME NEW i \in DOMAIN loops, loops[i].in = c PROVE Walks(u, loops[i])
  OBVIOUS
<1>1. list[c] \in Lists /\ Distinct(list[c]) /\ made \in Nat
  BY DEF ListsInv
<1>2. loops[i] \in LoopRecord /\ Bounded(loops[i], made) /\ Walks(list[c], loops[i])
  BY LoopsTyped DEF ListsInv
<1>3. PICK q \in DOMAIN list[c] : list[c][q].id = loops[i].at
  BY <1>2 DEF Walks
<1>4. list[c][q] \in Coll!Current(c)
  BY <1>3 DEF Coll!Current, Coll!ToSet
<1>5. loops[i].at \in Coll!Ids(u)
  BY <1>3, <1>4
<1>. QED  BY <1>1, <1>2, <1>5, WalksOn

\* Only the loops change.
LEMMA LoopsLeft ==
  ASSUME ListsInv, UNCHANGED <<list, made, missed, wild, careful>>,
         NEW n \in 0 .. Len(loops), loops' = SubSeq(loops, 1, n)
  PROVE  ListsInv'
<1>1. loops \in Seq(LoopRecord) /\ Len(loops) \in Nat
  BY DEF ListsInv
<1>2. /\ loops' \in Seq(LoopRecord) /\ DOMAIN loops' = 1 .. n
      /\ \A i \in 1 .. n : i \in DOMAIN loops /\ loops'[i] = loops[i]
  BY <1>1
<1>3. /\ \A i \in DOMAIN loops' : Bounded(loops'[i], made')
      /\ careful' => \A i \in DOMAIN loops' :
           Walks(list'[loops'[i].in], loops'[i]) /\ Coll!IsInjective(loops'[i].given)
  BY <1>2 DEF ListsInv
<1>. QED  BY <1>2, <1>3 DEF ListsInv

LEMMA ErrorKeeps == ListsInv /\ Coll!IndexError => ListsInv'
  BY LoopsLeft DEF Coll!IndexError

LEMMA WildKeeps == ListsInv /\ Coll!Wild => ListsInv'
  BY DEF ListsInv, Coll!Wild

LEMMA SameKeeps == ListsInv /\ UNCHANGED Coll!vars => ListsInv'
  BY DEF ListsInv, Coll!vars


-----------------------------------------------------------------------------
(* The operations keep the invariant.                                          *)

LEMMA ListOf ==
  ASSUME ListsInv, NEW c \in Container
  PROVE  /\ list[c] \in Lists /\ Distinct(list[c]) /\ MadeBy(list[c], made) /\ made \in Nat
         /\ Len(list[c]) \in Nat /\ DOMAIN list[c] = 1 .. Len(list[c])
<1>1. list[c] \in Lists /\ Distinct(list[c]) /\ MadeBy(list[c], made) /\ made \in Nat
  BY DEF ListsInv
<1>. QED  BY <1>1 DEF Lists

LEMMA ColsAre ==
  ASSUME Coll!CollectionsAssumption, NEW c \in Col
  PROVE  c \in Container /\ c # Dict
  BY DEF Coll!CollectionsAssumption, Container

LEMMA DictIs == Dict \in Container
  BY DEF Container

LEMMA CurrentHas ==
  ASSUME NEW c, NEW n \in Coll!Current(c)
  PROVE  \E q \in DOMAIN list[c] : list[c][q] = n
  BY DEF Coll!Current, Coll!ToSet

\* A list that has all its nodes still.
LEMMA GrowthKeeps ==
  ASSUME ListsInv, NEW c \in Container, NEW u \in Lists, Distinct(u), Follows(u, list[c], made),
         Coll!Ids(list[c]) \subseteq Coll!Ids(u), NEW m \in Nat, made <= m, made' = m, MadeBy(u, m),
         c = Dict => Keyed(u), list' = [list EXCEPT ![c] = u],
         UNCHANGED <<loops, missed, wild, careful>>
  PROVE  ListsInv'
<1>1. \A n \in Coll!Current(c) : n.id \in Coll!Ids(u)
  <2>. TAKE n \in Coll!Current(c)
  <2>1. PICK q \in DOMAIN list[c] : list[c][q] = n
    BY CurrentHas
  <2>2. n.id \in Coll!Ids(list[c])
    BY <2>1 DEF Coll!Ids
  <2>. QED  BY <2>2
<1>2. careful => \A i \in DOMAIN loops : loops[i].in = c => Walks(u, loops[i])
  BY <1>1, LoopsGoOn
<1>. QED  BY <1>2, ListChanges

\* A list that has lost nodes, none of them one at which a careful loop stands.
LEMMA LossKeeps ==
  ASSUME ListsInv, NEW c \in Container, NEW u, Thins(u, list[c]),
         careful => \A n \in Coll!Current(c) : n.id \in Coll!Ids(u),
         Coll!Set(c, u), UNCHANGED <<made, loops, missed, wild, careful>>
  PROVE  ListsInv'
<1>1. /\ list[c] \in Lists /\ MadeBy(list[c], made) /\ made \in Nat
  BY ListOf
<1>2. /\ u \in Lists /\ Distinct(u) /\ Follows(u, list[c], made) /\ MadeBy(u, made)
      /\ Keyed(list[c]) => Keyed(u)
  BY <1>1, ThinnedFollows DEF Thins
<1>3. careful => \A i \in DOMAIN loops : loops[i].in = c => Walks(u, loops[i])
  BY <1>2, LoopsGoOn
<1>4. c = Dict => Keyed(u)
  BY <1>2 DEF ListsInv
<1>5. made <= made /\ made' = made /\ list' = [list EXCEPT ![c] = u]
  BY <1>1 DEF Coll!Set
<1>. QED  BY <1>1, <1>2, <1>3, <1>4, <1>5, ListChanges

LEMMA AddKeeps ==
  ASSUME Coll!CollectionsAssumption, ListsInv, NEW c \in Col, NEW x \in Item, Coll!Add(c, x)
  PROVE  ListsInv'
<1>1. c \in Container /\ c # Dict
  BY ColsAre
<1>2. list[c] \in Lists /\ Distinct(list[c]) /\ MadeBy(list[c], made) /\ made \in Nat
      /\ Len(list[c]) + 1 \in 1 .. Len(list[c]) + 1
  BY <1>1, ListOf
<1>3. PICK n : n = Coll!Node(made + 1, NoKey, x)
  OBVIOUS
<1>4. n \in NodeRecord /\ n.id = made + 1
  BY <1>2, <1>3 DEF Coll!Node, NodeRecord
<1>5. PICK u : u = Append(list[c], n)
  OBVIOUS
<1>6. Inserts(u, list[c], Len(list[c]) + 1, n)
  BY <1>2, <1>4, <1>5, AppendInserts
<1>7. /\ u \in Lists /\ Distinct(u) /\ MadeBy(u, made + 1) /\ Follows(u, list[c], made)
      /\ Coll!Ids(list[c]) \subseteq Coll!Ids(u)
  BY <1>2, <1>4, <1>6, InsertionFollows
<1>8. made' = made + 1 /\ made + 1 \in Nat /\ made <= made + 1
  BY <1>2 DEF Coll!Add, Coll!Makes
<1>9. list' = [list EXCEPT ![c] = u] /\ UNCHANGED <<loops, missed, wild, careful>>
  BY <1>3, <1>5 DEF Coll!Add, Coll!Set
<1>. QED  BY <1>1, <1>7, <1>8, <1>9, GrowthKeeps

LEMMA InsertKeeps ==
  ASSUME Coll!CollectionsAssumption, ListsInv, NEW c \in Col, NEW x \in Item, NEW k \in Int, Coll!Insert(c, x, k)
  PROVE  ListsInv'
<1>1. c \in Container /\ c # Dict
  BY ColsAre
<1>2. CASE ~Coll!Reaches(c, k)
  BY <1>2, ErrorKeeps DEF Coll!Insert
<1>3. CASE Coll!Reaches(c, k)
  <2>1. PICK i : i = Coll!Place(c, k)
    OBVIOUS
  <2>2. list[c] \in Lists /\ Distinct(list[c]) /\ MadeBy(list[c], made) /\ made \in Nat
        /\ i \in 1 .. Len(list[c]) + 1
    <3>1. list[c] \in Lists /\ Distinct(list[c]) /\ MadeBy(list[c], made) /\ made \in Nat
          /\ Len(list[c]) \in Nat
      BY <1>1, ListOf
    <3>. QED  BY <1>3, <2>1, <3>1 DEF Coll!Place, Coll!Reaches
  <2>3. PICK n : n = Coll!Node(made + 1, NoKey, x)
    OBVIOUS
  <2>4. n \in NodeRecord /\ n.id = made + 1
    BY <2>2, <2>3 DEF Coll!Node, NodeRecord
  <2>5. PICK u : u = Coll!InsertAt(list[c], i, n)
    OBVIOUS
  <2>6. Inserts(u, list[c], i, n)
    BY <2>2, <2>4, <2>5, InsertedAt DEF Inserts
  <2>7. /\ u \in Lists /\ Distinct(u) /\ MadeBy(u, made + 1) /\ Follows(u, list[c], made)
        /\ Coll!Ids(list[c]) \subseteq Coll!Ids(u)
    BY <2>2, <2>4, <2>6, InsertionFollows
  <2>8. made' = made + 1 /\ made + 1 \in Nat /\ made <= made + 1
    BY <1>3, <2>2 DEF Coll!Insert, Coll!Makes
  <2>9. list' = [list EXCEPT ![c] = u] /\ UNCHANGED <<loops, missed, wild, careful>>
    BY <1>3, <2>1, <2>3, <2>5 DEF Coll!Insert, Coll!Set
  <2>. QED  BY <1>1, <2>7, <2>8, <2>9, GrowthKeeps
<1>. QED  BY <1>2, <1>3

\* One node is erased, by its place.
LEMMA EraseKeeps ==
  ASSUME ListsInv, NEW c \in Container, NEW i \in DOMAIN list[c], Coll!Erase(c, i),
         careful => list[c][i] \notin Coll!Current(c)
  PROVE  ListsInv'
<1>1. list[c] \in Lists /\ Distinct(list[c])
  BY ListOf
<1>2. PICK u : u = Coll!RemoveAt(list[c], i)
  OBVIOUS
<1>3. Thins(u, list[c]) /\ \A p \in DOMAIN list[c] : p = i \/ list[c][p].id \in Coll!Ids(u)
  BY <1>1, <1>2, RemovalThins
<1>4. careful => \A n \in Coll!Current(c) : n.id \in Coll!Ids(u)
  BY <1>3, CurrentHas
<1>5. Coll!Set(c, u) /\ UNCHANGED <<made, loops, missed, wild, careful>>
  BY <1>2 DEF Coll!Erase
<1>. QED  BY <1>3, <1>4, <1>5, LossKeeps

LEMMA RemoveIndexKeeps ==
  ASSUME Coll!CollectionsAssumption, ListsInv, NEW c \in Col, NEW k \in Int, Coll!RemoveIndex(c, k)
  PROVE  ListsInv'
<1>1. c \in Container /\ Len(list[c]) \in Nat /\ DOMAIN list[c] = 1 .. Len(list[c])
  BY ColsAre, ListOf
<1>2. CASE ~Coll!Reaches(c, k)
  BY <1>2, ErrorKeeps DEF Coll!RemoveIndex
<1>3. CASE Coll!Reaches(c, k) /\ Coll!Place(c, k) > Len(list[c])
  BY <1>3, WildKeeps DEF Coll!RemoveIndex
<1>4. CASE Coll!Reaches(c, k) /\ ~(Coll!Place(c, k) > Len(list[c]))
  <2>1. Coll!Place(c, k) \in DOMAIN list[c] /\ Coll!Place(c, k) = k + 1
    BY <1>1, <1>4 DEF Coll!Reaches, Coll!Place
  <2>2. Coll!Erase(c, Coll!Place(c, k)) /\ (careful => list[c][Coll!Place(c, k)] \notin Coll!Current(c))
    BY <1>4, <2>1 DEF Coll!RemoveIndex
  <2>. QED  BY <1>1, <2>1, <2>2, EraseKeeps
<1>. QED  BY <1>2, <1>3, <1>4

\* One node is given another item.
LEMMA ItemKeeps ==
  ASSUME ListsInv, NEW c \in Container, NEW i \in DOMAIN list[c], NEW x \in Item,
         list' = [list EXCEPT ![c][i].item = x], UNCHANGED <<made, loops, missed, wild, careful>>
  PROVE  ListsInv'
<1>1. list[c] \in Lists /\ Distinct(list[c]) /\ MadeBy(list[c], made) /\ made \in Nat
  BY ListOf
<1>2. PICK u : u = [list[c] EXCEPT ![i].item = x]
  OBVIOUS
<1>3. Reassigned(u, list[c], i, x)
  BY <1>2 DEF Reassigned
<1>4. /\ u \in Lists /\ Distinct(u) /\ MadeBy(u, made) /\ Follows(u, list[c], made)
      /\ Coll!Ids(list[c]) \subseteq Coll!Ids(u)
  BY <1>1, <1>3, AssignedFollows
<1>5. c = Dict => Keyed(u)
  <2>1. Keyed(list[c]) => Keyed(u)
    BY <1>1, <1>3, AssignedFollows
  <2>. QED  BY <2>1 DEF ListsInv
<1>6. list' = [list EXCEPT ![c] = u] /\ made' = made /\ made <= made
  BY <1>1, <1>2
<1>. QED  BY <1>1, <1>4, <1>5, <1>6, GrowthKeeps

LEMMA AssignItemKeeps ==
  ASSUME Coll!CollectionsAssumption, ListsInv, NEW c \in Col, NEW k \in Int, NEW x \in Item, Coll!Assign(c, k, x)
  PROVE  ListsInv'
<1>1. c \in Container /\ Len(list[c]) \in Nat /\ DOMAIN list[c] = 1 .. Len(list[c])
  BY ColsAre, ListOf
<1>2. CASE ~Coll!Reaches(c, k)
  BY <1>2, ErrorKeeps DEF Coll!Assign
<1>3. CASE Coll!Reaches(c, k) /\ Coll!Place(c, k) > Len(list[c])
  BY <1>3, WildKeeps DEF Coll!Assign
<1>4. CASE Coll!Reaches(c, k) /\ ~(Coll!Place(c, k) > Len(list[c]))
  <2>1. PICK i : i = Coll!Place(c, k)
    OBVIOUS
  <2>2. i \in DOMAIN list[c]
    BY <1>1, <1>4, <2>1 DEF Coll!Reaches, Coll!Place
  <2>3. list' = [list EXCEPT ![c][i].item = x] /\ UNCHANGED <<made, loops, missed, wild, careful>>
    BY <1>4, <2>1 DEF Coll!Assign
  <2>. QED  BY <1>1, <2>2, <2>3, ItemKeeps
<1>. QED  BY <1>2, <1>3, <1>4


\* The first node of an item is erased.
LEMMA WithoutKeeps ==
  ASSUME ListsInv, NEW c \in Container, NEW x, Coll!Set(c, Coll!Without(list[c], x)),
         careful => x \notin {n.item : n \in Coll!Current(c)},
         UNCHANGED <<made, loops, missed, wild, careful>>
  PROVE  ListsInv'
<1>1. list[c] \in Lists /\ Distinct(list[c])
  BY ListOf
<1>2. PICK u : u = Coll!Without(list[c], x)
  OBVIOUS
<1>3. Thins(u, list[c]) /\ \A p \in DOMAIN list[c] : list[c][p].item = x \/ list[c][p].id \in Coll!Ids(u)
  BY <1>1, <1>2, WithoutThins
<1>4. careful => \A n \in Coll!Current(c) : n.id \in Coll!Ids(u)
  BY <1>3, CurrentHas
<1>. QED  BY <1>2, <1>3, <1>4, LossKeeps

LEMMA RemoveItemKeeps ==
  ASSUME Coll!CollectionsAssumption, ListsInv, NEW c \in Col, NEW x \in Item, Coll!RemoveItem(c, x)
  PROVE  ListsInv'
  BY ColsAre, WithoutKeeps DEF Coll!RemoveItem

LEMMA RemoveValueKeeps ==
  ASSUME ListsInv, NEW x \in Item, Coll!RemoveValue(x)
  PROVE  ListsInv'
  BY DictIs, WithoutKeeps DEF Coll!RemoveValue

LEMMA AppendAllKeeps ==
  ASSUME Coll!CollectionsAssumption, ListsInv, NEW c \in Col, NEW d \in Col, Coll!AppendAll(c, d)
  PROVE  ListsInv'
<1>1. c \in Container /\ c # Dict /\ d \in Container /\ NoKey \notin Key
  BY ColsAre DEF Coll!CollectionsAssumption
<1>2. list[c] \in Lists /\ Distinct(list[c]) /\ MadeBy(list[c], made) /\ made \in Nat
      /\ list[d] \in Lists /\ Len(list[d]) \in Nat
  BY <1>1, ListOf
<1>3. PICK u : u = Coll!Appended(list[c], list[d])
  OBVIOUS
<1>4. /\ u \in Lists /\ Distinct(u) /\ MadeBy(u, made + Len(list[d])) /\ Follows(u, list[c], made)
      /\ Coll!Ids(list[c]) \subseteq Coll!Ids(u)
  BY <1>1, <1>2, <1>3, AppendedFollows
<1>5. PICK m : m = made + Len(list[d])
  OBVIOUS
<1>6. m \in Nat /\ made <= m /\ made' = m /\ MadeBy(u, m)
  BY <1>2, <1>4, <1>5 DEF Coll!AppendAll, Coll!Makes
<1>7. list' = [list EXCEPT ![c] = u] /\ UNCHANGED <<loops, missed, wild, careful>>
  BY <1>3 DEF Coll!AppendAll, Coll!Set
<1>. QED  BY <1>1, <1>4, <1>6, <1>7, GrowthKeeps

LEMMA RemoveAllKeeps ==
  ASSUME Coll!CollectionsAssumption, ListsInv, NEW c \in Col, NEW d \in Col, Coll!RemoveAll(c, d)
  PROVE  ListsInv'
<1>1. CASE c = d
  BY <1>1, WildKeeps DEF Coll!RemoveAll
<1>2. CASE c # d
  <2>1. c \in Container /\ d \in Container
    BY ColsAre
  <2>2. list[c] \in Lists /\ Distinct(list[c]) /\ list[d] \in Lists
    BY <2>1, ListOf
  <2>3. PICK u : u = Coll!Removed(list[c], list[d])
    OBVIOUS
  <2>4. Thins(u, list[c])
    BY <2>2, <2>3, RemovedThins
  <2>5. \A p \in DOMAIN list[c] :
          list[c][p].item \in Coll!ToSet(Coll!Items(list[d])) \/ list[c][p].id \in Coll!Ids(u)
    BY <2>2, <2>3, RemovedThins
  <2>6. careful => \A n \in Coll!Current(c) : n.item \notin Coll!ToSet(Coll!Items(list[d]))
    BY <1>2 DEF Coll!RemoveAll
  <2>7. careful => \A n \in Coll!Current(c) : n.id \in Coll!Ids(u)
    BY <2>5, <2>6, CurrentHas
  <2>8. Coll!Set(c, u) /\ UNCHANGED <<made, loops, missed, wild, careful>>
    BY <1>2, <2>3 DEF Coll!RemoveAll
  <2>. QED  BY <2>1, <2>4, <2>7, <2>8, LossKeeps
<1>. QED  BY <1>1, <1>2

\* A new key may put the others into any order, but no careful loop is over them.
LEMMA LookupKeeps ==
  ASSUME Coll!CollectionsAssumption, ListsInv, NEW k \in Key, Coll!Lookup(k)
  PROVE  ListsInv'
<1>1. CASE Coll!HasKey(k)
  BY <1>1, SameKeeps DEF Coll!Lookup, Coll!Nothing
<1>2. CASE ~Coll!HasKey(k)
  <2>. DEFINE s == list[Dict]
              N == Coll!Node(made + 1, k, Zero)
              S == Coll!ToSet(s) \cup {N}
  <2>1. s \in Lists /\ Distinct(s) /\ MadeBy(s, made) /\ made \in Nat /\ Keyed(s)
        /\ Len(s) \in Nat /\ DOMAIN s = 1 .. Len(s) /\ \A i \in DOMAIN s : s[i] \in NodeRecord
    <3>1. list[Dict] \in Lists
      BY DictIs, ListOf
    <3>2. \A i \in DOMAIN list[Dict] : list[Dict][i] \in NodeRecord
      BY <3>1 DEF Lists
    <3>3. Keyed(list[Dict])
      BY DEF ListsInv
    <3>. QED  BY <3>1, <3>2, <3>3, DictIs, ListOf
  <2>2. \A j \in DOMAIN s : s[j].key # k
    BY <1>2, <2>1, AtIs DEF Coll!HasKey
  <2>3. N \in NodeRecord /\ N.id = made + 1 /\ N.key = k
    BY <2>1 DEF Coll!Node, NodeRecord, Coll!CollectionsAssumption
  <2>4. PICK u \in Coll!SetToSeqs(S) : Coll!Set(Dict, u)
    BY <1>2 DEF Coll!Lookup
  <2>5. IsFiniteSet(S)
    <3>1. IsFiniteSet(DOMAIN s)
      <4>1. 1 \in Int /\ Len(s) \in Int
        BY <2>1
      <4>2. IsFiniteSet(1 .. Len(s))
        BY <4>1, FS_Interval
      <4>. QED  BY <2>1, <4>2
    <3>2. s \in Surjection(DOMAIN s, Coll!ToSet(s))
      <4>1. s \in [DOMAIN s -> Coll!ToSet(s)]
        BY <2>1 DEF Coll!ToSet, Lists
      <4>. QED  BY <4>1 DEF Surjection, Coll!ToSet
    <3>3. IsFiniteSet(Coll!ToSet(s))
      BY <3>1, <3>2, FS_Surjection
    <3>. QED  BY <3>3, FS_AddElement
  <2>6. PICK n \in Nat : n = Cardinality(S)
    BY <2>5, FS_CardinalityType
  <2>7. u \in [1 .. n -> S] /\ \A i, j \in 1 .. n : i # j => u[i] # u[j]
    BY <2>4, <2>6, CardinalitySame DEF Coll!SetToSeqs
  <2>8. S \subseteq NodeRecord
    BY <2>1, <2>3 DEF Coll!ToSet
  <2>9. u \in Lists /\ DOMAIN u = 1 .. n
    <3>1. u \in [1 .. n -> NodeRecord]
      BY <2>7, <2>8
    <3>. QED  BY <2>6, <3>1, SeqDef DEF Lists
  <2>10. \A a, b \in S : (a.id = b.id => a = b) /\ (a.key = b.key => a = b)
    <3>. SUFFICES ASSUME NEW a \in S, NEW b \in S
                  PROVE  (a.id = b.id => a = b) /\ (a.key = b.key => a = b)
      OBVIOUS
    <3>1. \A i \in DOMAIN s : s[i].id # made + 1 /\ s[i].key # k
      BY <2>1, <2>2 DEF MadeBy, NodeRecord
    <3>2. a = N \/ \E i \in DOMAIN s : a = s[i]
      BY DEF Coll!ToSet
    <3>3. b = N \/ \E i \in DOMAIN s : b = s[i]
      BY DEF Coll!ToSet
    <3>. HIDE DEF S, N, s
    <3>. QED  BY <2>1, <2>3, <3>1, <3>2, <3>3 DEF Distinct, Keyed
  <2>11. \A a \in S : a.id <= made + 1
    <3>1. \A i \in DOMAIN s : s[i].id <= made + 1
      BY <2>1 DEF MadeBy, NodeRecord
    <3>. QED  BY <2>1, <2>3, <3>1 DEF Coll!ToSet
  <2>12. Distinct(u) /\ Keyed(u) /\ MadeBy(u, made + 1)
    <3>. HIDE DEF S
    <3>1. \A i \in 1 .. n : u[i] \in S
      BY <2>7
    <3>. QED  BY <2>7, <2>9, <2>10, <2>11, <3>1 DEF Distinct, Keyed, MadeBy
  <2>13. made' = made + 1 /\ made + 1 \in Nat /\ made <= made + 1
    BY <1>2, <2>1 DEF Coll!Lookup, Coll!Makes
  <2>14. list' = [list EXCEPT ![Dict] = u] /\ UNCHANGED <<loops, missed, wild, careful>>
    BY <1>2, <2>4 DEF Coll!Lookup, Coll!Set
  <2>15. careful => \A i \in DOMAIN loops : loops[i].in = Dict => Walks(u, loops[i])
    BY <1>2 DEF Coll!Lookup, Coll!Over
  <2>. HIDE DEF s, N, S
  <2>. QED  BY <2>9, <2>12, <2>13, <2>14, <2>15, DictIs, ListChanges
<1>. QED  BY <1>1, <1>2

LEMMA AssignKeyKeeps ==
  ASSUME ListsInv, NEW k \in Key, NEW x \in Item, Coll!AssignKey(k, x)
  PROVE  ListsInv'
<1>1. PICK i : i = Coll!At(k)
  OBVIOUS
<1>2. i \in DOMAIN list[Dict]
  BY <1>1, DictIs, ListOf, AtIs DEF Coll!AssignKey, Coll!HasKey
<1>3. list' = [list EXCEPT ![Dict][i].item = x] /\ UNCHANGED <<made, loops, missed, wild, careful>>
  BY <1>1 DEF Coll!AssignKey
<1>. QED  BY <1>2, <1>3, DictIs, ItemKeeps

LEMMA RemoveKeyKeeps ==
  ASSUME ListsInv, NEW k \in Key, Coll!RemoveKey(k)
  PROVE  ListsInv'
<1>1. CASE ~Coll!HasKey(k)
  BY <1>1, SameKeeps DEF Coll!RemoveKey, Coll!Nothing
<1>2. CASE Coll!HasKey(k)
  <2>1. PICK i : i = Coll!At(k)
    OBVIOUS
  <2>2. i \in DOMAIN list[Dict] /\ list[Dict][i].key = k
    BY <1>2, <2>1, DictIs, ListOf, AtIs DEF Coll!HasKey
  <2>3. Coll!Erase(Dict, i) /\ (careful => k \notin {n.key : n \in Coll!Current(Dict)})
    BY <1>2, <2>1 DEF Coll!RemoveKey
  <2>4. careful => list[Dict][i] \notin Coll!Current(Dict)
    BY <2>2, <2>3
  <2>. QED  BY <2>2, <2>3, <2>4, DictIs, EraseKeeps
<1>. QED  BY <1>1, <1>2


-----------------------------------------------------------------------------
(* The loops keep the invariant.                                               *)

LEMMA ForEachKeeps ==
  ASSUME ListsInv, NEW c \in Container, Coll!ForEach(c)
  PROVE  ListsInv'
<1>1. list[c] \in Lists /\ Distinct(list[c]) /\ MadeBy(list[c], made) /\ made \in Nat
      /\ Len(list[c]) \in Nat /\ DOMAIN list[c] = 1 .. Len(list[c])
      /\ \A i \in DOMAIN list[c] : list[c][i] \in NodeRecord
  <2>1. list[c] \in Lists
    BY ListOf
  <2>2. \A i \in DOMAIN list[c] : list[c][i] \in NodeRecord
    BY <2>1 DEF Lists
  <2>. QED  BY <2>2, ListOf
<1>2. list[c] # <<>> /\ 1 \in DOMAIN list[c]
  <2>1. list[c] # <<>>
    BY DEF Coll!ForEach
  <2>. QED  BY <1>1, <2>1 DEF Lists
<1>3. PICK x \in Nat : x = list[c][1].id /\ x = Head(list[c]).id /\ x <= made
  BY <1>1, <1>2 DEF NodeRecord, MadeBy, Lists
<1>4. PICK l : l = [in |-> c, at |-> x, given |-> <<x>>, there |-> Coll!Ids(list[c])]
  OBVIOUS
<1>5. loops' = Append(loops, l) /\ UNCHANGED <<list, made, missed, wild, careful>>
  BY <1>3, <1>4 DEF Coll!ForEach
<1>6. l \in LoopRecord
  <2>1. Coll!Ids(list[c]) \in SUBSET Nat
    BY <1>1 DEF Coll!Ids, NodeRecord
  <2>2. <<x>> \in Seq(Nat)
    OBVIOUS
  <2>. QED  BY <1>4, <2>1, <2>2 DEF LoopRecord, Container
<1>7. /\ l.in = c /\ l.at = x /\ DOMAIN l.given = {1} /\ l.given[1] = x /\ l.there = Coll!Ids(list[c])
  BY <1>4
<1>8. Bounded(l, made)
  <2>1. \A y \in l.there : y <= made
    BY <1>1, <1>7 DEF Coll!Ids, MadeBy
  <2>. QED  BY <1>3, <1>7, <2>1 DEF Bounded
<1>9. Coll!IsInjective(l.given)
  BY <1>7 DEF Coll!IsInjective
<1>10. Walks(list[c], l)
  <2>1. Coll!ToSet(l.given) = {x}
    BY <1>7 DEF Coll!ToSet
  <2>2. \A p \in DOMAIN list[c] : /\ p <= 1 => p = 1
                                  /\ list[c][p].id = x => p <= 1
    BY <1>1, <1>2, <1>3 DEF Distinct
  <2>3. \A p \in DOMAIN list[c] :
          /\ p <= 1 /\ list[c][p].id \in l.there => list[c][p].id \in Coll!ToSet(l.given)
          /\ list[c][p].id \in Coll!ToSet(l.given) => p <= 1
    BY <1>3, <2>1, <2>2
  <2>4. list[c][1].id = l.at
    BY <1>3, <1>7
  <2>. QED  BY <1>2, <2>3, <2>4 DEF Walks
<1>11. loops \in Seq(LoopRecord) /\ Len(loops) \in Nat /\ DOMAIN loops = 1 .. Len(loops)
  BY DEF ListsInv
<1>12. /\ loops' \in Seq(LoopRecord) /\ DOMAIN loops' = 1 .. Len(loops) + 1
       /\ loops'[Len(loops) + 1] = l /\ \A i \in DOMAIN loops : loops'[i] = loops[i]
  <2>1. PICK z : z = Append(loops, l)
    OBVIOUS
  <2>2. /\ z \in Seq(LoopRecord) /\ Len(z) = Len(loops) + 1
        /\ \A i \in 1 .. Len(loops) : z[i] = loops[i]
        /\ z[Len(loops) + 1] = l
    BY <1>6, <1>11, <2>1, AppendProperties
  <2>3. DOMAIN z = 1 .. Len(loops) + 1
    BY <2>2
  <2>. QED  BY <1>5, <1>11, <2>1, <2>2, <2>3
<1>13. ASSUME NEW i \in DOMAIN loops'
       PROVE  /\ Bounded(loops'[i], made')
              /\ careful' => Walks(list'[loops'[i].in], loops'[i]) /\ Coll!IsInjective(loops'[i].given)
  <2>1. CASE i = Len(loops) + 1
    BY <1>5, <1>7, <1>8, <1>9, <1>10, <1>12, <2>1
  <2>2. CASE i \in DOMAIN loops
    BY <1>5, <1>12, <2>2 DEF ListsInv
  <2>. QED  BY <1>11, <1>12, <2>1, <2>2
<1>. QED  BY <1>5, <1>12, <1>13 DEF ListsInv

\* The place of the node of a loop.
PlaceOf(s, x) == Coll!SelectInSeq(s, LAMBDA n : n.id = x)

LEMMA FoundAt ==
  ASSUME NEW s \in Lists, NEW x, NEW i, i = PlaceOf(s, x)
  PROVE  \/ i = 0 /\ \A j \in DOMAIN s : s[j].id # x
         \/ i \in DOMAIN s /\ s[i].id = x
<1>. DEFINE I == {j \in 1 .. Len(s) : s[j].id = x}
<1>1. Len(s) \in Nat /\ DOMAIN s = 1 .. Len(s)
  BY DEF Lists
<1>2. CASE I = {}
  BY <1>1, <1>2 DEF PlaceOf, Coll!SelectInSeq
<1>3. CASE I # {}
  <2>1. i = Coll!Min(I)
    BY <1>3 DEF PlaceOf, Coll!SelectInSeq
  <2>2. I \in SUBSET (1 .. Len(s))
    OBVIOUS
  <2>3. Coll!Min(I) \in I
    <3>. HIDE DEF I
    <3>. QED  BY <1>1, <1>3, <2>2, Lowest
  <2>. QED  BY <1>1, <2>1, <2>3
<1>. QED  BY <1>2, <1>3

\* A loop goes on to the next node.
LEMMA WalksToNext ==
  ASSUME NEW s \in Lists, Distinct(s), NEW l \in LoopRecord, Walks(s, l), Coll!IsInjective(l.given),
         NEW i \in DOMAIN s, s[i].id = l.at, i + 1 \in DOMAIN s, NEW m \in Nat, MadeBy(s, m), Bounded(l, m),
         NEW z \in LoopRecord, z.at = s[i + 1].id, z.there = l.there, z.given = Append(l.given, s[i + 1].id)
  PROVE  Walks(s, z) /\ Coll!IsInjective(z.given) /\ Bounded(z, m)
<1>1. DOMAIN s \subseteq Nat /\ \A p \in DOMAIN s : s[p].id \in Nat
  <2>1. \A p \in DOMAIN s : s[p] \in NodeRecord
    BY DEF Lists
  <2>. QED  BY <2>1 DEF Lists, NodeRecord
<1>2. \A p \in DOMAIN s : /\ p <= i /\ s[p].id \in l.there => s[p].id \in Coll!ToSet(l.given)
                          /\ s[p].id \in Coll!ToSet(l.given) => p <= i
  <2>1. PICK q \in DOMAIN s : /\ s[q].id = l.at
                              /\ \A p \in DOMAIN s :
                                  /\ p <= q /\ s[p].id \in l.there => s[p].id \in Coll!ToSet(l.given)
                                  /\ s[p].id \in Coll!ToSet(l.given) => p <= q
    BY DEF Walks
  <2>2. q = i
    BY <2>1 DEF Distinct
  <2>. QED  BY <2>1, <2>2
<1>3. PICK x \in Nat : x = s[i + 1].id
  BY <1>1
<1>4. PICK g \in Seq(Nat) : g = l.given
  BY DEF LoopRecord
<1>5. /\ z.given \in Seq(Nat) /\ Len(g) \in Nat /\ DOMAIN g = 1 .. Len(g)
      /\ DOMAIN z.given = 1 .. Len(g) + 1
      /\ z.given[Len(g) + 1] = x /\ \A j \in DOMAIN g : z.given[j] = g[j]
  <2>1. Append(g, x) = z.given
    BY <1>3, <1>4
  <2>2. /\ Append(g, x) \in Seq(Nat) /\ Len(Append(g, x)) = Len(g) + 1
        /\ \A j \in 1 .. Len(g) : Append(g, x)[j] = g[j]
        /\ Append(g, x)[Len(g) + 1] = x
    BY AppendProperties
  <2>3. Len(g) \in Nat /\ DOMAIN g = 1 .. Len(g)
    OBVIOUS
  <2>. QED  BY <2>1, <2>2, <2>3
<1>6. Coll!ToSet(z.given) = Coll!ToSet(l.given) \cup {x}
  <2>1. \A j \in DOMAIN z.given : j \in DOMAIN g \/ j = Len(g) + 1
    BY <1>5
  <2>2. DOMAIN g \subseteq DOMAIN z.given /\ Len(g) + 1 \in DOMAIN z.given
    BY <1>5
  <2>. QED  BY <1>4, <1>5, <2>1, <2>2 DEF Coll!ToSet
<1>7. x \notin Coll!ToSet(l.given)
  <2>1. ~(i + 1 <= i)
    BY <1>1
  <2>. QED  BY <1>2, <1>3, <2>1
<1>8. \A p \in DOMAIN s : s[p].id = x <=> p = i + 1
  BY <1>3 DEF Distinct
<1>9. ASSUME NEW p \in DOMAIN s
      PROVE  /\ p <= i + 1 /\ s[p].id \in z.there => s[p].id \in Coll!ToSet(z.given)
             /\ s[p].id \in Coll!ToSet(z.given) => p <= i + 1
  <2>1. CASE p = i + 1
    BY <1>1, <1>6, <1>8, <2>1
  <2>2. CASE p # i + 1
    <3>1. s[p].id \in Coll!ToSet(z.given) <=> s[p].id \in Coll!ToSet(l.given)
      BY <1>6, <1>8, <2>2
    <3>2. (p <= i + 1 => p <= i) /\ (p <= i => p <= i + 1)
      BY <1>1, <2>2
    <3>. QED  BY <1>2, <3>1, <3>2
  <2>. QED  BY <2>1, <2>2
<1>10. Walks(s, z)
  BY <1>9 DEF Walks
<1>11. Coll!IsInjective(z.given)
  <2>. SUFFICES ASSUME NEW a \in DOMAIN z.given, NEW b \in DOMAIN z.given, z.given[a] = z.given[b]
                PROVE  a = b
    BY DEF Coll!IsInjective
  <2>1. \A j \in DOMAIN g : g[j] # x
    BY <1>4, <1>7 DEF Coll!ToSet
  <2>2. \A j \in DOMAIN z.given : j \in DOMAIN g \/ j = Len(g) + 1
    BY <1>5
  <2>3. CASE a \in DOMAIN g /\ b \in DOMAIN g
    BY <1>4, <1>5, <2>3 DEF Coll!IsInjective
  <2>. QED  BY <1>5, <2>1, <2>2, <2>3
<1>12. Bounded(z, m)
  <2>1. \A j \in DOMAIN z.given : z.given[j] <= m
    <3>1. \A j \in DOMAIN g : g[j] <= m
      BY <1>4 DEF Bounded
    <3>2. x <= m
      BY <1>3 DEF MadeBy
    <3>3. \A j \in DOMAIN z.given : j \in DOMAIN g \/ j = Len(g) + 1
      BY <1>5
    <3>. QED  BY <1>5, <3>1, <3>2, <3>3
  <2>. QED  BY <2>1 DEF Bounded
<1>. QED  BY <1>10, <1>11, <1>12

LEMMA NextItemKeeps ==
  ASSUME ListsInv, Coll!NextItem
  PROVE  ListsInv'
<1>1. PICK k : k = Len(loops)
  OBVIOUS
<1>2. loops \in Seq(LoopRecord) /\ k \in Nat /\ k >= 1 /\ DOMAIN loops = 1 .. k /\ k \in DOMAIN loops
  BY <1>1 DEF ListsInv, Coll!NextItem
<1>3. PICK l : l = loops[k]
  OBVIOUS
<1>4. l \in LoopRecord /\ l.in \in Container /\ Coll!Last(loops) = l
  BY <1>1, <1>2, <1>3, LoopsTyped DEF Coll!Last
<1>5. PICK s : s = list[l.in]
  OBVIOUS
<1>6. s \in Lists /\ Distinct(s) /\ MadeBy(s, made) /\ made \in Nat /\ Len(s) \in Nat /\ DOMAIN s = 1 .. Len(s)
  BY <1>4, <1>5, ListOf
<1>7. PICK i : i = PlaceOf(s, l.at)
  OBVIOUS
<1>8. \/ i = 0 /\ \A j \in DOMAIN s : s[j].id # l.at
      \/ i \in DOMAIN s /\ s[i].id = l.at
  BY <1>6, <1>7, FoundAt
<1>9. careful => Walks(s, l) /\ Coll!IsInjective(l.given)
  BY <1>2, <1>3, <1>5 DEF ListsInv
<1>10. Bounded(l, made)
  BY <1>2, <1>3 DEF ListsInv
<1>11. IF i = 0 THEN Coll!Wild
       ELSE IF i = Len(s)
       THEN /\ loops' = Coll!Front(loops)
            /\ missed' = missed \cup ((l.there \cap Coll!Ids(s)) \ Coll!ToSet(l.given))
            /\ UNCHANGED <<list, made, wild, careful>>
       ELSE /\ loops' = [loops EXCEPT ![Len(loops)].at = s[i + 1].id,
                                      ![Len(loops)].given = Append(@, s[i + 1].id)]
            /\ UNCHANGED <<list, made, missed, wild, careful>>
  <2>. DEFINE Goes(y, t, j) ==
          IF j = 0 THEN Coll!Wild
          ELSE IF j = Len(t)
          THEN /\ loops' = Coll!Front(loops)
               /\ missed' = missed \cup ((y.there \cap Coll!Ids(t)) \ Coll!ToSet(y.given))
               /\ UNCHANGED <<list, made, wild, careful>>
          ELSE /\ loops' = [loops EXCEPT ![Len(loops)].at = t[j + 1].id,
                                         ![Len(loops)].given = Append(@, t[j + 1].id)]
               /\ UNCHANGED <<list, made, missed, wild, careful>>
  <2>1. Goes(Coll!Last(loops), list[Coll!Last(loops).in], PlaceOf(list[Coll!Last(loops).in], Coll!Last(loops).at))
    BY Zenon DEF Coll!NextItem, PlaceOf
  <2>2. Goes(l, s, i)
    <3>. HIDE DEF Goes
    <3>. QED  BY <1>4, <1>5, <1>7, <2>1
  <2>. QED  BY <2>2
<1>12. CASE i = 0
  BY <1>11, <1>12, WildKeeps
<1>13. CASE i # 0 /\ i = Len(s)
  <2>1. /\ loops' = Coll!Front(loops) /\ UNCHANGED <<list, made, wild, careful>>
        /\ missed' = missed \cup ((l.there \cap Coll!Ids(s)) \ Coll!ToSet(l.given))
    BY <1>11, <1>13
  <2>2. /\ loops' \in Seq(LoopRecord) /\ DOMAIN loops' = 1 .. k - 1
        /\ \A j \in DOMAIN loops' : j \in DOMAIN loops /\ loops'[j] = loops[j]
    BY <1>1, <1>2, <2>1 DEF Coll!Front
  <2>3. careful => missed' = {}
    <3>. SUFFICES ASSUME careful PROVE missed' = {}
      OBVIOUS
    <3>1. PICK q \in DOMAIN s :
            /\ s[q].id = l.at
            /\ \A p \in DOMAIN s : p <= q /\ s[p].id \in l.there => s[p].id \in Coll!ToSet(l.given)
      BY <1>9 DEF Walks
    <3>2. q = Len(s)
      BY <1>6, <1>8, <1>13, <3>1 DEF Distinct
    <3>3. \A p \in DOMAIN s : p <= q
      BY <1>6, <3>2
    <3>4. l.there \cap Coll!Ids(s) \subseteq Coll!ToSet(l.given)
      BY <3>1, <3>3 DEF Coll!Ids
    <3>. QED  BY <2>1, <3>4 DEF ListsInv
  <2>4. /\ \A j \in DOMAIN loops' : Bounded(loops'[j], made')
        /\ careful' => \A j \in DOMAIN loops' :
             Walks(list'[loops'[j].in], loops'[j]) /\ Coll!IsInjective(loops'[j].given)
    BY <2>1, <2>2 DEF ListsInv
  <2>5. careful' => ~wild' /\ missed' = {}
    BY <2>1, <2>3 DEF ListsInv
  <2>. QED  BY <2>1, <2>2, <2>4, <2>5 DEF ListsInv
<1>14. CASE i # 0 /\ i # Len(s)
  <2>1. i \in DOMAIN s /\ s[i].id = l.at /\ i + 1 \in DOMAIN s
    BY <1>6, <1>8, <1>14
  <2>2. s[i + 1].id \in Nat
    <3>1. s[i + 1] \in NodeRecord
      BY <1>6, <2>1 DEF Lists
    <3>. QED  BY <3>1 DEF NodeRecord
  <2>3. PICK z : z = [l EXCEPT !.at = s[i + 1].id, !.given = Append(@, s[i + 1].id)]
    OBVIOUS
  <2>4. z \in LoopRecord /\ z.in = l.in /\ z.at = s[i + 1].id /\ z.there = l.there
        /\ z.given = Append(l.given, s[i + 1].id)
    <3>1. l.given \in Seq(Nat)
      BY <1>4 DEF LoopRecord
    <3>2. Append(l.given, s[i + 1].id) \in Seq(Nat)
      BY <2>2, <3>1
    <3>. QED  BY <1>4, <2>2, <2>3, <3>2 DEF LoopRecord
  <2>5. loops' = [loops EXCEPT ![k] = z] /\ UNCHANGED <<list, made, missed, wild, careful>>
    BY <1>1, <1>2, <1>3, <1>11, <1>14, <2>3
  <2>6. /\ loops' \in Seq(LoopRecord) /\ DOMAIN loops' = DOMAIN loops
        /\ \A j \in DOMAIN loops : loops'[j] = IF j = k THEN z ELSE loops[j]
    BY <1>2, <2>4, <2>5
  <2>7. \* the loop that goes on
        careful => Walks(s, z) /\ Coll!IsInjective(z.given)
    BY <1>4, <1>6, <1>9, <1>10, <2>1, <2>4, WalksToNext
  <2>8. Bounded(z, made)
    <3>1. PICK x : x = s[i + 1].id
      OBVIOUS
    <3>2. x <= made
      BY <1>6, <2>1, <3>1 DEF MadeBy
    <3>3. PICK g \in Seq(Nat) : g = l.given
      BY <1>4 DEF LoopRecord
    <3>4. x \in Nat /\ z.given = Append(g, x)
      BY <2>2, <2>4, <3>1, <3>3
    <3>5. \A j \in DOMAIN z.given : (j \in DOMAIN g /\ z.given[j] = g[j]) \/ z.given[j] = x
      BY <3>4
    <3>. QED  BY <1>10, <2>4, <3>2, <3>3, <3>5 DEF Bounded
  <2>9. ASSUME NEW j \in DOMAIN loops'
        PROVE  /\ Bounded(loops'[j], made')
               /\ careful' => Walks(list'[loops'[j].in], loops'[j]) /\ Coll!IsInjective(loops'[j].given)
    <3>1. CASE j = k
      BY <1>2, <1>5, <2>4, <2>5, <2>6, <2>7, <2>8, <3>1
    <3>2. CASE j # k
      BY <2>5, <2>6, <3>2 DEF ListsInv
    <3>. QED  BY <3>1, <3>2
  <2>. QED  BY <2>5, <2>6, <2>9 DEF ListsInv
<1>. QED  BY <1>12, <1>13, <1>14

LEMMA ExitForKeeps == ListsInv /\ Coll!ExitFor => ListsInv'
<1>. SUFFICES ASSUME ListsInv, Coll!ExitFor PROVE ListsInv'
  OBVIOUS
<1>1. loops \in Seq(LoopRecord) /\ loops # <<>>
  BY DEF ListsInv, Coll!ExitFor
<1>2. Len(loops) - 1 \in 0 .. Len(loops)
  BY <1>1
<1>. QED  BY <1>2, LoopsLeft DEF Coll!ExitFor, Coll!Front


LEMMA ListsStart == Coll!CollectionsAssumption /\ Coll!Init => ListsInv
<1>. SUFFICES ASSUME Coll!CollectionsAssumption, Coll!Init PROVE ListsInv
  OBVIOUS
<1>1. /\ list \in [Container -> Lists] /\ \A c \in Container : list[c] = <<>>
      /\ loops \in Seq(LoopRecord) /\ DOMAIN loops = {} /\ made \in Nat /\ ~wild /\ missed = {}
  BY DEF Coll!Init, Container, Lists
<1>2. \A c \in Container : Distinct(list[c]) /\ MadeBy(list[c], made) /\ Keyed(list[c])
  BY <1>1 DEF Distinct, MadeBy, Keyed
<1>. QED  BY <1>1, <1>2, DictIs DEF ListsInv

LEMMA ListsStep ==
  ASSUME Coll!CollectionsAssumption, ListsInv, [Coll!Next]_Coll!vars
  PROVE  ListsInv'
<1>1. ASSUME NEW c \in Col, NEW x \in Item, Coll!Add(c, x) \/ Coll!RemoveItem(c, x) PROVE ListsInv'
  BY <1>1, AddKeeps, RemoveItemKeeps
<1>2. ASSUME NEW c \in Col, NEW k \in -1 .. Len(list[c]) + 1,
             Coll!RemoveIndex(c, k) \/ \E x \in Item : Coll!Insert(c, x, k) \/ Coll!Assign(c, k, x)
      PROVE  ListsInv'
  <2>1. Len(list[c]) \in Nat
    BY ColsAre, ListOf
  <2>2. k \in Int
    BY <2>1
  <2>. QED  BY <1>2, <2>2, RemoveIndexKeeps, InsertKeeps, AssignItemKeeps
<1>3. ASSUME NEW c \in Col, NEW d \in Col, Coll!AppendAll(c, d) \/ Coll!RemoveAll(c, d) PROVE ListsInv'
  BY <1>3, AppendAllKeeps, RemoveAllKeeps
<1>4. ASSUME NEW k \in Key, Coll!Lookup(k) \/ Coll!RemoveKey(k) PROVE ListsInv'
  BY <1>4, LookupKeeps, RemoveKeyKeeps
<1>5. ASSUME NEW k \in Key, NEW x \in Item, Coll!AssignKey(k, x) PROVE ListsInv'
  BY <1>5, AssignKeyKeeps
<1>6. ASSUME NEW x \in Item, Coll!RemoveValue(x) PROVE ListsInv'
  BY <1>6, RemoveValueKeeps
<1>7. ASSUME NEW c \in Col \cup {Dict}, Coll!ForEach(c) PROVE ListsInv'
  BY <1>7, ForEachKeeps DEF Container
<1>8. CASE Coll!NextItem \/ Coll!ExitFor
  BY <1>8, NextItemKeeps, ExitForKeeps
<1>9. CASE UNCHANGED Coll!vars
  BY <1>9, SameKeeps
<1>. QED  BY <1>1, <1>2, <1>3, <1>4, <1>5, <1>6, <1>7, <1>8, <1>9 DEF Coll!Next

LEMMA ListsAlways == Coll!CollectionsAssumption => (Coll!Spec => []ListsInv)
<1>. SUFFICES ASSUME Coll!CollectionsAssumption PROVE Coll!Spec => []ListsInv
  OBVIOUS
<1>1. Coll!Init => ListsInv
  BY ListsStart
<1>2. ListsInv /\ [Coll!Next]_Coll!vars => ListsInv'
  BY ListsStep
<1>. QED  BY <1>1, <1>2, PTL DEF Coll!Spec

LEMMA LoopsAreRight == ListsInv => Coll!LoopsRight
<1>. SUFFICES ASSUME ListsInv, careful, NEW i \in DOMAIN loops
              PROVE  Coll!IsInjective(loops[i].given) /\ loops[i].at \in Coll!Ids(list[loops[i].in])
  BY DEF Coll!LoopsRight, ListsInv
<1>1. Walks(list[loops[i].in], loops[i]) /\ Coll!IsInjective(loops[i].given)
  BY DEF ListsInv
<1>. QED  BY <1>1 DEF Walks, Coll!Ids

LEMMA KeysAreDistinct == ListsInv => Coll!KeysDistinct
  BY DEF ListsInv, Keyed, Coll!KeysDistinct


-----------------------------------------------------------------------------
(* >> takes back what << has added.                                            *)

\* The places of an item, and how many there are.
Having(s, x) == {i \in DOMAIN s : s[i].item = x}
Many(s, x) == Cardinality(Having(s, x))

LEMMA HavingFinite ==
  ASSUME NEW s \in Lists, NEW x
  PROVE  IsFiniteSet(Having(s, x)) /\ Many(s, x) \in Nat /\ (Many(s, x) = 0 <=> Having(s, x) = {})
<1>1. 1 \in Int /\ Len(s) \in Int /\ DOMAIN s = 1 .. Len(s)
  BY DEF Lists
<1>2. IsFiniteSet(1 .. Len(s))
  BY <1>1, FS_Interval
<1>3. Having(s, x) \in SUBSET (1 .. Len(s))
  BY <1>1 DEF Having
<1>4. IsFiniteSet(Having(s, x))
  BY <1>2, <1>3, FS_Subset
<1>. QED  BY <1>4, FS_CardinalityType, FS_EmptySet DEF Many

LEMMA SameSize ==
  ASSUME NEW S, NEW T, IsFiniteSet(S), NEW h \in [S -> T],
         \A a, b \in S : h[a] = h[b] => a = b, \A c \in T : \E a \in S : h[a] = c
  PROVE  IsFiniteSet(T) /\ Cardinality(T) = Cardinality(S)
<1>1. h \in Bijection(S, T)
  BY DEF Bijection, Injection, Surjection, IsInjective
<1>2. ExistsBijection(S, T)
  BY <1>1 DEF ExistsBijection
<1>. QED  BY <1>2, FS_Bijection

LEMMA ManyErased ==
  ASSUME NEW s \in Lists, NEW i \in DOMAIN s, NEW x
  PROVE  Many(Coll!RemoveAt(s, i), x) = IF s[i].item = x THEN Many(s, x) - 1 ELSE Many(s, x)
<1>1. PICK u : u = Coll!RemoveAt(s, i)
  OBVIOUS
<1>2. /\ u \in Lists /\ Len(u) = Len(s) - 1
      /\ \A j \in DOMAIN u : u[j] = IF j < i THEN s[j] ELSE s[j + 1]
  BY <1>1, RemovedAt
<1>3. Len(s) \in Nat /\ DOMAIN s = 1 .. Len(s) /\ DOMAIN u = 1 .. Len(s) - 1
  BY <1>2 DEF Lists
<1>. DEFINE from(j) == IF j < i THEN j ELSE j + 1
            T == Having(s, x) \ {i}
            h == [j \in Having(u, x) |-> from(j)]
<1>4. \A j \in DOMAIN u : from(j) \in DOMAIN s /\ u[j] = s[from(j)] /\ from(j) # i
  BY <1>2, <1>3
<1>5. \A j, k \in DOMAIN u : from(j) = from(k) => j = k
  BY <1>3
<1>6. \A p \in DOMAIN s : p # i => \E j \in DOMAIN u : from(j) = p
  <2>. TAKE p \in DOMAIN s
  <2>. HAVE p # i
  <2>1. CASE p < i
    BY <1>3, <2>1
  <2>2. CASE i < p
    <3>1. p - 1 \in DOMAIN u /\ ~(p - 1 < i) /\ (p - 1) + 1 = p
      BY <1>3, <2>2
    <3>. QED  BY <3>1
  <2>. QED  BY <1>3, <2>1, <2>2
<1>. HIDE DEF from
<1>7. h \in [Having(u, x) -> T]
  BY <1>4 DEF Having
<1>8. \A a, b \in Having(u, x) : h[a] = h[b] => a = b
  BY <1>5 DEF Having
<1>9. \A c \in T : \E a \in Having(u, x) : h[a] = c
  BY <1>4, <1>6 DEF Having
<1>10. Cardinality(T) = Many(u, x)
  <2>1. IsFiniteSet(Having(u, x))
    BY <1>2, HavingFinite
  <2>. HIDE DEF h, T
  <2>2. Cardinality(T) = Cardinality(Having(u, x))
    BY <1>7, <1>8, <1>9, <2>1, SameSize
  <2>. QED  BY <2>2 DEF Many
<1>11. Cardinality(T) = IF i \in Having(s, x) THEN Cardinality(Having(s, x)) - 1 ELSE Cardinality(Having(s, x))
  BY HavingFinite, FS_RemoveElement
<1>12. i \in Having(s, x) <=> s[i].item = x
  BY DEF Having
<1>. HIDE DEF T
<1>. QED  BY <1>1, <1>10, <1>11, <1>12 DEF Many

LEMMA ManyWithout ==
  ASSUME NEW s \in Lists, NEW x, NEW y, Many(s, x) # 0
  PROVE  /\ Coll!Without(s, x) \in Lists
         /\ Many(Coll!Without(s, x), y) = IF x = y THEN Many(s, y) - 1 ELSE Many(s, y)
<1>1. PICK p \in DOMAIN s : s[p].item = x
  BY HavingFinite DEF Having
<1>2. PICK i \in DOMAIN s : s[i].item = x /\ Coll!Without(s, x) = Coll!RemoveAt(s, i)
  BY <1>1, WithoutIs
<1>3. Many(Coll!RemoveAt(s, i), y) = IF s[i].item = y THEN Many(s, y) - 1 ELSE Many(s, y)
  BY ManyErased
<1>. QED  BY <1>2, <1>3, RemovedAt

\* The nodes of u: those of s, then copies of those of t.
Joins(u, s, t) ==
    /\ u \in Lists /\ Len(u) = Len(s) + Len(t)
    /\ \A i \in DOMAIN s : i \in DOMAIN u /\ u[i] = s[i]
    /\ \A i \in DOMAIN t : Len(s) + i \in DOMAIN u /\ u[Len(s) + i].item = t[i].item

LEMMA AppendedJoins ==
  ASSUME NEW s \in Lists, NEW t \in Lists, made \in Nat
  PROVE  Joins(Coll!Appended(s, t), s, t)
<1>1. PICK w : w = [i \in DOMAIN t |-> Coll!Node(made + i, NoKey, t[i].item)]
  OBVIOUS
<1>2. /\ Len(s) \in Nat /\ DOMAIN s = 1 .. Len(s) /\ Len(t) \in Nat /\ DOMAIN t = 1 .. Len(t)
      /\ \A i \in DOMAIN t : t[i] \in NodeRecord
  BY DEF Lists
<1>3. w \in Seq(NodeRecord) /\ Len(w) = Len(t) /\ \A i \in 1 .. Len(t) : w[i].item = t[i].item
  <2>1. \A i \in DOMAIN t : Coll!Node(made + i, NoKey, t[i].item) \in NodeRecord
    BY <1>2 DEF Coll!Node, NodeRecord
  <2>2. \A i \in DOMAIN t : w[i].item = t[i].item
    BY <1>1 DEF Coll!Node
  <2>3. w \in [1 .. Len(t) -> NodeRecord]
    BY <1>1, <1>2, <2>1
  <2>4. w \in Seq(NodeRecord)
    BY <1>2, <2>3, SeqDef
  <2>5. Len(w) = Len(t)
    BY <1>2, <2>3, <2>4, LenProperties
  <2>. QED  BY <1>2, <2>2, <2>4, <2>5
<1>4. PICK u : u = Coll!Appended(s, t)
  OBVIOUS
<1>5. /\ u \in Seq(NodeRecord) /\ Len(u) = Len(s) + Len(w)
      /\ \A i \in 1 .. Len(s) + Len(w) : u[i] = IF i <= Len(s) THEN s[i] ELSE w[i - Len(s)]
  <2>1. u = s \o w /\ s \in Seq(NodeRecord)
    BY <1>1, <1>4 DEF Coll!Appended, Lists
  <2>0. s \in Seq(NodeRecord) /\ w \in Seq(NodeRecord)
    BY <1>3, <2>1
  <2>2. /\ s \o w \in Seq(NodeRecord) /\ Len(s \o w) = Len(s) + Len(w)
        /\ \A i \in 1 .. Len(s) + Len(w) : (s \o w)[i] = IF i <= Len(s) THEN s[i] ELSE w[i - Len(s)]
    BY ONLY <2>0, ConcatProperties
  <2>. QED  BY <2>1, <2>2
<1>6. Len(w) = Len(t) /\ DOMAIN u = 1 .. Len(s) + Len(t)
  BY <1>3, <1>5
<1>7. \A i \in DOMAIN s : i \in DOMAIN u /\ u[i] = s[i]
  BY <1>2, <1>5, <1>6
<1>8. ASSUME NEW i \in DOMAIN t PROVE Len(s) + i \in DOMAIN u /\ u[Len(s) + i].item = t[i].item
  <2>1. PICK k : k = Len(s) + i
    OBVIOUS
  <2>2. k \in 1 .. Len(s) + Len(w) /\ ~(k <= Len(s)) /\ k - Len(s) = i
    BY <1>2, <1>6, <2>1
  <2>3. u[k] = w[i]
    BY <1>5, <2>2
  <2>. QED  BY <1>2, <1>3, <1>6, <2>1, <2>2, <2>3
<1>9. u \in Lists /\ Len(u) = Len(s) + Len(t)
  BY <1>5, <1>6 DEF Lists
<1>. QED  BY <1>4, <1>7, <1>8, <1>9 DEF Joins

LEMMA ManyJoined ==
  ASSUME NEW s \in Lists, NEW t \in Lists, NEW u, Joins(u, s, t), NEW x
  PROVE  Many(u, x) = Many(s, x) + Many(t, x)
<1>1. /\ Len(s) \in Nat /\ DOMAIN s = 1 .. Len(s) /\ Len(t) \in Nat /\ DOMAIN t = 1 .. Len(t)
      /\ DOMAIN u = 1 .. Len(s) + Len(t) /\ u \in Lists
  BY DEF Lists, Joins
<1>. DEFINE T == {i \in DOMAIN u : i \notin DOMAIN s /\ u[i].item = x}
            h == [i \in Having(t, x) |-> Len(s) + i]
<1>2. Having(u, x) = Having(s, x) \cup T /\ Having(s, x) \cap T = {}
  BY DEF Having, Joins
<1>3. h \in [Having(t, x) -> T]
  <2>1. \A i \in Having(t, x) : Len(s) + i \in T
    <3>1. \A i \in DOMAIN t : Len(s) + i \notin DOMAIN s
      BY <1>1
    <3>. QED  BY <3>1 DEF Having, Joins
  <2>. QED  BY <2>1
<1>4. \A a, b \in Having(t, x) : h[a] = h[b] => a = b
  BY <1>1 DEF Having
<1>5. \A c \in T : \E a \in Having(t, x) : h[a] = c
  <2>. TAKE c \in T
  <2>1. c - Len(s) \in DOMAIN t /\ Len(s) + (c - Len(s)) = c
    BY <1>1
  <2>2. PICK a \in DOMAIN t : Len(s) + a = c
    BY <2>1
  <2>3. t[a].item = x
    BY <2>2 DEF Joins
  <2>4. a \in Having(t, x)
    BY <2>3 DEF Having
  <2>. QED  BY <2>2, <2>4
<1>6. IsFiniteSet(T) /\ Cardinality(T) = Many(t, x)
  <2>1. IsFiniteSet(Having(t, x))
    BY HavingFinite
  <2>. HIDE DEF T, h
  <2>. QED  BY <1>3, <1>4, <1>5, <2>1, SameSize DEF Many
<1>7. IsFiniteSet(Having(s, x)) /\ Many(s, x) \in Nat /\ Many(t, x) \in Nat
  BY HavingFinite
<1>. HIDE DEF T
<1>8. Cardinality(Having(s, x) \cup T) = Cardinality(Having(s, x)) + Cardinality(T) - Cardinality({})
  BY <1>2, <1>6, <1>7, FS_Union
<1>9. Cardinality({}) = 0
  BY FS_EmptySet
<1>. QED  BY <1>2, <1>6, <1>7, <1>8, <1>9 DEF Many


\* The places of an item behind the first n.
Behind(t, n, x) == {i \in DOMAIN t : n < i /\ t[i].item = x}

LEMMA BehindNext ==
  ASSUME NEW t \in Lists, NEW n \in DOMAIN t, NEW x
  PROVE  /\ Cardinality(Behind(t, n - 1, x)) \in Nat /\ Cardinality(Behind(t, n, x)) \in Nat
         /\ Cardinality(Behind(t, n, x)) = IF t[n].item = x THEN Cardinality(Behind(t, n - 1, x)) - 1
                                           ELSE Cardinality(Behind(t, n - 1, x))
<1>1. DOMAIN t = 1 .. Len(t) /\ Len(t) \in Nat
  BY DEF Lists
<1>2. Behind(t, n, x) = Behind(t, n - 1, x) \ {n}
  <2>1. \A i \in DOMAIN t : n < i <=> (n - 1 < i /\ i # n)
    BY <1>1
  <2>. QED  BY <2>1 DEF Behind
<1>3. n \in Behind(t, n - 1, x) <=> t[n].item = x
  <2>1. n - 1 < n
    BY <1>1
  <2>. QED  BY <2>1 DEF Behind
<1>4. IsFiniteSet(Behind(t, n - 1, x))
  <2>1. Behind(t, n - 1, x) \in SUBSET Having(t, x)
    BY DEF Behind, Having
  <2>. QED  BY <2>1, HavingFinite, FS_Subset
<1>5. /\ IsFiniteSet(Behind(t, n - 1, x) \ {n})
      /\ Cardinality(Behind(t, n - 1, x) \ {n}) =
           IF n \in Behind(t, n - 1, x) THEN Cardinality(Behind(t, n - 1, x)) - 1
           ELSE Cardinality(Behind(t, n - 1, x))
  BY <1>4, FS_RemoveElement
<1>. QED  BY <1>2, <1>3, <1>4, <1>5, FS_CardinalityType

LEMMA UndoneMany ==
  ASSUME NEW s \in Lists, NEW t \in Lists, NEW u, Joins(u, s, t)
  PROVE  \A x \in Item : Many(Coll!Removed(u, t), x) = Many(s, x)
<1>1. Len(t) \in Nat /\ DOMAIN t = 1 .. Len(t) /\ u \in Lists
  BY DEF Lists, Joins
<1>2. PICK f : /\ Coll!Removed(u, t) = f[1 .. Len(t)]
               /\ f[{}] = u
               /\ \A n \in 1 .. Len(t) : \A S \in SUBSET (1 .. n) :
                    n \in S => f[S] = Coll!Without(f[S \ {n}], t[n].item)
  BY <1>1, FoldIs
<1>. DEFINE Is(v, n) == /\ v \in Lists
                        /\ \A x \in Item : Many(v, x) = Many(s, x) + Cardinality(Behind(t, n, x))
            G == {n \in 0 .. Len(t) : Is(f[1 .. n], n)}
<1>3. 0 \in G
  <2>1. 1 .. 0 = {}
    OBVIOUS
  <2>2. ASSUME NEW x PROVE Behind(t, 0, x) = Having(t, x)
    <3>1. \A i \in DOMAIN t : 0 < i
      BY <1>1
    <3>. QED  BY <3>1 DEF Behind, Having
  <2>3. Is(u, 0)
    BY <1>1, <2>2, ManyJoined DEF Many
  <2>4. Is(f[1 .. 0], 0)
    <3>. HIDE DEF Is
    <3>. QED  BY <1>2, <2>1, <2>3, Zenon
  <2>. QED  BY <1>1, <2>4
<1>4. ASSUME NEW n \in 1 .. Len(t), n - 1 \in G PROVE n \in G
  <2>1. (1 .. n) \ {n} = 1 .. n - 1 /\ n \in 1 .. n
    BY <1>1
  <2>2. f[1 .. n] = Coll!Without(f[1 .. n - 1], t[n].item)
    BY <1>2, <2>1
  <2>3. PICK v : v = f[1 .. n - 1]
    OBVIOUS
  <2>4. Is(v, n - 1)
    BY <1>4, <2>3
  <2>5. PICK y \in Item : y = t[n].item
    <3>1. t[n] \in NodeRecord
      BY <1>1 DEF Lists
    <3>. QED  BY <3>1 DEF NodeRecord
  <2>6. ASSUME NEW x \in Item
        PROVE  /\ Many(v, x) \in Nat /\ Many(s, x) \in Nat
               /\ Cardinality(Behind(t, n - 1, x)) \in Nat /\ Cardinality(Behind(t, n, x)) \in Nat
               /\ Cardinality(Behind(t, n, x)) = IF y = x THEN Cardinality(Behind(t, n - 1, x)) - 1
                                                 ELSE Cardinality(Behind(t, n - 1, x))
    <3>1. Many(v, x) \in Nat /\ Many(s, x) \in Nat
      BY <2>4, HavingFinite
    <3>. QED  BY <1>1, <2>5, <3>1, BehindNext
  <2>7. Many(v, y) # 0
    <3>1. Cardinality(Behind(t, n, y)) = Cardinality(Behind(t, n - 1, y)) - 1
      BY <2>6
    <3>2. Many(v, y) = Many(s, y) + Cardinality(Behind(t, n - 1, y))
      BY <2>4
    <3>. QED  BY <2>6, <3>1, <3>2
  <2>8. PICK z : z = Coll!Without(v, y)
    OBVIOUS
  <2>9. z \in Lists /\ \A x \in Item : Many(z, x) = IF y = x THEN Many(v, x) - 1 ELSE Many(v, x)
    BY <2>4, <2>7, <2>8, ManyWithout
  <2>10. ASSUME NEW x \in Item PROVE Many(z, x) = Many(s, x) + Cardinality(Behind(t, n, x))
    <3>1. Many(v, x) = Many(s, x) + Cardinality(Behind(t, n - 1, x))
      BY <2>4
    <3>2. CASE y = x
      BY <2>6, <2>9, <3>1, <3>2
    <3>3. CASE y # x
      BY <2>6, <2>9, <3>1, <3>3
    <3>. QED  BY <3>2, <3>3
  <2>11. Is(z, n)
    BY <2>9, <2>10
  <2>12. n \in 0 .. Len(t) /\ f[1 .. n] = z
    BY <1>1, <2>2, <2>3, <2>5, <2>8
  <2>. QED  BY <2>11, <2>12
<1>5. \A n \in 0 .. Len(t) : n \in G
  <2>. HIDE DEF G
  <2>. QED  BY <1>1, <1>3, <1>4, Reached
<1>6. Len(t) \in G
  <2>1. Len(t) \in 0 .. Len(t)
    BY <1>1
  <2>. HIDE DEF G
  <2>. QED  BY <1>5, <2>1
<1>7. ASSUME NEW x PROVE Cardinality(Behind(t, Len(t), x)) = 0
  <2>1. Behind(t, Len(t), x) = {}
    BY <1>1 DEF Behind
  <2>. QED  BY <2>1, FS_EmptySet
<1>8. \A x \in Item : Many(f[1 .. Len(t)], x) = Many(s, x) + 0
  BY <1>6, <1>7
<1>9. \A x \in Item : Many(s, x) \in Nat
  BY HavingFinite
<1>. QED  BY <1>2, <1>8, <1>9

\* s, and the last of u from behind place n on.
Remains(v, u, s, n) ==
    /\ v \in Lists /\ Len(v) = Len(u) - n
    /\ \A i \in DOMAIN s : v[i] = s[i]
    /\ \A i \in DOMAIN v : i \notin DOMAIN s => v[i] = u[i + n]

LEMMA UndoneOrder ==
  ASSUME NEW s \in Lists, NEW t \in Lists, NEW u, Joins(u, s, t),
         Coll!ToSet(Coll!Items(s)) \cap Coll!ToSet(Coll!Items(t)) = {}
  PROVE  Coll!Removed(u, t) = s
<1>1. /\ Len(t) \in Nat /\ DOMAIN t = 1 .. Len(t) /\ u \in Lists
      /\ Len(s) \in Nat /\ DOMAIN s = 1 .. Len(s) /\ Len(u) = Len(s) + Len(t)
  BY DEF Lists, Joins
<1>2. PICK f : /\ Coll!Removed(u, t) = f[1 .. Len(t)]
               /\ f[{}] = u
               /\ \A n \in 1 .. Len(t) : \A S \in SUBSET (1 .. n) :
                    n \in S => f[S] = Coll!Without(f[S \ {n}], t[n].item)
  BY <1>1, FoldIs
<1>3. \A i \in DOMAIN s, j \in DOMAIN t : s[i].item # t[j].item
  BY DEF Coll!ToSet, Coll!Items
<1>. DEFINE G == {n \in 0 .. Len(t) : Remains(f[1 .. n], u, s, n)}
<1>4. 0 \in G
  <2>1. 1 .. 0 = {}
    OBVIOUS
  <2>2. Remains(u, u, s, 0)
    <3>1. Len(u) = Len(u) - 0 /\ \A i \in DOMAIN u : i + 0 = i
      BY <1>1 DEF Lists
    <3>. QED  BY <1>1, <3>1 DEF Remains, Joins
  <2>3. Remains(f[1 .. 0], u, s, 0)
    BY <1>2, <2>1, <2>2, Zenon
  <2>. QED  BY <1>1, <2>3
<1>5. ASSUME NEW n \in 1 .. Len(t), n - 1 \in G PROVE n \in G
  <2>1. (1 .. n) \ {n} = 1 .. n - 1 /\ n \in 1 .. n
    BY <1>1
  <2>2. f[1 .. n] = Coll!Without(f[1 .. n - 1], t[n].item)
    BY <1>2, <2>1
  <2>3. PICK v : v = f[1 .. n - 1]
    OBVIOUS
  <2>4. Remains(v, u, s, n - 1)
    BY <1>5, <2>3
  <2>5. v \in Lists /\ Len(v) = Len(s) + Len(t) - (n - 1) /\ DOMAIN v = 1 .. Len(s) + Len(t) - (n - 1)
    BY <1>1, <2>4 DEF Remains, Lists
  <2>6. PICK k : k = Len(s) + 1
    OBVIOUS
  <2>7. k \in DOMAIN v /\ k \notin DOMAIN s /\ k + (n - 1) = Len(s) + n
    BY <1>1, <2>5, <2>6
  <2>8. v[k].item = t[n].item
    BY <1>1, <2>4, <2>7 DEF Remains, Joins
  <2>9. PICK i \in DOMAIN v : /\ v[i].item = t[n].item /\ Coll!Without(v, t[n].item) = Coll!RemoveAt(v, i)
                              /\ \A j \in DOMAIN v : v[j].item = t[n].item => i <= j
    BY <2>5, <2>7, <2>8, WithoutIs
  <2>10. i = k
    <3>1. i <= k
      BY <2>7, <2>8, <2>9
    <3>2. i \notin DOMAIN s
      BY <1>1, <1>3, <2>4, <2>9 DEF Remains
    <3>. QED  BY <1>1, <2>5, <2>6, <3>1, <3>2
  <2>11. PICK z : z = Coll!RemoveAt(v, k)
    OBVIOUS
  <2>12. /\ z \in Lists /\ Len(z) = Len(v) - 1
         /\ \A j \in DOMAIN z : z[j] = IF j < k THEN v[j] ELSE v[j + 1]
    BY <2>5, <2>7, <2>11, RemovedAt
  <2>13. DOMAIN z = 1 .. Len(s) + Len(t) - n /\ Len(z) = Len(u) - n
    BY <1>1, <2>5, <2>12 DEF Lists
  <2>14. \A j \in DOMAIN s : z[j] = s[j]
    BY <1>1, <2>4, <2>6, <2>12, <2>13 DEF Remains
  <2>15. ASSUME NEW j \in DOMAIN z, j \notin DOMAIN s PROVE z[j] = u[j + n]
    <3>1. ~(j < k) /\ j + 1 \in DOMAIN v /\ j + 1 \notin DOMAIN s
      BY <1>1, <2>5, <2>6, <2>13, <2>15
    <3>2. z[j] = v[j + 1] /\ v[j + 1] = u[(j + 1) + (n - 1)]
      BY <2>4, <2>12, <3>1 DEF Remains
    <3>3. (j + 1) + (n - 1) = j + n
      BY <1>1, <2>13
    <3>. QED  BY <3>2, <3>3
  <2>16. Remains(z, u, s, n)
    BY <2>12, <2>13, <2>14, <2>15 DEF Remains
  <2>17. n \in 0 .. Len(t) /\ f[1 .. n] = z
    BY <1>1, <2>2, <2>3, <2>9, <2>10, <2>11
  <2>. QED  BY <2>16, <2>17
<1>6. \A n \in 0 .. Len(t) : n \in G
  <2>. HIDE DEF G
  <2>. QED  BY <1>1, <1>4, <1>5, Reached
<1>7. Len(t) \in G
  <2>1. Len(t) \in 0 .. Len(t)
    BY <1>1
  <2>. HIDE DEF G
  <2>. QED  BY <1>6, <2>1
<1>8. PICK v : v = Coll!Removed(u, t)
  OBVIOUS
<1>9. Remains(v, u, s, Len(t))
  BY <1>2, <1>7, <1>8
<1>10. v \in Lists /\ Len(v) = Len(s) /\ \A i \in 1 .. Len(v) : v[i] = s[i]
  BY <1>1, <1>9 DEF Remains
<1>11. v = s
  BY <1>10, SeqEqual DEF Lists
<1>. QED  BY <1>8, <1>11

LEMMA AppendsAreUndone == Coll!CollectionsAssumption /\ ListsInv => Coll!AppendUndone
<1>. SUFFICES ASSUME Coll!CollectionsAssumption, ListsInv, NEW c \in Col, NEW d \in Col
              PROVE  LET back == Coll!Removed(Coll!Appended(list[c], list[d]), list[d])
                         Count(s, x) == Coll!Cardinality({i \in DOMAIN s : s[i].item = x})
                     IN  /\ \A x \in Item : Count(back, x) = Count(list[c], x)
                         /\ Coll!ToSet(Coll!Items(list[c]))
                              \cap Coll!ToSet(Coll!Items(list[d])) = {} => back = list[c]
  BY Zenon DEF Coll!AppendUndone
<1>1. list[c] \in Lists /\ list[d] \in Lists /\ made \in Nat
  BY ColsAre, ListOf
<1>. DEFINE back == Coll!Removed(Coll!Appended(list[c], list[d]), list[d])
<1>2. Joins(Coll!Appended(list[c], list[d]), list[c], list[d])
  BY <1>1, AppendedJoins
<1>3. \A x \in Item : Many(back, x) = Many(list[c], x)
  BY <1>1, <1>2, UndoneMany
<1>4. Coll!ToSet(Coll!Items(list[c])) \cap Coll!ToSet(Coll!Items(list[d])) = {}
        => back = list[c]
  BY <1>1, <1>2, UndoneOrder
<1>5. \A s, x : Coll!Cardinality({i \in DOMAIN s : s[i].item = x}) = Many(s, x)
  BY CardinalitySame, Zenon DEF Many, Having
<1>. HIDE DEF back
<1>6. \A x \in Item : Coll!Cardinality({i \in DOMAIN back : back[i].item = x})
                        = Coll!Cardinality({i \in DOMAIN list[c] : list[c][i].item = x})
  BY <1>3, <1>5
<1>. QED  BY <1>4, <1>6, Zenon DEF back

\* A careful program never uses a node that is gone or the end of a list, and each of its
\* loops gives every node that is there throughout, and none twice (collection, dictionary).
THEOREM LoopsGiveAll == Coll!CollectionsAssumption => (Coll!Spec => []Coll!LoopsRight)
<1>. SUFFICES ASSUME Coll!CollectionsAssumption PROVE Coll!Spec => []Coll!LoopsRight
  OBVIOUS
<1>. QED  BY ListsAlways, LoopsAreRight, PTL

\* list >> d takes back what list << d has added, and a key is in the dictionary once.
THEOREM ListsKept == Coll!CollectionsAssumption => (Coll!Spec => [](Coll!AppendUndone /\ Coll!KeysDistinct))
<1>. SUFFICES ASSUME Coll!CollectionsAssumption PROVE Coll!Spec => [](Coll!AppendUndone /\ Coll!KeysDistinct)
  OBVIOUS
<1>1. ListsInv => Coll!AppendUndone /\ Coll!KeysDistinct
  BY AppendsAreUndone, KeysAreDistinct
<1>. QED  BY <1>1, ListsAlways, PTL

-----------------------------------------------------------------------------
(* The arrays of Arrays: an element for every index tuple within the bounds,   *)
(* and the table of ArraySpec.                                                 *)

CONSTANTS Arr, Elem, Initial, Program, Index, MaxSize, Careful

VARIABLES dim, data, prog

Array == INSTANCE Arrays WITH Var <- Arr, Value <- Elem, Zero <- Initial

-----------------------------------------------------------------------------
(* Products: the position of an index tuple is one digit after the other, each *)
(* in the base of its dimension.                                               *)

\* The digit b behind the number a, in base B.
Joined(a, B, b) == a * B + b

LEMMA ProductGrows ==
  ASSUME NEW a \in Int, NEW b \in Int, a <= b, NEW B \in Nat
  PROVE  a * B <= b * B
  OBVIOUS

\* A digit behind a number below A gives a number below A * B.
LEMMA DigitsFit ==
  ASSUME NEW A \in Nat, NEW B \in Nat, NEW a \in Nat, a < A, NEW b \in Nat, b < B
  PROVE  Joined(a, B, b) \in Nat /\ Joined(a, B, b) < A * B
<1>1. (a + 1) * B <= A * B
  <2>1. a + 1 <= A
    OBVIOUS
  <2>. QED  BY <2>1, ProductGrows
<1>2. (a + 1) * B = a * B + B
  OBVIOUS
<1>3. a * B \in Nat /\ A * B \in Nat
  OBVIOUS
<1>. QED  BY <1>1, <1>2, <1>3 DEF Joined

\* Behind another number it is not below A * B.
LEMMA DigitsBeyond ==
  ASSUME NEW A \in Nat, NEW B \in Nat, NEW a \in Nat, A <= a, NEW b \in Nat
  PROVE  A * B <= Joined(a, B, b)
<1>1. A * B <= a * B
  BY ProductGrows
<1>2. a * B \in Nat /\ A * B \in Nat
  OBVIOUS
<1>. QED  BY <1>1, <1>2 DEF Joined

LEMMA LeadingSmaller ==
  ASSUME NEW B \in Nat, NEW a \in Nat, NEW c \in Nat, NEW b \in Nat, NEW d \in Nat, b < B, a < c
  PROVE  a * B + b < c * B + d
<1>1. (a + 1) * B <= c * B
  <2>1. a + 1 <= c
    OBVIOUS
  <2>. QED  BY <2>1, ProductGrows
<1>2. (a + 1) * B = a * B + B
  OBVIOUS
<1>3. a * B \in Nat /\ c * B \in Nat
  OBVIOUS
<1>. QED  BY <1>1, <1>2, <1>3

\* A number has one way to be written so.
LEMMA DigitsDistinct ==
  ASSUME NEW B \in Nat, NEW a \in Nat, NEW c \in Nat, NEW b \in Nat, NEW d \in Nat, b < B, d < B,
         Joined(a, B, b) = Joined(c, B, d)
  PROVE  a = c /\ b = d
<1>. USE DEF Joined
<1>1. ~(a < c)
  <2>1. SUFFICES ASSUME a < c PROVE FALSE
    OBVIOUS
  <2>2. a * B + b < c * B + d
    BY <2>1, LeadingSmaller
  <2>3. a * B + b \in Int
    OBVIOUS
  <2>. QED  BY <2>2, <2>3
<1>2. ~(c < a)
  <2>1. SUFFICES ASSUME c < a PROVE FALSE
    OBVIOUS
  <2>2. c * B + d < a * B + b
    BY <2>1, LeadingSmaller
  <2>3. a * B + b \in Int
    OBVIOUS
  <2>. QED  BY <2>2, <2>3
<1>3. a = c
  BY <1>1, <1>2
<1>4. PICK m \in Int : m = a * B
  OBVIOUS
<1>5. m + b = m + d
  BY <1>3, <1>4
<1>. QED  BY <1>3, <1>5

-----------------------------------------------------------------------------
(* The dimensions of an array: its size and the place of an index tuple.       *)

LEMMA IndexesAreIntegers ==
  Array!ArrayAssumption => /\ \A x \in Index : x \in Int
                           /\ \A x, y \in Index : \A z \in Int : x <= z /\ z <= y => z \in Index
  BY DEF Array!ArrayAssumption

\* The dimensions that operations leave.
Shaped(dm) ==
    /\ dm \in [1..4 -> Array!Dimension]
    /\ dm[1].lo \in Index /\ dm[1].hi \in Index /\ dm[1].d = dm[1].hi - dm[1].lo + 1
    /\ \A k \in 2..4 :
        \/ dm[k].d = 0
        \/ dm[k].lo \in Index /\ dm[k].hi \in Index /\ dm[k].d = dm[k].hi - dm[k].lo + 1
    /\ dm[2].d = 0 => dm[3].d = 0
    /\ dm[3].d = 0 => dm[4].d = 0

LEMMA ShapedTypes ==
  ASSUME NEW dm, Shaped(dm), NEW k \in 1..4
  PROVE  dm[k].lo \in Int /\ dm[k].hi \in Int /\ dm[k].d \in Nat
         /\ (dm[k].d # 0 => dm[k].d = dm[k].hi - dm[k].lo + 1)
<1>1. dm[k] \in Array!Dimension
  BY DEF Shaped
<1>2. k = 1 \/ k \in 2..4
  OBVIOUS
<1>. QED  BY <1>1, <1>2 DEF Shaped, Array!Dimension

LEMMA LengthsNatural ==
  ASSUME NEW dm, Shaped(dm)
  PROVE  dm[1].d \in Nat /\ dm[2].d \in Nat /\ dm[3].d \in Nat /\ dm[4].d \in Nat
<1>1. 1 \in 1..4 /\ 2 \in 1..4 /\ 3 \in 1..4 /\ 4 \in 1..4
  OBVIOUS
<1>. QED  BY <1>1, ShapedTypes

LEMMA RankIs ==
  ASSUME NEW dm, Shaped(dm)
  PROVE  /\ Array!Rank(dm) \in 1..4
         /\ Array!Rank(dm) = 1 => dm[2].d = 0 /\ dm[3].d = 0 /\ dm[4].d = 0
         /\ Array!Rank(dm) = 2 => dm[2].d # 0 /\ dm[3].d = 0 /\ dm[4].d = 0
         /\ Array!Rank(dm) = 3 => dm[2].d # 0 /\ dm[3].d # 0 /\ dm[4].d = 0
         /\ Array!Rank(dm) = 4 => dm[2].d # 0 /\ dm[3].d # 0 /\ dm[4].d # 0
  BY DEF Shaped, Array!Rank

\* The places that one step of the first index covers, and the place within those.
Inner(dm) == IF Array!Rank(dm) = 1 THEN 1
             ELSE IF Array!Rank(dm) = 2 THEN dm[2].d
             ELSE IF Array!Rank(dm) = 3 THEN dm[2].d * dm[3].d
             ELSE dm[2].d * dm[3].d * dm[4].d

Digit(dm, i, k) == i[k] - dm[k].lo

Rest(dm, i) == IF Array!Rank(dm) = 1 THEN 0
               ELSE IF Array!Rank(dm) = 2 THEN Digit(dm, i, 2)
               ELSE IF Array!Rank(dm) = 3 THEN Joined(Digit(dm, i, 2), dm[3].d, Digit(dm, i, 3))
               ELSE Joined(Joined(Digit(dm, i, 2), dm[3].d, Digit(dm, i, 3)), dm[4].d, Digit(dm, i, 4))

LEMMA InnerIs ==
  ASSUME NEW dm, Shaped(dm)
  PROVE  Inner(dm) \in Nat /\ Array!Size(dm) = dm[1].d * Inner(dm)
<1>1. PICK a \in Nat, b \in Nat, c \in Nat, e \in Nat : a = dm[1].d /\ b = dm[2].d /\ c = dm[3].d /\ e = dm[4].d
  BY LengthsNatural
<1>2. Array!Size(dm) = a * (IF b = 0 THEN 1 ELSE b) * (IF c = 0 THEN 1 ELSE c) * (IF e = 0 THEN 1 ELSE e)
  BY <1>1, Zenon DEF Array!Size
<1>3. CASE Array!Rank(dm) = 1
  <2>1. b = 0 /\ c = 0 /\ e = 0
    BY <1>1, <1>3, RankIs
  <2>2. Inner(dm) = 1
    BY <1>3 DEF Inner
  <2>. QED  BY <1>1, <1>2, <2>1, <2>2
<1>4. CASE Array!Rank(dm) = 2
  <2>1. b # 0 /\ c = 0 /\ e = 0
    BY <1>1, <1>4, RankIs
  <2>2. Inner(dm) = b
    BY <1>1, <1>4 DEF Inner
  <2>3. a * b * 1 * 1 = a * b
    OBVIOUS
  <2>. QED  BY <1>1, <1>2, <2>1, <2>2, <2>3
<1>5. CASE Array!Rank(dm) = 3
  <2>1. b # 0 /\ c # 0 /\ e = 0
    BY <1>1, <1>5, RankIs
  <2>2. Inner(dm) = b * c
    BY <1>1, <1>5 DEF Inner
  <2>3. a * b * c * 1 = a * (b * c) /\ b * c \in Nat
    OBVIOUS
  <2>4. Array!Size(dm) = a * b * c * 1
    BY <1>2, <2>1
  <2>. QED  BY <1>1, <2>2, <2>3, <2>4
<1>6. CASE Array!Rank(dm) = 4
  <2>1. b # 0 /\ c # 0 /\ e # 0
    BY <1>1, <1>6, RankIs
  <2>2. Inner(dm) = b * c * e
    BY <1>1, <1>6 DEF Inner
  <2>3. a * b * c * e = a * (b * c * e) /\ b * c * e \in Nat
    OBVIOUS
  <2>4. Array!Size(dm) = a * b * c * e
    BY <1>2, <2>1
  <2>. QED  BY <1>1, <2>2, <2>3, <2>4
<1>. QED  BY <1>3, <1>4, <1>5, <1>6, RankIs

LEMMA OffsetIs ==
  ASSUME NEW dm, Shaped(dm), NEW i \in [1..Array!Rank(dm) -> Int]
  PROVE  Array!Offset(dm, i) = Joined(Digit(dm, i, 1), Inner(dm), Rest(dm, i))
<1>. USE DEF Joined
<1>1. PICK b \in Nat, c \in Nat, e \in Nat : b = dm[2].d /\ c = dm[3].d /\ e = dm[4].d
  BY LengthsNatural
<1>2. PICK r \in 1..4 : r = Array!Rank(dm)
  BY RankIs
<1>3. i \in Seq(Int) /\ Len(i) = r
  BY <1>2
<1>4. \A k \in 1..r : Digit(dm, i, k) \in Int
  BY <1>2, ShapedTypes DEF Digit
<1>5. CASE r = 1
  <2>1. Array!Offset(dm, i) = Digit(dm, i, 1)
    BY <1>3, <1>5 DEF Array!Offset, Digit
  <2>2. Inner(dm) = 1 /\ Rest(dm, i) = 0
    BY <1>2, <1>5 DEF Inner, Rest, Joined
  <2>3. PICK x \in Int : x = Digit(dm, i, 1)
    BY <1>4, <1>5
  <2>. QED  BY <2>1, <2>2, <2>3
<1>6. CASE r = 2
  <2>1. Array!Offset(dm, i) = Digit(dm, i, 1) * b + Digit(dm, i, 2)
    BY <1>1, <1>3, <1>6 DEF Array!Offset, Digit
  <2>2. Inner(dm) = b /\ Rest(dm, i) = Digit(dm, i, 2)
    BY <1>1, <1>2, <1>6 DEF Inner, Rest
  <2>. QED  BY <2>1, <2>2
<1>7. CASE r = 3
  <2>1. Array!Offset(dm, i) = Digit(dm, i, 1) * b * c + Digit(dm, i, 2) * c + Digit(dm, i, 3)
    BY <1>1, <1>3, <1>7 DEF Array!Offset, Digit
  <2>2. Inner(dm) = b * c /\ Rest(dm, i) = Digit(dm, i, 2) * c + Digit(dm, i, 3)
    BY <1>1, <1>2, <1>7 DEF Inner, Rest, Joined
  <2>3. PICK x \in Int, y \in Int, z \in Int : x = Digit(dm, i, 1) /\ y = Digit(dm, i, 2) /\ z = Digit(dm, i, 3)
    BY <1>4, <1>7
  <2>4. x * b * c + y * c + z = x * (b * c) + (y * c + z)
    OBVIOUS
  <2>. QED  BY <2>1, <2>2, <2>3, <2>4
<1>8. CASE r = 4
  <2>1. Array!Offset(dm, i) = Digit(dm, i, 1) * b * c * e + Digit(dm, i, 2) * c * e
                                + Digit(dm, i, 3) * e + Digit(dm, i, 4)
    BY <1>1, <1>3, <1>8 DEF Array!Offset, Digit
  <2>2. Inner(dm) = b * c * e /\ Rest(dm, i) = (Digit(dm, i, 2) * c + Digit(dm, i, 3)) * e + Digit(dm, i, 4)
    BY <1>1, <1>2, <1>8 DEF Inner, Rest, Joined
  <2>3. PICK x \in Int, y \in Int, z \in Int, w \in Int :
          x = Digit(dm, i, 1) /\ y = Digit(dm, i, 2) /\ z = Digit(dm, i, 3) /\ w = Digit(dm, i, 4)
    BY <1>4, <1>8
  <2>4. x * b * c * e + y * c * e + z * e + w = x * (b * c * e) + ((y * c + z) * e + w)
    OBVIOUS
  <2>. QED  BY <2>1, <2>2, <2>3, <2>4
<1>. QED  BY <1>5, <1>6, <1>7, <1>8

\* Every index but the first is within its bounds.
InnerWithin(dm, i) == \A k \in 2..Array!Rank(dm) : dm[k].lo <= i[k] /\ i[k] <= dm[k].hi

LEMMA DigitBelow ==
  ASSUME NEW dm, Shaped(dm), NEW k \in 1..4, dm[k].d # 0, NEW i, i[k] \in Int, dm[k].lo <= i[k], i[k] <= dm[k].hi
  PROVE  Digit(dm, i, k) \in Nat /\ Digit(dm, i, k) < dm[k].d
  BY ShapedTypes DEF Digit

LEMMA RestFits ==
  ASSUME NEW dm, Shaped(dm), NEW i \in [1..Array!Rank(dm) -> Int], InnerWithin(dm, i)
  PROVE  Rest(dm, i) \in Nat /\ Rest(dm, i) < Inner(dm)
<1>1. PICK b \in Nat, c \in Nat, e \in Nat : b = dm[2].d /\ c = dm[3].d /\ e = dm[4].d
  BY LengthsNatural
<1>2. PICK r \in 1..4 : r = Array!Rank(dm)
  BY RankIs
<1>3. ASSUME NEW k \in 2..r PROVE Digit(dm, i, k) \in Nat /\ Digit(dm, i, k) < dm[k].d
  <2>1. dm[k].d # 0
    BY <1>2, RankIs
  <2>2. i[k] \in Int /\ dm[k].lo <= i[k] /\ i[k] <= dm[k].hi
    BY <1>2 DEF InnerWithin
  <2>3. k \in 1..4
    BY <1>2
  <2>. QED  BY <2>1, <2>2, <2>3, DigitBelow
<1>5. CASE r = 1
  BY <1>2, <1>5 DEF Inner, Rest
<1>6. CASE r = 2
  <2>2. Inner(dm) = b /\ Rest(dm, i) = Digit(dm, i, 2)
    BY <1>1, <1>2, <1>6 DEF Inner, Rest
  <2>. QED  BY <1>1, <1>3, <1>6, <2>2
<1>7. CASE r = 3
  <2>2. Inner(dm) = b * c /\ Rest(dm, i) = Joined(Digit(dm, i, 2), c, Digit(dm, i, 3))
    BY <1>1, <1>2, <1>7 DEF Inner, Rest
  <2>3. PICK y \in Nat, z \in Nat : y = Digit(dm, i, 2) /\ z = Digit(dm, i, 3) /\ y < b /\ z < c
    BY <1>1, <1>3, <1>7
  <2>4. Joined(y, c, z) \in Nat /\ Joined(y, c, z) < b * c
    BY <2>3, DigitsFit
  <2>. QED  BY <2>2, <2>3, <2>4
<1>8. CASE r = 4
  <2>2. Inner(dm) = b * c * e /\ Rest(dm, i) = Joined(Joined(Digit(dm, i, 2), c, Digit(dm, i, 3)), e, Digit(dm, i, 4))
    BY <1>1, <1>2, <1>8 DEF Inner, Rest
  <2>3. PICK y \in Nat, z \in Nat, w \in Nat :
          /\ y = Digit(dm, i, 2) /\ z = Digit(dm, i, 3) /\ w = Digit(dm, i, 4)
          /\ y < b /\ z < c /\ w < e
    BY <1>1, <1>3, <1>8
  <2>4. Joined(y, c, z) \in Nat /\ Joined(y, c, z) < b * c
    BY <2>3, DigitsFit
  <2>5. PICK t \in Nat, m \in Nat : t = Joined(y, c, z) /\ m = b * c
    BY <2>4
  <2>6. Joined(t, e, w) \in Nat /\ Joined(t, e, w) < m * e
    <3>1. t < m /\ w < e
      BY <2>3, <2>4, <2>5
    <3>. QED  BY <3>1, DigitsFit
  <2>. QED  BY <2>2, <2>3, <2>5, <2>6
<1>. QED  BY <1>5, <1>6, <1>7, <1>8

LEMMA RestDistinct ==
  ASSUME NEW dm, Shaped(dm), NEW i \in [1..Array!Rank(dm) -> Int], NEW j \in [1..Array!Rank(dm) -> Int],
         InnerWithin(dm, i), InnerWithin(dm, j), Rest(dm, i) = Rest(dm, j)
  PROVE  \A k \in 2..Array!Rank(dm) : i[k] = j[k]
<1>1. PICK b \in Nat, c \in Nat, e \in Nat : b = dm[2].d /\ c = dm[3].d /\ e = dm[4].d
  BY LengthsNatural
<1>2. PICK r \in 1..4 : r = Array!Rank(dm)
  BY RankIs
<1>3. ASSUME NEW k \in 2..r
      PROVE  /\ Digit(dm, i, k) \in Nat /\ Digit(dm, i, k) < dm[k].d
             /\ Digit(dm, j, k) \in Nat /\ Digit(dm, j, k) < dm[k].d
             /\ (Digit(dm, i, k) = Digit(dm, j, k) => i[k] = j[k])
  <2>1. dm[k].d # 0
    BY <1>2, RankIs
  <2>2. i[k] \in Int /\ dm[k].lo <= i[k] /\ i[k] <= dm[k].hi
    BY <1>2 DEF InnerWithin
  <2>3. j[k] \in Int /\ dm[k].lo <= j[k] /\ j[k] <= dm[k].hi
    BY <1>2 DEF InnerWithin
  <2>4. k \in 1..4 /\ dm[k].lo \in Int
    BY <1>2, ShapedTypes
  <2>5. Digit(dm, i, k) = Digit(dm, j, k) => i[k] = j[k]
    BY <2>2, <2>3, <2>4 DEF Digit
  <2>. QED  BY <2>1, <2>2, <2>3, <2>4, <2>5, DigitBelow
<1>5. CASE r = 1
  BY <1>2, <1>5
<1>6. CASE r = 2
  <2>1. Digit(dm, i, 2) = Digit(dm, j, 2)
    BY <1>2, <1>6 DEF Rest
  <2>2. i[2] = j[2]
    BY <1>3, <1>6, <2>1
  <2>. QED  BY <1>2, <1>6, <2>2
<1>7. CASE r = 3
  <2>1. PICK y \in Nat, z \in Nat : y = Digit(dm, i, 2) /\ z = Digit(dm, i, 3) /\ z < c
    BY <1>1, <1>3, <1>7
  <2>2. PICK p \in Nat, q \in Nat : p = Digit(dm, j, 2) /\ q = Digit(dm, j, 3) /\ q < c
    BY <1>1, <1>3, <1>7
  <2>3. Joined(y, c, z) = Joined(p, c, q)
    BY <1>1, <1>2, <1>7, <2>1, <2>2 DEF Rest
  <2>4. y = p /\ z = q
    BY <2>1, <2>2, <2>3, DigitsDistinct
  <2>5. i[2] = j[2] /\ i[3] = j[3]
    BY <1>3, <1>7, <2>1, <2>2, <2>4
  <2>. QED  BY <1>2, <1>7, <2>5
<1>8. CASE r = 4
  <2>1. PICK y \in Nat, z \in Nat, w \in Nat :
          y = Digit(dm, i, 2) /\ z = Digit(dm, i, 3) /\ w = Digit(dm, i, 4) /\ z < c /\ w < e
    BY <1>1, <1>3, <1>8
  <2>2. PICK p \in Nat, q \in Nat, u \in Nat :
          p = Digit(dm, j, 2) /\ q = Digit(dm, j, 3) /\ u = Digit(dm, j, 4) /\ q < c /\ u < e
    BY <1>1, <1>3, <1>8
  <2>3. Joined(Joined(y, c, z), e, w) = Joined(Joined(p, c, q), e, u)
    BY <1>1, <1>2, <1>8, <2>1, <2>2 DEF Rest
  <2>4. PICK s \in Nat, t \in Nat : s = Joined(y, c, z) /\ t = Joined(p, c, q)
    BY DEF Joined
  <2>5. s = t /\ w = u
    <3>1. Joined(s, e, w) = Joined(t, e, u)
      BY <2>3, <2>4
    <3>2. w < e /\ u < e
      BY <2>1, <2>2
    <3>. QED  BY <3>1, <3>2, DigitsDistinct
  <2>6. y = p /\ z = q
    <3>1. Joined(y, c, z) = Joined(p, c, q)
      BY <2>4, <2>5
    <3>2. z < c /\ q < c
      BY <2>1, <2>2
    <3>. QED  BY <3>1, <3>2, DigitsDistinct
  <2>7. i[2] = j[2] /\ i[3] = j[3] /\ i[4] = j[4]
    BY <1>3, <1>8, <2>1, <2>2, <2>5, <2>6
  <2>. QED  BY <1>2, <1>8, <2>7
<1>. QED  BY <1>5, <1>6, <1>7, <1>8

\* What is within the bounds has a place, which is a number below the size.
LEMMA PlaceFits ==
  ASSUME NEW dm, Shaped(dm), NEW i \in [1..Array!Rank(dm) -> Int], Array!Within(dm, i)
  PROVE  Array!Offset(dm, i) \in Nat /\ Array!Offset(dm, i) < Array!Size(dm)
<1>1. DOMAIN i = 1..Array!Rank(dm) /\ Array!Rank(dm) \in 1..4
  BY RankIs
<1>2. InnerWithin(dm, i)
  BY <1>1 DEF InnerWithin, Array!Within
<1>3. i[1] \in Int /\ dm[1].lo <= i[1] /\ i[1] <= dm[1].hi
  BY <1>1 DEF Array!Within
<1>4. PICK A \in Nat, l \in Int, h \in Int : A = dm[1].d /\ l = dm[1].lo /\ h = dm[1].hi /\ A = h - l + 1
  <2>1. dm[1].lo \in Int /\ dm[1].hi \in Int /\ dm[1].d \in Nat
    BY ShapedTypes
  <2>2. dm[1].d = dm[1].hi - dm[1].lo + 1
    BY DEF Shaped
  <2>. QED  BY <2>1, <2>2
<1>5. PICK a \in Nat : a = Digit(dm, i, 1) /\ a < A
  BY <1>3, <1>4 DEF Digit
<1>6. PICK B \in Nat, b \in Nat : B = Inner(dm) /\ b = Rest(dm, i) /\ b < B
  BY <1>2, RestFits, InnerIs
<1>7. Joined(a, B, b) \in Nat /\ Joined(a, B, b) < A * B
  BY <1>5, <1>6, DigitsFit
<1>. QED  BY <1>4, <1>5, <1>6, <1>7, OffsetIs, InnerIs

\* Different index tuples have different places.
LEMMA PlacesDistinct ==
  ASSUME NEW dm, Shaped(dm), NEW i \in [1..Array!Rank(dm) -> Int], NEW j \in [1..Array!Rank(dm) -> Int],
         Array!Within(dm, i), Array!Within(dm, j), Array!Offset(dm, i) = Array!Offset(dm, j)
  PROVE  i = j
<1>1. DOMAIN i = 1..Array!Rank(dm) /\ DOMAIN j = 1..Array!Rank(dm) /\ Array!Rank(dm) \in 1..4
  BY RankIs
<1>2. InnerWithin(dm, i) /\ InnerWithin(dm, j)
  BY <1>1 DEF InnerWithin, Array!Within
<1>3. /\ i[1] \in Int /\ dm[1].lo <= i[1]
      /\ j[1] \in Int /\ dm[1].lo <= j[1] /\ dm[1].lo \in Int
  BY <1>1, ShapedTypes DEF Array!Within
<1>4. PICK a \in Nat, c \in Nat : a = Digit(dm, i, 1) /\ c = Digit(dm, j, 1)
  BY <1>3 DEF Digit
<1>5. PICK B \in Nat, b \in Nat, d \in Nat : B = Inner(dm) /\ b = Rest(dm, i) /\ d = Rest(dm, j) /\ b < B /\ d < B
  BY <1>2, RestFits, InnerIs
<1>6. Joined(a, B, b) = Joined(c, B, d)
  BY <1>4, <1>5, OffsetIs
<1>7. a = c /\ b = d
  BY <1>5, <1>6, DigitsDistinct
<1>8. i[1] = j[1]
  BY <1>3, <1>4, <1>7 DEF Digit
<1>9. \A k \in 2..Array!Rank(dm) : i[k] = j[k]
  BY <1>2, <1>5, <1>7, RestDistinct
<1>10. \A k \in 1..Array!Rank(dm) : i[k] = j[k]
  BY <1>1, <1>8, <1>9
<1>. QED  BY <1>1, <1>10

-----------------------------------------------------------------------------
(* The scan of >>: what it leaves is what is not equal to the item, in order.  *)

\* u has the elements of s that are not in gone, in their order.
Thinned(u, s, gone) ==
    \E f \in [1..Len(u) -> DOMAIN s] :
        /\ \A j \in 1..Len(u) : u[j] = s[f[j]] /\ s[f[j]] \notin gone
        /\ \A j, k \in 1..Len(u) : j < k => f[j] < f[k]
        /\ \A p \in DOMAIN s : s[p] \in gone \/ \E j \in 1..Len(u) : f[j] = p

\* One turn of the scan, and the turns of a whole one.
Turn(m, it, item) == IF m.mem[it] = Array!Deref(m.mem, item) THEN Array!Erase(m, it) ELSE m

TurnsUpTo(f, n, s, item) ==
    f = [i \in 0..n |-> IF i = 0 THEN [mem |-> s, len |-> Len(s)]
                        ELSE Turn(f[i - 1], Len(s) - i + 1, item)]

LEMMA ScanIs ==
  \A s, item : Array!Scan(s, item) =
    LET f == CHOOSE f : TurnsUpTo(f, Len(s), s, item) IN SubSeq(f[Len(s)].mem, 1, f[Len(s)].len)
  BY Zenon DEF Array!Scan, TurnsUpTo, Turn

LEMMA TurnsExist ==
  ASSUME NEW s \in Seq(Elem), NEW item
  PROVE  \E f : TurnsUpTo(f, Len(s), s, item)
<1>. DEFINE G == {n \in 0..Len(s) : \E f : TurnsUpTo(f, n, s, item)}
<1>1. Len(s) \in Nat
  OBVIOUS
<1>2. 0 \in G
  <2>1. PICK f : f = [i \in 0..0 |-> [mem |-> s, len |-> Len(s)]]
    OBVIOUS
  <2>2. \A i \in 0..0 : i = 0
    OBVIOUS
  <2>3. TurnsUpTo(f, 0, s, item)
    BY <2>1, <2>2, Zenon DEF TurnsUpTo
  <2>. QED  BY <1>1, <2>3
<1>3. ASSUME NEW n \in 1..Len(s), n - 1 \in G PROVE n \in G
  <2>1. PICK f : TurnsUpTo(f, n - 1, s, item)
    BY <1>3
  <2>2. \A i \in 0..n - 1 : f[i] = IF i = 0 THEN [mem |-> s, len |-> Len(s)]
                                   ELSE Turn(f[i - 1], Len(s) - i + 1, item)
    BY <2>1 DEF TurnsUpTo
  <2>. DEFINE last == Turn(f[n - 1], Len(s) - n + 1, item)
  <2>3. PICK g : g = [i \in 0..n |-> IF i = n THEN last ELSE f[i]]
    OBVIOUS
  <2>4. ASSUME NEW i \in 0..n
        PROVE  g[i] = IF i = 0 THEN [mem |-> s, len |-> Len(s)] ELSE Turn(g[i - 1], Len(s) - i + 1, item)
    <3>1. CASE i = n
      <4>1. g[i] = last
        BY <2>3, <3>1, Zenon
      <4>2. n - 1 \in 0..n /\ n - 1 # n /\ n # 0
        OBVIOUS
      <4>3. g[n - 1] = f[n - 1]
        BY <2>3, <4>2, Zenon
      <4>. QED  BY <3>1, <4>1, <4>2, <4>3, Zenon
    <3>2. CASE i # n
      <4>1. i \in 0..n - 1
        BY <3>2
      <4>2. g[i] = f[i]
        BY <2>3, <3>2, Zenon
      <4>3. CASE i = 0
        BY <2>2, <4>1, <4>2, <4>3, Zenon
      <4>4. CASE i # 0
        <5>1. i - 1 \in 0..n /\ i - 1 # n
          BY <4>1, <4>4
        <5>2. g[i - 1] = f[i - 1]
          BY <2>3, <5>1, Zenon
        <5>. QED  BY <2>2, <4>1, <4>2, <4>4, <5>2, Zenon
      <4>. QED  BY <4>3, <4>4
    <3>. QED  BY <3>1, <3>2
  <2>5. g = [i \in 0..n |-> g[i]]
    BY <2>3
  <2>6. TurnsUpTo(g, n, s, item)
    BY <2>4, <2>5, Zenon DEF TurnsUpTo
  <2>7. n \in 0..Len(s)
    OBVIOUS
  <2>. QED  BY <2>6, <2>7
<1>4. \A n \in 0..Len(s) : n \in G
  <2>. HIDE DEF G
  <2>. QED  BY <1>1, <1>2, <1>3, Reached
<1>5. Len(s) \in 0..Len(s)
  BY <1>1
<1>. QED  BY <1>4, <1>5

LEMMA TurnsAre ==
  ASSUME NEW s \in Seq(Elem), NEW item
  PROVE  \E f : /\ Array!Scan(s, item) = SubSeq(f[Len(s)].mem, 1, f[Len(s)].len)
                /\ f[0] = [mem |-> s, len |-> Len(s)]
                /\ \A i \in 1..Len(s) : f[i] = Turn(f[i - 1], Len(s) - i + 1, item)
<1>1. PICK f : f = CHOOSE g : TurnsUpTo(g, Len(s), s, item)
  OBVIOUS
<1>2. TurnsUpTo(f, Len(s), s, item)
  BY <1>1, TurnsExist, Zenon
<1>3. Array!Scan(s, item) = SubSeq(f[Len(s)].mem, 1, f[Len(s)].len)
  BY <1>1, ScanIs, Zenon
<1>4. 0 \in 0..Len(s) /\ \A i \in 1..Len(s) : i \in 0..Len(s) /\ i # 0
  OBVIOUS
<1>5. \A i \in 0..Len(s) : f[i] = IF i = 0 THEN [mem |-> s, len |-> Len(s)]
                                  ELSE Turn(f[i - 1], Len(s) - i + 1, item)
  BY <1>2, Zenon DEF TurnsUpTo
<1>6. f[0] = [mem |-> s, len |-> Len(s)]
  BY <1>4, <1>5
<1>7. \A i \in 1..Len(s) : f[i] = Turn(f[i - 1], Len(s) - i + 1, item)
  BY <1>4, <1>5, Zenon
<1>. QED  BY <1>3, <1>6, <1>7

\* The memory after i turns, of which those places have been looked at that are behind
\* the first Len(s) - i.
ScanState(m, s, i) ==
    /\ m.mem \in [1..Len(s) -> Elem] /\ m.len \in Nat
    /\ Len(s) - i <= m.len /\ m.len <= Len(s)

LEMMA EraseIs ==
  ASSUME NEW m, NEW it
  PROVE  /\ Array!Erase(m, it).len = m.len - 1
         /\ DOMAIN Array!Erase(m, it).mem = DOMAIN m.mem
         /\ \A k \in DOMAIN m.mem :
                Array!Erase(m, it).mem[k] = IF it <= k /\ k < m.len THEN m.mem[k + 1] ELSE m.mem[k]
         /\ Array!Erase(m, it).mem = [k \in DOMAIN m.mem |-> Array!Erase(m, it).mem[k]]
  BY DEF Array!Erase

LEMMA ScanStateKept ==
  ASSUME NEW s \in Seq(Elem), NEW item, NEW i \in 1..Len(s), NEW m, ScanState(m, s, i - 1)
  PROVE  ScanState(Turn(m, Len(s) - i + 1, item), s, i)
<1>1. PICK N \in Nat, it \in Int : N = Len(s) /\ it = N - i + 1 /\ it \in 1..N
  OBVIOUS
<1>2. m.mem \in [1..N -> Elem] /\ m.len \in Nat /\ it <= m.len /\ m.len <= N
  BY <1>1 DEF ScanState
<1>3. PICK e : e = Array!Erase(m, it)
  OBVIOUS
<1>4. e.len = m.len - 1
  BY <1>3, EraseIs
<1>5. \A k \in 1..N : e.mem[k] \in Elem
  <2>1. \A k \in 1..N : e.mem[k] = IF it <= k /\ k < m.len THEN m.mem[k + 1] ELSE m.mem[k]
    <3>1. DOMAIN m.mem = 1..N
      BY <1>2
    <3>2. e = Array!Erase(m, it)
      BY <1>3
    <3>3. \A k \in DOMAIN m.mem : Array!Erase(m, it).mem[k] = IF it <= k /\ k < m.len THEN m.mem[k + 1] ELSE m.mem[k]
      BY EraseIs
    <3>. QED  BY <3>1, <3>2, <3>3, Zenon
  <2>2. \A k \in 1..N : k < m.len => k + 1 \in 1..N
    BY <1>1, <1>2
  <2>. QED  BY <1>2, <2>1, <2>2
<1>6. e.mem = [k \in 1..N |-> e.mem[k]]
  BY <1>2, <1>3, EraseIs
<1>7. ScanState(e, s, i)
  BY <1>1, <1>2, <1>4, <1>5, <1>6 DEF ScanState
<1>8. ScanState(m, s, i)
  BY <1>1, <1>2 DEF ScanState
<1>. QED  BY <1>1, <1>3, <1>7, <1>8, Zenon DEF Turn

LEMMA ScanTyped ==
  ASSUME NEW s \in Seq(Elem), NEW item
  PROVE  Array!Scan(s, item) \in Seq(Elem) /\ Len(Array!Scan(s, item)) <= Len(s)
<1>1. PICK f : /\ Array!Scan(s, item) = SubSeq(f[Len(s)].mem, 1, f[Len(s)].len)
               /\ f[0] = [mem |-> s, len |-> Len(s)]
               /\ \A i \in 1..Len(s) : f[i] = Turn(f[i - 1], Len(s) - i + 1, item)
  BY TurnsAre
<1>. DEFINE G == {i \in 0..Len(s) : ScanState(f[i], s, i)}
<1>2. 0 \in G
  <2>1. s \in [1..Len(s) -> Elem] /\ Len(s) \in Nat
    OBVIOUS
  <2>. QED  BY <1>1, <2>1 DEF ScanState
<1>3. ASSUME NEW i \in 1..Len(s), i - 1 \in G PROVE i \in G
  <2>1. ScanState(f[i - 1], s, i - 1) /\ i \in 0..Len(s)
    BY <1>3
  <2>2. ScanState(Turn(f[i - 1], Len(s) - i + 1, item), s, i)
    BY <2>1, ScanStateKept
  <2>. QED  BY <1>1, <2>1, <2>2
<1>4. \A i \in 0..Len(s) : i \in G
  <2>1. Len(s) \in Nat
    OBVIOUS
  <2>. HIDE DEF G
  <2>. QED  BY <1>2, <1>3, <2>1, Reached
<1>5. ScanState(f[Len(s)], s, Len(s))
  <2>1. Len(s) \in 0..Len(s)
    OBVIOUS
  <2>. QED  BY <1>4, <2>1
<1>6. PICK mem \in Seq(Elem), n \in Nat :
        mem = f[Len(s)].mem /\ n = f[Len(s)].len /\ Len(mem) = Len(s) /\ n <= Len(s)
  BY <1>5 DEF ScanState
<1>7. SubSeq(mem, 1, n) \in Seq(Elem) /\ Len(SubSeq(mem, 1, n)) = n
  BY <1>6
<1>. QED  BY <1>1, <1>6, <1>7

\* The item compares equal to x as long as the first element has not moved.
Fixed(item, s, x) == \A mem : mem[1] = s[1] => Array!Deref(mem, item) = x

LEMMA OutsideFixed == ASSUME NEW s, NEW x PROVE Fixed(Array!Outside(x), s, x)
  BY DEF Fixed, Array!Outside, Array!Deref

LEMMA FirstFixed == ASSUME NEW s PROVE Fixed(Array!Own(s, 1), s, s[1])
  BY DEF Fixed, Array!Own, Array!Deref

\* Where each element that is left after i turns comes from.
From(f, m, s, i, x) ==
    /\ f \in [1..m.len -> DOMAIN s]
    /\ \A j \in 1..m.len : m.mem[j] = s[f[j]]
    /\ \A j, k \in 1..m.len : j < k => f[j] < f[k]
    /\ \A j \in 1..m.len : j <= Len(s) - i => f[j] = j
    /\ \A j \in 1..m.len : Len(s) - i < j => s[f[j]] # x
    /\ \A p \in DOMAIN s : p <= Len(s) - i \/ s[p] = x \/ \E j \in 1..m.len : f[j] = p

LEMMA FromErased ==
  ASSUME NEW s \in Seq(Elem), NEW x, NEW i \in 1..Len(s), NEW m, ScanState(m, s, i - 1),
         NEW f, From(f, m, s, i - 1, x), m.mem[Len(s) - i + 1] = x
  PROVE  \E g : From(g, Array!Erase(m, Len(s) - i + 1), s, i, x)
<1>1. PICK N \in Nat, it \in Int : N = Len(s) /\ it = N - i + 1 /\ it \in 1..N /\ N - (i - 1) = it /\ N - i = it - 1
  OBVIOUS
<1>2. m.mem \in [1..N -> Elem] /\ m.len \in Nat /\ it <= m.len /\ m.len <= N
  BY <1>1 DEF ScanState
<1>3. PICK n \in Nat : n = m.len
  BY <1>2
<1>4. PICK e : e = Array!Erase(m, it)
  OBVIOUS
<1>5. e.len = n - 1
  BY <1>3, <1>4, EraseIs
<1>6. \A k \in 1..n - 1 : e.mem[k] = IF it <= k THEN m.mem[k + 1] ELSE m.mem[k]
  <2>1. \A k \in 1..n - 1 : k \in DOMAIN m.mem /\ k < m.len
    BY <1>2, <1>3
  <2>. QED  BY <2>1, <1>4, EraseIs
<1>7. f \in [1..n -> DOMAIN s] /\ DOMAIN s = 1..N
  BY <1>1, <1>3 DEF From
<1>8. /\ \A j \in 1..n : m.mem[j] = s[f[j]]
      /\ \A j, k \in 1..n : j < k => f[j] < f[k]
      /\ \A j \in 1..n : j <= it => f[j] = j
      /\ \A j \in 1..n : it < j => s[f[j]] # x
      /\ \A p \in DOMAIN s : p <= it \/ s[p] = x \/ \E j \in 1..n : f[j] = p
  BY <1>1, <1>3 DEF From
<1>9. PICK g : g = [k \in 1..n - 1 |-> IF it <= k THEN f[k + 1] ELSE f[k]]
  OBVIOUS
<1>10. \A k \in 1..n - 1 : k \in 1..n /\ k + 1 \in 1..n
  OBVIOUS
<1>11. g \in [1..n - 1 -> DOMAIN s]
  BY <1>7, <1>9, <1>10
<1>12. \A k \in 1..n - 1 : g[k] = IF it <= k THEN f[k + 1] ELSE f[k]
  BY <1>9
<1>13. \A j \in 1..n - 1 : e.mem[j] = s[g[j]]
  BY <1>6, <1>8, <1>10, <1>12
<1>14. ASSUME NEW j \in 1..n - 1, NEW k \in 1..n - 1, j < k PROVE g[j] < g[k]
  BY <1>1, <1>8, <1>10, <1>12, <1>14
<1>15. \A j \in 1..n - 1 : j <= it - 1 => g[j] = j
  BY <1>1, <1>8, <1>10, <1>12
<1>16. ASSUME NEW j \in 1..n - 1, it - 1 < j PROVE s[g[j]] # x
  <2>1. it <= j /\ j + 1 \in 1..n /\ it < j + 1
    BY <1>1, <1>16
  <2>2. g[j] = f[j + 1]
    BY <1>12, <2>1
  <2>. QED  BY <1>8, <2>1, <2>2
<1>17. ASSUME NEW p \in DOMAIN s, ~(p <= it - 1), s[p] # x PROVE \E j \in 1..n - 1 : g[j] = p
  <2>1. p # it
    <3>1. it \in 1..n
      BY <1>1, <1>2, <1>3
    <3>2. s[it] = x
      BY <1>1, <1>8, <3>1
    <3>. QED  BY <1>17, <3>2
  <2>2. p \in Int /\ ~(p <= it)
    BY <1>1, <1>7, <1>17, <2>1
  <2>3. PICK j \in 1..n : f[j] = p
    BY <1>8, <1>17, <2>2
  <2>4. ~(j <= it)
    BY <1>8, <2>2, <2>3
  <2>5. j - 1 \in 1..n - 1 /\ it <= j - 1 /\ (j - 1) + 1 = j
    BY <1>1, <2>4
  <2>6. g[j - 1] = f[j]
    BY <1>12, <2>5
  <2>. QED  BY <2>3, <2>5, <2>6
<1>18. From(g, e, s, i, x)
  BY <1>1, <1>5, <1>11, <1>13, <1>14, <1>15, <1>16, <1>17 DEF From
<1>. QED  BY <1>1, <1>4, <1>18

LEMMA FromKept ==
  ASSUME NEW s \in Seq(Elem), NEW x, NEW i \in 1..Len(s), NEW m, ScanState(m, s, i - 1),
         NEW f, From(f, m, s, i - 1, x), m.mem[Len(s) - i + 1] # x
  PROVE  From(f, m, s, i, x)
<1>1. PICK N \in Nat, it \in Int : N = Len(s) /\ it = N - i + 1 /\ it \in 1..N /\ N - (i - 1) = it /\ N - i = it - 1
  OBVIOUS
<1>2. PICK n \in Nat : n = m.len /\ it <= n
  BY <1>1 DEF ScanState
<1>3. f \in [1..n -> DOMAIN s] /\ DOMAIN s = 1..N
  BY <1>1, <1>2 DEF From
<1>4. /\ \A j \in 1..n : m.mem[j] = s[f[j]]
      /\ \A j, k \in 1..n : j < k => f[j] < f[k]
      /\ \A j \in 1..n : j <= it => f[j] = j
      /\ \A j \in 1..n : it < j => s[f[j]] # x
      /\ \A p \in DOMAIN s : p <= it \/ s[p] = x \/ \E j \in 1..n : f[j] = p
  BY <1>1, <1>2 DEF From
<1>5. it \in 1..n /\ f[it] = it /\ s[f[it]] # x
  <2>1. it \in 1..n
    BY <1>1, <1>2
  <2>2. m.mem[it] # x
    BY <1>1
  <2>3. f[it] = it /\ m.mem[it] = s[f[it]]
    BY <1>1, <1>4, <2>1
  <2>. QED  BY <2>1, <2>2, <2>3
<1>6. \A j \in 1..n : j <= it - 1 => f[j] = j
  BY <1>1, <1>4
<1>7. ASSUME NEW j \in 1..n, it - 1 < j PROVE s[f[j]] # x
  <2>1. j = it \/ it < j
    BY <1>1, <1>7
  <2>. QED  BY <1>4, <1>5, <2>1
<1>8. ASSUME NEW p \in DOMAIN s, ~(p <= it - 1), s[p] # x PROVE \E j \in 1..n : f[j] = p
  <2>1. p \in Int /\ (p = it \/ ~(p <= it))
    BY <1>1, <1>3, <1>8
  <2>. QED  BY <1>4, <1>5, <1>8, <2>1
<1>9. N - i = it - 1
  BY <1>1
<1>. QED  BY <1>1, <1>2, <1>3, <1>4, <1>6, <1>7, <1>8, <1>9 DEF From

LEMMA ScanThins ==
  ASSUME NEW s \in Seq(Elem), NEW item, NEW x, Fixed(item, s, x)
  PROVE  Thinned(Array!Scan(s, item), s, {x})
<1>1. PICK h : /\ Array!Scan(s, item) = SubSeq(h[Len(s)].mem, 1, h[Len(s)].len)
               /\ h[0] = [mem |-> s, len |-> Len(s)]
               /\ \A i \in 1..Len(s) : h[i] = Turn(h[i - 1], Len(s) - i + 1, item)
  BY TurnsAre
<1>. DEFINE Done(m, i) == ScanState(m, s, i) /\ \E f : From(f, m, s, i, x)
            G == {i \in 0..Len(s) : Done(h[i], i)}
<1>2. 0 \in G
  <2>1. PICK m : m = [mem |-> s, len |-> Len(s)]
    OBVIOUS
  <2>2. s \in [1..Len(s) -> Elem] /\ Len(s) \in Nat /\ m.mem = s /\ m.len = Len(s)
    BY <2>1
  <2>3. ScanState(m, s, 0)
    BY <2>2 DEF ScanState
  <2>4. PICK f : f = [j \in 1..Len(s) |-> j]
    OBVIOUS
  <2>5. From(f, m, s, 0, x)
    BY <2>2, <2>4 DEF From
  <2>6. Done(m, 0)
    BY <2>3, <2>5
  <2>7. 0 \in 0..Len(s) /\ h[0] = m
    BY <1>1, <2>1
  <2>. HIDE DEF Done
  <2>. QED  BY <2>6, <2>7
<1>3. ASSUME NEW i \in 1..Len(s), i - 1 \in G PROVE i \in G
  <2>1. PICK m : m = h[i - 1]
    OBVIOUS
  <2>2. Done(m, i - 1)
    BY <1>3, <2>1
  <2>3. PICK f : From(f, m, s, i - 1, x)
    BY <2>2
  <2>4. ScanState(m, s, i - 1)
    BY <2>2
  <2>5. PICK it \in 1..Len(s) : it = Len(s) - i + 1
    <3>1. Len(s) \in Nat
      OBVIOUS
    <3>. QED  BY <3>1
  <2>6. Array!Deref(m.mem, item) = x
    <3>1. 1 \in 1..m.len /\ 1 <= Len(s) - (i - 1)
      BY <2>4 DEF ScanState
    <3>2. f[1] = 1 /\ m.mem[1] = s[f[1]]
      BY <2>3, <3>1 DEF From
    <3>. QED  BY <3>2 DEF Fixed
  <2>7. PICK t : t = Turn(m, it, item)
    OBVIOUS
  <2>8. ScanState(t, s, i)
    BY <2>4, <2>5, <2>7, ScanStateKept
  <2>9. \E g : From(g, t, s, i, x)
    <3>1. CASE m.mem[it] = x
      <4>1. t = Array!Erase(m, it)
        BY <2>6, <2>7, <3>1 DEF Turn
      <4>. QED  BY <2>3, <2>4, <2>5, <3>1, <4>1, FromErased
    <3>2. CASE m.mem[it] # x
      <4>1. t = m
        BY <2>6, <2>7, <3>2 DEF Turn
      <4>. QED  BY <2>3, <2>4, <2>5, <3>2, <4>1, FromKept
    <3>. QED  BY <3>1, <3>2
  <2>10. h[i] = t /\ i \in 0..Len(s)
    BY <1>1, <2>1, <2>5, <2>7
  <2>11. Done(t, i)
    BY <2>8, <2>9
  <2>. HIDE DEF Done
  <2>. QED  BY <2>10, <2>11
<1>4. \A i \in 0..Len(s) : i \in G
  <2>1. Len(s) \in Nat
    OBVIOUS
  <2>. HIDE DEF G
  <2>. QED  BY <1>2, <1>3, <2>1, Reached
<1>5. PICK m : m = h[Len(s)]
  OBVIOUS
<1>6. Done(m, Len(s))
  <2>1. Len(s) \in 0..Len(s)
    OBVIOUS
  <2>2. Len(s) \in G
    <3>. HIDE DEF G
    <3>. QED  BY <1>4, <2>1
  <2>. QED  BY <1>5, <2>2
<1>7. PICK f : From(f, m, s, Len(s), x)
  BY <1>6
<1>8. PICK n \in Nat, mem \in Seq(Elem) :
        n = m.len /\ mem = m.mem /\ Len(mem) = Len(s) /\ n <= Len(s)
  <2>1. ScanState(m, s, Len(s))
    BY <1>6
  <2>. QED  BY <2>1 DEF ScanState
<1>9. PICK u : u = SubSeq(mem, 1, n)
  OBVIOUS
<1>10. u \in Seq(Elem) /\ Len(u) = n /\ \A j \in 1..n : u[j] = mem[j]
  BY <1>8, <1>9
<1>11. f \in [1..n -> DOMAIN s] /\ (\A j \in 1..n : mem[j] = s[f[j]])
  BY <1>7, <1>8 DEF From
<1>12. \A j, k \in 1..n : j < k => f[j] < f[k]
  BY <1>7, <1>8 DEF From
<1>13. \A j \in 1..n : s[f[j]] # x
  <2>1. \A j \in 1..n : Len(s) - Len(s) < j
    OBVIOUS
  <2>. QED  BY <1>7, <1>8, <2>1 DEF From
<1>14. \A p \in DOMAIN s : s[p] = x \/ \E j \in 1..n : f[j] = p
  <2>1. \A p \in DOMAIN s : ~(p <= Len(s) - Len(s))
    OBVIOUS
  <2>. QED  BY <1>7, <1>8, <2>1 DEF From
<1>15. Thinned(u, s, {x})
  <2>1. \A j \in 1..n : u[j] = s[f[j]] /\ s[f[j]] \notin {x}
    BY <1>10, <1>11, <1>13
  <2>2. \A p \in DOMAIN s : s[p] \in {x} \/ \E j \in 1..n : f[j] = p
    BY <1>14
  <2>3. Len(u) = n /\ f \in [1..n -> DOMAIN s]
    BY <1>10, <1>11
  <2>4. \A j, k \in 1..Len(u) : j < k => f[j] < f[k]
    BY <1>12, <2>3, Zenon
  <2>5. \A j \in 1..Len(u) : u[j] = s[f[j]] /\ s[f[j]] \notin {x}
    BY <2>1, <2>3, Zenon
  <2>6. \A p \in DOMAIN s : s[p] \in {x} \/ \E j \in 1..Len(u) : f[j] = p
    BY <2>2, <2>3, Zenon
  <2>7. f \in [1..Len(u) -> DOMAIN s]
    BY <2>3
  <2>. QED  BY <2>4, <2>5, <2>6, <2>7, Zenon DEF Thinned
<1>. QED  BY <1>1, <1>5, <1>8, <1>9, <1>15

-----------------------------------------------------------------------------
(* The invariant: the dimensions of every array are of a shape that redim      *)
(* leaves, and the vector has the size they say.                               *)

ArraysInv ==
    /\ dim \in [Arr -> [1..4 -> Array!Dimension]] /\ \A v \in Arr : Shaped(dim[v])
    /\ data \in [Arr -> Seq(Elem)] /\ \A v \in Arr : Len(data[v]) = Array!Size(dim[v])
    /\ prog \in Program

LEMMA PairsAre ==
  ASSUME Array!ArrayAssumption, prog \in Program, NEW b \in Array!Pairs
  PROVE  \E n \in 1..4 : b \in [1..n -> [lo: Index, hi: Index]] /\ Len(b) = n /\ DOMAIN b = 1..n
<1>1. prog.rank \in 1..4 /\ prog.bounds \in SUBSET [lo: Index, hi: Index]
  BY DEF Array!ArrayAssumption
<1>2. PICK n \in 1..prog.rank : b \in [1..n -> prog.bounds]
  BY DEF Array!Pairs
<1>3. n \in 1..4
  BY <1>1, <1>2
<1>4. b \in [1..n -> [lo: Index, hi: Index]]
  BY <1>1, <1>2
<1>5. Len(b) = n /\ DOMAIN b = 1..n
  <2>1. n \in Nat /\ DOMAIN b = 1..n
    BY <1>3, <1>4
  <2>2. b \in Seq(prog.bounds)
    BY <1>2, <2>1
  <2>3. DOMAIN b = 1..Len(b) /\ Len(b) \in Nat
    BY <2>2
  <2>. QED  BY <2>1, <2>3
<1>. QED  BY <1>3, <1>4, <1>5

LEMMA OrderedIs ==
  ASSUME Array!ArrayAssumption, NEW r \in [lo: Index, hi: Index]
  PROVE  LET o == Array!Ordered(r)
         IN  /\ o \in Array!Dimension /\ o.lo \in Index /\ o.hi \in Index
             /\ o.d = o.hi - o.lo + 1 /\ o.d # 0
<1>1. r.lo \in Index /\ r.hi \in Index /\ r.lo \in Int /\ r.hi \in Int
  BY IndexesAreIntegers
<1>2. CASE r.hi < r.lo
  <2>1. r.lo - r.hi + 1 \in Nat /\ r.lo - r.hi + 1 # 0
    BY <1>1, <1>2
  <2>2. Array!Ordered(r) = [lo |-> r.hi, hi |-> r.lo, d |-> r.lo - r.hi + 1]
    BY <1>2 DEF Array!Ordered
  <2>. QED  BY <1>1, <2>1, <2>2 DEF Array!Dimension
<1>3. CASE ~(r.hi < r.lo)
  <2>1. r.hi - r.lo + 1 \in Nat /\ r.hi - r.lo + 1 # 0
    BY <1>1, <1>3
  <2>2. Array!Ordered(r) = [lo |-> r.lo, hi |-> r.hi, d |-> r.hi - r.lo + 1]
    BY <1>3 DEF Array!Ordered
  <2>. QED  BY <1>1, <2>1, <2>2 DEF Array!Dimension
<1>. QED  BY <1>2, <1>3

LEMMA UnusedIs == Array!Unused \in Array!Dimension /\ Array!Unused.d = 0
  BY DEF Array!Unused, Array!Dimension

LEMMA RedimShaped ==
  ASSUME Array!ArrayAssumption, NEW n \in 1..4, NEW b \in [1..n -> [lo: Index, hi: Index]], Len(b) = n, NEW dm
  PROVE  Shaped(Array!RedimDimensions(dm, b))
<1>1. PICK e : e = Array!RedimDimensions(dm, b)
  OBVIOUS
<1>2. e = [k \in 1..4 |-> IF k <= n THEN Array!Ordered(b[k]) ELSE Array!Unused]
  BY <1>1 DEF Array!RedimDimensions
<1>3. \A k \in 1..4 : /\ k <= n => e[k] = Array!Ordered(b[k]) /\ b[k] \in [lo: Index, hi: Index]
                      /\ ~(k <= n) => e[k] = Array!Unused
  <2>1. \A k \in 1..4 : k <= n => k \in 1..n
    OBVIOUS
  <2>. QED  BY <1>2, <2>1
<1>4. ASSUME NEW k \in 1..4
      PROVE  /\ e[k] \in Array!Dimension
             /\ k <= n => /\ e[k].lo \in Index /\ e[k].hi \in Index
                          /\ e[k].d = e[k].hi - e[k].lo + 1 /\ e[k].d # 0
             /\ ~(k <= n) => e[k].d = 0
  BY <1>3, OrderedIs, UnusedIs
<1>5. e \in [1..4 -> Array!Dimension]
  <2>1. e = [k \in 1..4 |-> e[k]]
    BY <1>2
  <2>. QED  BY <1>4, <2>1
<1>6. \A k \in 2..4 : \/ e[k].d = 0
                      \/ e[k].lo \in Index /\ e[k].hi \in Index /\ e[k].d = e[k].hi - e[k].lo + 1
  BY <1>4
<1>7. e[2].d = 0 => e[3].d = 0
  BY <1>4
<1>8. e[3].d = 0 => e[4].d = 0
  BY <1>4
<1>9. e[1].lo \in Index /\ e[1].hi \in Index /\ e[1].d = e[1].hi - e[1].lo + 1
  BY <1>4
<1>. QED  BY <1>1, <1>5, <1>6, <1>7, <1>8, <1>9 DEF Shaped

LEMMA RankBeyond ==
  ASSUME NEW dm, Shaped(dm), NEW k \in 1..4
  PROVE  /\ k > Array!Rank(dm) => dm[k].d = 0
         /\ k > 1 /\ k <= Array!Rank(dm) => dm[k].d # 0
<1>1. PICK r \in 1..4 : r = Array!Rank(dm)
  BY RankIs
<1>2. k = 1 \/ k = 2 \/ k = 3 \/ k = 4
  OBVIOUS
<1>3. r = 1 \/ r = 2 \/ r = 3 \/ r = 4
  OBVIOUS
<1>. QED  BY <1>1, <1>2, <1>3, RankIs

\* The dimensions but the first are as before.
SameInner(e, dm) ==
    /\ Shaped(e) /\ Array!Rank(e) = Array!Rank(dm)
    /\ \A k \in 2..Array!Rank(dm) : e[k] = dm[k]

LEMMA SameInnerIs ==
  ASSUME NEW e, NEW dm, Shaped(dm), SameInner(e, dm)
  PROVE  Inner(e) = Inner(dm) /\ \A i : Rest(e, i) = Rest(dm, i)
<1>1. PICK r \in 1..4 : r = Array!Rank(dm) /\ r = Array!Rank(e)
  BY RankIs DEF SameInner
<1>2. \A k \in 2..r : e[k] = dm[k]
  BY <1>1 DEF SameInner
<1>3. CASE r = 1
  BY <1>1, <1>3 DEF Inner, Rest
<1>4. CASE r = 2
  <2>1. e[2] = dm[2]
    BY <1>2, <1>4
  <2>. QED  BY <1>1, <1>4, <2>1 DEF Inner, Rest, Digit
<1>5. CASE r = 3
  <2>1. e[2] = dm[2] /\ e[3] = dm[3]
    BY <1>2, <1>5
  <2>. QED  BY <1>1, <1>5, <2>1 DEF Inner, Rest, Digit
<1>6. CASE r = 4
  <2>1. e[2] = dm[2] /\ e[3] = dm[3] /\ e[4] = dm[4]
    BY <1>2, <1>6
  <2>. QED  BY <1>1, <1>6, <2>1 DEF Inner, Rest, Digit
<1>. QED  BY <1>3, <1>4, <1>5, <1>6

LEMMA PreserveShaped ==
  ASSUME Array!ArrayAssumption, NEW dm, Shaped(dm),
         NEW n \in 1..4, NEW b \in [1..n -> [lo: Index, hi: Index]], Len(b) = n, n \in {1, Array!Rank(dm)}
  PROVE  /\ SameInner(Array!PreserveDimensions(dm, b), dm)
         /\ Array!PreserveDimensions(dm, b)[1].d # 0
<1>1. PICK e : e = Array!PreserveDimensions(dm, b)
  OBVIOUS
<1>2. e = [k \in 1..4 |-> IF k = 1 THEN Array!Ordered(b[1])
                          ELSE IF n > 1 /\ k > n THEN Array!Unused ELSE dm[k]]
  BY <1>1 DEF Array!PreserveDimensions
<1>3. e[1] = Array!Ordered(b[1]) /\ b[1] \in [lo: Index, hi: Index]
  <2>1. 1 \in 1..n /\ 1 \in 1..4
    OBVIOUS
  <2>. QED  BY <1>2, <2>1
<1>4. \A k \in 2..4 : (e[k] = Array!Unused /\ n > 1 /\ k > n) \/ e[k] = dm[k]
  <2>1. \A k \in 2..4 : k \in 1..4 /\ k # 1
    OBVIOUS
  <2>. QED  BY <1>2, <2>1
<1>5. \A k \in 2..4 : e[k].d = dm[k].d /\ e[k] \in Array!Dimension
                      /\ (k <= Array!Rank(dm) => e[k] = dm[k])
  <2>. SUFFICES ASSUME NEW k \in 2..4
                PROVE  e[k].d = dm[k].d /\ e[k] \in Array!Dimension /\ (k <= Array!Rank(dm) => e[k] = dm[k])
    OBVIOUS
  <2>1. k \in 1..4 /\ dm[k] \in Array!Dimension
    BY DEF Shaped
  <2>2. CASE e[k] = dm[k]
    BY <2>1, <2>2
  <2>3. CASE e[k] = Array!Unused /\ n > 1 /\ k > n
    <3>1. k > Array!Rank(dm) /\ Array!Rank(dm) \in 1..4
      BY <2>3, RankIs
    <3>2. dm[k].d = 0
      BY <2>1, <3>1, RankBeyond
    <3>3. ~(k <= Array!Rank(dm))
      BY <3>1
    <3>. QED  BY <2>3, <3>2, <3>3, UnusedIs
  <2>. QED  BY <1>4, <2>2, <2>3
<1>6. /\ e[1] \in Array!Dimension /\ e[1].lo \in Index /\ e[1].hi \in Index
      /\ e[1].d = e[1].hi - e[1].lo + 1 /\ e[1].d # 0
  BY <1>3, OrderedIs
<1>7. e \in [1..4 -> Array!Dimension]
  <2>1. e = [k \in 1..4 |-> e[k]]
    BY <1>2
  <2>2. \A k \in 1..4 : e[k] \in Array!Dimension
    <3>1. \A k \in 1..4 : k = 1 \/ k \in 2..4
      OBVIOUS
    <3>. QED  BY <1>5, <1>6, <3>1
  <2>. QED  BY <2>1, <2>2
<1>8. e[2].d = dm[2].d /\ e[3].d = dm[3].d /\ e[4].d = dm[4].d
  BY <1>5
<1>9. \A k \in 2..4 : \/ e[k].d = 0
                      \/ e[k].lo \in Index /\ e[k].hi \in Index /\ e[k].d = e[k].hi - e[k].lo + 1
  <2>. SUFFICES ASSUME NEW k \in 2..4, e[k].d # 0
                PROVE  e[k].lo \in Index /\ e[k].hi \in Index /\ e[k].d = e[k].hi - e[k].lo + 1
    OBVIOUS
  <2>1. dm[k].d # 0
    BY <1>5
  <2>2. k <= Array!Rank(dm)
    <3>1. k \in 1..4 /\ Array!Rank(dm) \in 1..4
      BY RankIs
    <3>2. ~(k > Array!Rank(dm))
      BY <2>1, <3>1, RankBeyond
    <3>. QED  BY <3>1, <3>2
  <2>3. e[k] = dm[k]
    BY <1>5, <2>2
  <2>. QED  BY <2>1, <2>3 DEF Shaped
<1>10. Shaped(e)
  BY <1>6, <1>7, <1>8, <1>9 DEF Shaped
<1>11. Array!Rank(e) = Array!Rank(dm)
  BY <1>8 DEF Array!Rank
<1>12. \A k \in 2..Array!Rank(dm) : e[k] = dm[k]
  <2>1. \A k \in 2..Array!Rank(dm) : k \in 2..4 /\ k <= Array!Rank(dm)
    BY RankIs
  <2>. QED  BY <1>5, <2>1
<1>. QED  BY <1>1, <1>6, <1>10, <1>11, <1>12 DEF SameInner

LEMMA ResizeIs ==
  ASSUME Array!ArrayAssumption, NEW s \in Seq(Elem), NEW n \in Nat
  PROVE  /\ Array!Resize(s, n) \in Seq(Elem) /\ Len(Array!Resize(s, n)) = n
         /\ \A i \in 1..n : Array!Resize(s, n)[i] = IF i <= Len(s) THEN s[i] ELSE Initial
<1>1. PICK u : u = Array!Resize(s, n)
  OBVIOUS
<1>2. u = [i \in 1..n |-> IF i <= Len(s) THEN s[i] ELSE Initial]
  BY <1>1 DEF Array!Resize
<1>3. \A i \in 1..n : u[i] = IF i <= Len(s) THEN s[i] ELSE Initial
  BY <1>2
<1>4. \A i \in 1..n : u[i] \in Elem
  <2>1. Initial \in Elem
    BY DEF Array!ArrayAssumption
  <2>2. \A i \in 1..n : i <= Len(s) => s[i] \in Elem
    OBVIOUS
  <2>. QED  BY <1>3, <2>1, <2>2
<1>5. u \in [1..n -> Elem]
  <2>1. u = [i \in 1..n |-> u[i]]
    BY <1>2
  <2>. QED  BY <1>4, <2>1
<1>6. u \in Seq(Elem) /\ Len(u) = n
  BY <1>5
<1>. QED  BY <1>1, <1>3, <1>6

LEMMA SizeNatural == ASSUME NEW dm, Shaped(dm) PROVE Array!Size(dm) \in Nat
<1>1. PICK a \in Nat, b \in Nat : a = dm[1].d /\ b = Inner(dm) /\ Array!Size(dm) = a * b
  BY InnerIs, ShapedTypes
<1>2. a * b \in Nat
  OBVIOUS
<1>. QED  BY <1>1, <1>2

\* << and >> move the upper bound by n.
LEMMA GrowShaped ==
  ASSUME Array!ArrayAssumption, NEW dm, Shaped(dm), dm[2].d = 0, NEW n \in Int, dm[1].d + n \in Nat,
         Array!Grow(dm, n)[1].hi \in Index
  PROVE  /\ SameInner(Array!Grow(dm, n), dm) /\ Array!Rank(dm) = 1
         /\ Array!Size(Array!Grow(dm, n)) = Array!Size(dm) + n
         /\ Array!Grow(dm, n)[1].lo = dm[1].lo /\ Array!Grow(dm, n)[1].hi = dm[1].hi + n
<1>1. PICK e : e = Array!Grow(dm, n)
  OBVIOUS
<1>2. dm \in [1..4 -> Array!Dimension]
  BY DEF Shaped
<1>3. e[2] = dm[2] /\ e[3] = dm[3] /\ e[4] = dm[4] /\ e \in [1..4 -> Array!Dimension] /\ e[1].lo = dm[1].lo
      /\ e[1].hi = dm[1].hi + n /\ e[1].d = dm[1].d + n
  <2>1. 1 \in 1..4 /\ 2 \in 1..4 /\ 3 \in 1..4 /\ 4 \in 1..4
    OBVIOUS
  <2>2. dm[1] \in Array!Dimension
    BY <1>2, <2>1
  <2>3. e = [dm EXCEPT ![1] = [lo |-> dm[1].lo, hi |-> dm[1].hi + n, d |-> dm[1].d + n]]
    <3>1. PICK c : c = [dm EXCEPT ![1].hi = @ + n]
      OBVIOUS
    <3>2. e = [c EXCEPT ![1].d = @ + n]
      BY <1>1, <3>1 DEF Array!Grow
    <3>3. dm[1] = [lo |-> dm[1].lo, hi |-> dm[1].hi, d |-> dm[1].d]
      BY <2>2 DEF Array!Dimension
    <3>4. c[1] = [dm[1] EXCEPT !.hi = dm[1].hi + n] /\ \A k \in 2..4 : c[k] = dm[k]
      BY <1>2, <2>1, <3>1
    <3>5. c[1] = [lo |-> dm[1].lo, hi |-> dm[1].hi + n, d |-> dm[1].d]
      BY <3>3, <3>4
    <3>6. DOMAIN c = 1..4 /\ DOMAIN e = 1..4 /\ c = [k \in 1..4 |-> c[k]] /\ e = [k \in 1..4 |-> e[k]]
      BY <1>2, <3>1, <3>2
    <3>7. e[1] = [c[1] EXCEPT !.d = c[1].d + n] /\ \A k \in 2..4 : e[k] = c[k]
      BY <2>1, <3>2, <3>6
    <3>8. e[1] = [lo |-> dm[1].lo, hi |-> dm[1].hi + n, d |-> dm[1].d + n]
      BY <3>5, <3>7
    <3>9. \A k \in 2..4 : e[k] = dm[k]
      BY <3>4, <3>7
    <3>10. PICK g : g = [dm EXCEPT ![1] = e[1]]
      OBVIOUS
    <3>11. g[1] = e[1] /\ (\A k \in 2..4 : g[k] = e[k]) /\ g = [k \in 1..4 |-> g[k]]
      <4>1. DOMAIN dm = 1..4
        BY <1>2
      <4>2. g[1] = e[1]
        BY <2>1, <3>10, <4>1
      <4>3. \A k \in 2..4 : g[k] = dm[k]
        BY <3>10, <4>1
      <4>4. g = [k \in 1..4 |-> g[k]]
        BY <3>10, <4>1, Zenon
      <4>. QED  BY <3>9, <4>2, <4>3, <4>4
    <3>12. \A k \in 1..4 : g[k] = e[k]
      <4>1. \A k \in 1..4 : k = 1 \/ k \in 2..4
        OBVIOUS
      <4>. QED  BY <3>11, <4>1
    <3>13. g = e
      BY <3>6, <3>11, <3>12
    <3>. QED  BY <3>8, <3>10, <3>13
  <2>4. [lo |-> dm[1].lo, hi |-> dm[1].hi + n, d |-> dm[1].d + n] \in Array!Dimension
    BY <2>2 DEF Array!Dimension
  <2>. QED  BY <1>2, <2>1, <2>3, <2>4
<1>4. dm[1].d = dm[1].hi - dm[1].lo + 1 /\ dm[1].hi \in Int /\ dm[1].lo \in Int /\ dm[1].d \in Nat
  BY ShapedTypes DEF Shaped
<1>5. e[1].d = e[1].hi - e[1].lo + 1
  BY <1>3, <1>4
<1>6. \A k \in 2..4 : e[k] = dm[k]
  <2>1. \A k \in 2..4 : k = 2 \/ k = 3 \/ k = 4
    OBVIOUS
  <2>. QED  BY <1>3, <2>1
<1>7. Shaped(e)
  <2>1. e[1].lo \in Index /\ e[1].hi \in Index
    BY <1>1, <1>3 DEF Shaped
  <2>2. \A k \in 2..4 : \/ e[k].d = 0
                        \/ e[k].lo \in Index /\ e[k].hi \in Index /\ e[k].d = e[k].hi - e[k].lo + 1
    BY <1>6 DEF Shaped
  <2>3. (e[2].d = 0 => e[3].d = 0) /\ (e[3].d = 0 => e[4].d = 0)
    BY <1>3 DEF Shaped
  <2>. QED  BY <1>3, <1>5, <2>1, <2>2, <2>3 DEF Shaped
<1>8. Array!Rank(e) = 1 /\ Array!Rank(dm) = 1
  BY <1>3 DEF Array!Rank
<1>9. SameInner(e, dm)
  <2>1. \A k \in 2..1 : e[k] = dm[k]
    OBVIOUS
  <2>. QED  BY <1>7, <1>8, <2>1 DEF SameInner
<1>10. Array!Size(e) = e[1].d * 1 /\ Array!Size(dm) = dm[1].d * 1
  <2>1. Inner(e) = 1 /\ Inner(dm) = 1
    BY <1>8 DEF Inner
  <2>. QED  BY <1>7, <2>1, InnerIs
<1>. QED  BY <1>1, <1>3, <1>4, <1>8, <1>9, <1>10

\* What array() starts with.
LEMMA DefaultIs ==
  ASSUME Array!ArrayAssumption
  PROVE  /\ Shaped(Array!Default) /\ Array!Default \in [1..4 -> Array!Dimension]
         /\ Array!Size(Array!Default) = 2 /\ Array!Rank(Array!Default) = 1
         /\ Array!Default[1].lo = 0 /\ Array!Default[1].hi = 1
<1>1. PICK dm : dm = Array!Default
  OBVIOUS
<1>2. dm = [k \in 1..4 |-> IF k = 1 THEN [lo |-> 0, hi |-> 1, d |-> 2] ELSE Array!Unused]
  BY <1>1 DEF Array!Default
<1>3. dm[1] = [lo |-> 0, hi |-> 1, d |-> 2] /\ dm[2] = Array!Unused /\ dm[3] = Array!Unused /\ dm[4] = Array!Unused
  <2>1. 1 \in 1..4 /\ 2 \in 1..4 /\ 3 \in 1..4 /\ 4 \in 1..4
    OBVIOUS
  <2>. QED  BY <1>2, <2>1
<1>4. [lo |-> 0, hi |-> 1, d |-> 2] \in Array!Dimension
  BY DEF Array!Dimension
<1>5. dm \in [1..4 -> Array!Dimension]
  <2>1. \A k \in 1..4 : (IF k = 1 THEN [lo |-> 0, hi |-> 1, d |-> 2] ELSE Array!Unused) \in Array!Dimension
    BY <1>4, UnusedIs
  <2>. QED  BY <1>2, <2>1
<1>6. 0 \in Index /\ 1 \in Index
  <2>1. 0 \in 0..1 /\ 1 \in 0..1 /\ 0..1 \subseteq Index
    BY DEF Array!ArrayAssumption
  <2>. QED  BY <2>1
<1>7. dm[2].d = 0 /\ dm[3].d = 0 /\ dm[4].d = 0
  BY <1>3, UnusedIs
<1>8. \A k \in 2..4 : dm[k].d = 0
  <2>1. \A k \in 2..4 : k = 2 \/ k = 3 \/ k = 4
    OBVIOUS
  <2>. QED  BY <1>7, <2>1
<1>9. dm[1].lo = 0 /\ dm[1].hi = 1 /\ dm[1].d = 2
  BY <1>3
<1>10. Shaped(dm)
  <2>1. dm[1].d = dm[1].hi - dm[1].lo + 1
    BY <1>9
  <2>. QED  BY <1>5, <1>6, <1>7, <1>8, <1>9, <2>1 DEF Shaped
<1>11. Array!Size(dm) = 2
  <2>1. Inner(dm) = 1
    BY <1>7 DEF Inner, Array!Rank
  <2>. QED  BY <1>9, <1>10, <2>1, InnerIs
<1>12. Array!Rank(dm) = 1
  BY <1>7 DEF Array!Rank
<1>. QED  BY <1>1, <1>5, <1>9, <1>10, <1>11, <1>12

LEMMA ArraysInit == Array!ArrayAssumption /\ Array!Init => ArraysInv
<1>. SUFFICES ASSUME Array!ArrayAssumption, Array!Init PROVE ArraysInv
  OBVIOUS
<1>1. PICK dm : dm = Array!Default
  OBVIOUS
<1>2. Shaped(dm) /\ dm \in [1..4 -> Array!Dimension] /\ Array!Size(dm) = 2
  BY <1>1, DefaultIs
<1>3. <<Initial, Initial>> \in Seq(Elem) /\ Len(<<Initial, Initial>>) = 2
  BY DEF Array!ArrayAssumption
<1>4. dim = [v \in Arr |-> dm] /\ data = [v \in Arr |-> <<Initial, Initial>>] /\ prog \in Program
  BY <1>1 DEF Array!Init
<1>. QED  BY <1>2, <1>3, <1>4 DEF ArraysInv

\* An array gets dimensions and a vector that go together.
LEMMA SetKeeps ==
  ASSUME ArraysInv, NEW v \in Arr, NEW dm, NEW s, Array!Set(v, dm, s), UNCHANGED prog,
         Shaped(dm), s \in Seq(Elem), Len(s) = Array!Size(dm)
  PROVE  ArraysInv'
<1>1. dim' = [dim EXCEPT ![v] = dm] /\ data' = [data EXCEPT ![v] = s]
  BY DEF Array!Set
<1>2. dm \in [1..4 -> Array!Dimension]
  BY DEF Shaped
<1>3. dim \in [Arr -> [1..4 -> Array!Dimension]] /\ data \in [Arr -> Seq(Elem)]
  BY DEF ArraysInv
<1>4. dim' \in [Arr -> [1..4 -> Array!Dimension]] /\ data' \in [Arr -> Seq(Elem)]
  BY <1>1, <1>2, <1>3
<1>5. ASSUME NEW w \in Arr PROVE Shaped(dim'[w]) /\ Len(data'[w]) = Array!Size(dim'[w])
  <2>1. CASE w = v
    <3>1. dim'[w] = dm /\ data'[w] = s
      BY <1>1, <1>3, <2>1
    <3>. QED  BY <3>1
  <2>2. CASE w # v
    <3>1. dim'[w] = dim[w] /\ data'[w] = data[w]
      BY <1>1, <1>3, <2>2
    <3>. QED  BY <3>1 DEF ArraysInv
  <2>. QED  BY <2>1, <2>2
<1>6. prog' \in Program
  BY DEF ArraysInv
<1>. QED  BY <1>4, <1>5, <1>6 DEF ArraysInv

LEMMA SizeOfOne ==
  ASSUME NEW dm, Shaped(dm), dm[2].d = 0
  PROVE  Array!Rank(dm) = 1 /\ Inner(dm) = 1 /\ Array!Size(dm) = dm[1].d /\ dm[1].d \in Nat
<1>1. Array!Rank(dm) = 1
  BY DEF Array!Rank
<1>2. Inner(dm) = 1
  BY <1>1 DEF Inner
<1>3. Array!Size(dm) = dm[1].d * 1 /\ dm[1].d \in Nat
  BY <1>2, InnerIs, ShapedTypes
<1>. QED  BY <1>1, <1>2, <1>3

-----------------------------------------------------------------------------
(* ar >> other: one scan after the other.                                      *)

RemainingUpTo(f, n, s, t) ==
    f = [i \in 0..n |-> IF i = 0 THEN s ELSE Array!Scan(f[i - 1], Array!Outside(t[i]))]

Remaining(s, t) == (CHOOSE f : RemainingUpTo(f, Len(t), s, t))[Len(t)]

LEMMA RemoveItemsIs ==
  \A v, u : Array!RemoveItems(v, u) <=>
    /\ Array!OneDimension(v)
    /\ Array!Set(v, Array!Grow(dim[v], Len(Remaining(data[v], data[u])) - Len(data[v])), Remaining(data[v], data[u]))
  BY Zenon DEF Array!RemoveItems, Remaining, RemainingUpTo

LEMMA RemainingExist ==
  ASSUME NEW s \in Seq(Elem), NEW t \in Seq(Elem)
  PROVE  \E f : RemainingUpTo(f, Len(t), s, t)
<1>. DEFINE G == {n \in 0..Len(t) : \E f : RemainingUpTo(f, n, s, t)}
<1>1. Len(t) \in Nat
  OBVIOUS
<1>2. 0 \in G
  <2>1. PICK f : f = [i \in 0..0 |-> s]
    OBVIOUS
  <2>2. \A i \in 0..0 : i = 0
    OBVIOUS
  <2>3. RemainingUpTo(f, 0, s, t)
    BY <2>1, <2>2, Zenon DEF RemainingUpTo
  <2>. QED  BY <1>1, <2>3
<1>3. ASSUME NEW n \in 1..Len(t), n - 1 \in G PROVE n \in G
  <2>1. PICK f : RemainingUpTo(f, n - 1, s, t)
    BY <1>3
  <2>2. \A i \in 0..n - 1 : f[i] = IF i = 0 THEN s ELSE Array!Scan(f[i - 1], Array!Outside(t[i]))
    BY <2>1 DEF RemainingUpTo
  <2>. DEFINE last == Array!Scan(f[n - 1], Array!Outside(t[n]))
  <2>3. PICK g : g = [i \in 0..n |-> IF i = n THEN last ELSE f[i]]
    OBVIOUS
  <2>4. ASSUME NEW i \in 0..n
        PROVE  g[i] = IF i = 0 THEN s ELSE Array!Scan(g[i - 1], Array!Outside(t[i]))
    <3>1. CASE i = n
      <4>1. g[i] = last
        BY <2>3, <3>1, Zenon
      <4>2. n - 1 \in 0..n /\ n - 1 # n /\ n # 0
        OBVIOUS
      <4>3. g[n - 1] = f[n - 1]
        BY <2>3, <4>2, Zenon
      <4>. QED  BY <3>1, <4>1, <4>2, <4>3, Zenon
    <3>2. CASE i # n
      <4>1. i \in 0..n - 1
        BY <3>2
      <4>2. g[i] = f[i]
        BY <2>3, <3>2, Zenon
      <4>3. CASE i = 0
        BY <2>2, <4>1, <4>2, <4>3, Zenon
      <4>4. CASE i # 0
        <5>1. i - 1 \in 0..n /\ i - 1 # n
          BY <4>1, <4>4
        <5>2. g[i - 1] = f[i - 1]
          BY <2>3, <5>1, Zenon
        <5>. QED  BY <2>2, <4>1, <4>2, <4>4, <5>2, Zenon
      <4>. QED  BY <4>3, <4>4
    <3>. QED  BY <3>1, <3>2
  <2>5. g = [i \in 0..n |-> g[i]]
    BY <2>3
  <2>6. RemainingUpTo(g, n, s, t)
    BY <2>4, <2>5, Zenon DEF RemainingUpTo
  <2>7. n \in 0..Len(t)
    OBVIOUS
  <2>. QED  BY <2>6, <2>7
<1>4. \A n \in 0..Len(t) : n \in G
  <2>. HIDE DEF G
  <2>. QED  BY <1>1, <1>2, <1>3, Reached
<1>5. Len(t) \in 0..Len(t)
  BY <1>1
<1>. QED  BY <1>4, <1>5

LEMMA ThinnedItself ==
  ASSUME NEW s \in Seq(Elem)
  PROVE  Thinned(s, s, {})
<1>1. PICK f : f = [j \in 1..Len(s) |-> j]
  OBVIOUS
<1>2. f \in [1..Len(s) -> DOMAIN s] /\ \A j \in 1..Len(s) : f[j] = j
  BY <1>1
<1>3. \A j \in 1..Len(s) : s[j] = s[f[j]] /\ s[f[j]] \notin {}
  BY <1>2
<1>4. \A j, k \in 1..Len(s) : j < k => f[j] < f[k]
  BY <1>2
<1>5. \A p \in DOMAIN s : s[p] \in {} \/ \E j \in 1..Len(s) : f[j] = p
  BY <1>2
<1>. QED  BY <1>2, <1>3, <1>4, <1>5 DEF Thinned

LEMMA ThinnedFurther ==
  ASSUME NEW s \in Seq(Elem), NEW u \in Seq(Elem), NEW w \in Seq(Elem), NEW G, NEW H,
         Thinned(u, s, G), Thinned(w, u, H)
  PROVE  Thinned(w, s, G \cup H)
<1>1. DOMAIN u = 1..Len(u)
  OBVIOUS
<1>2. PICK f \in [1..Len(u) -> DOMAIN s] :
        /\ \A j \in 1..Len(u) : u[j] = s[f[j]] /\ s[f[j]] \notin G
        /\ \A j, k \in 1..Len(u) : j < k => f[j] < f[k]
        /\ \A p \in DOMAIN s : s[p] \in G \/ \E j \in 1..Len(u) : f[j] = p
  BY Zenon DEF Thinned
<1>3. PICK h \in [1..Len(w) -> DOMAIN u] :
        /\ \A j \in 1..Len(w) : w[j] = u[h[j]] /\ u[h[j]] \notin H
        /\ \A j, k \in 1..Len(w) : j < k => h[j] < h[k]
        /\ \A p \in DOMAIN u : u[p] \in H \/ \E j \in 1..Len(w) : h[j] = p
  BY Zenon DEF Thinned
<1>4. PICK g : g = [j \in 1..Len(w) |-> f[h[j]]]
  OBVIOUS
<1>5. \A j \in 1..Len(w) : g[j] = f[h[j]] /\ h[j] \in 1..Len(u)
  BY <1>1, <1>4
<1>6. g \in [1..Len(w) -> DOMAIN s]
  BY <1>4, <1>5
<1>7. ASSUME NEW j \in 1..Len(w) PROVE w[j] = s[g[j]] /\ s[g[j]] \notin G \cup H
  <2>1. PICK q \in 1..Len(u) : q = h[j] /\ g[j] = f[q]
    BY <1>5
  <2>2. w[j] = u[q] /\ u[q] \notin H
    BY <1>3, <2>1
  <2>3. u[q] = s[f[q]] /\ s[f[q]] \notin G
    BY <1>2
  <2>. QED  BY <2>1, <2>2, <2>3
<1>8. \A j, k \in 1..Len(w) : j < k => g[j] < g[k]
  BY <1>2, <1>3, <1>5
<1>9. ASSUME NEW p \in DOMAIN s, s[p] \notin G \cup H PROVE \E j \in 1..Len(w) : g[j] = p
  <2>1. PICK q \in 1..Len(u) : f[q] = p
    BY <1>2, <1>9
  <2>2. u[q] \notin H
    BY <1>2, <1>9, <2>1
  <2>3. PICK j \in 1..Len(w) : h[j] = q
    BY <1>3, <2>2
  <2>. QED  BY <1>5, <2>1, <2>3
<1>10. \A p \in DOMAIN s : s[p] \in G \cup H \/ \E j \in 1..Len(w) : g[j] = p
  BY <1>9
<1>. QED  BY <1>6, <1>7, <1>8, <1>10, Zenon DEF Thinned

LEMMA ThinnedShorter ==
  ASSUME NEW s \in Seq(Elem), NEW u \in Seq(Elem), NEW w \in Seq(Elem), Len(u) <= Len(s), Len(w) <= Len(u)
  PROVE  Len(w) <= Len(s)
  OBVIOUS

LEMMA RemainingAre ==
  ASSUME NEW s \in Seq(Elem), NEW t \in Seq(Elem)
  PROVE  /\ Remaining(s, t) \in Seq(Elem) /\ Len(Remaining(s, t)) <= Len(s)
         /\ Thinned(Remaining(s, t), s, {t[i] : i \in 1..Len(t)})
<1>1. PICK f : f = CHOOSE g : RemainingUpTo(g, Len(t), s, t)
  OBVIOUS
<1>2. RemainingUpTo(f, Len(t), s, t)
  BY <1>1, RemainingExist, Zenon
<1>3. Remaining(s, t) = f[Len(t)]
  BY <1>1, Zenon DEF Remaining
<1>4. \A i \in 0..Len(t) : f[i] = IF i = 0 THEN s ELSE Array!Scan(f[i - 1], Array!Outside(t[i]))
  BY <1>2, Zenon DEF RemainingUpTo
<1>. DEFINE Done(w, n) == w \in Seq(Elem) /\ Len(w) <= Len(s) /\ Thinned(w, s, {t[i] : i \in 1..n})
            G == {n \in 0..Len(t) : Done(f[n], n)}
<1>5. Len(t) \in Nat /\ Len(s) \in Nat
  OBVIOUS
<1>6. 0 \in G
  <2>1. {t[i] : i \in 1..0} = {}
    OBVIOUS
  <2>2. f[0] = s /\ 0 \in 0..Len(t)
    BY <1>4, <1>5
  <2>3. Thinned(s, s, {t[i] : i \in 1..0})
    BY <2>1, ThinnedItself
  <2>4. Done(s, 0)
    BY <1>5, <2>3
  <2>. HIDE DEF Done
  <2>. QED  BY <2>2, <2>4
<1>7. ASSUME NEW n \in 1..Len(t), n - 1 \in G PROVE n \in G
  <2>1. PICK u : u = f[n - 1]
    OBVIOUS
  <2>2. Done(u, n - 1)
    BY <1>7, <2>1
  <2>3. PICK w : w = Array!Scan(u, Array!Outside(t[n]))
    OBVIOUS
  <2>4. n \in 0..Len(t) /\ n # 0
    OBVIOUS
  <2>5. f[n] = w
    BY <1>4, <2>1, <2>3, <2>4, Zenon
  <2>6. u \in Seq(Elem) /\ Len(u) <= Len(s) /\ Thinned(u, s, {t[i] : i \in 1..n - 1})
    BY <2>2
  <2>7. w \in Seq(Elem) /\ Len(w) <= Len(u)
    BY <2>3, <2>6, ScanTyped
  <2>8. Fixed(Array!Outside(t[n]), u, t[n])
    BY OutsideFixed
  <2>9. Thinned(w, u, {t[n]})
    BY <2>3, <2>6, <2>8, ScanThins
  <2>10. Thinned(w, s, {t[i] : i \in 1..n - 1} \cup {t[n]})
    BY <2>6, <2>7, <2>9, ThinnedFurther
  <2>11. {t[i] : i \in 1..n - 1} \cup {t[n]} = {t[i] : i \in 1..n}
    <3>1. \A i : i \in 1..n <=> i \in 1..n - 1 \/ i = n
      OBVIOUS
    <3>. QED  BY <3>1
  <2>12. Thinned(w, s, {t[i] : i \in 1..n})
    BY <2>10, <2>11
  <2>13. Len(w) <= Len(s)
    BY <2>6, <2>7, ThinnedShorter
  <2>14. Done(w, n)
    BY <2>7, <2>12, <2>13
  <2>. HIDE DEF Done
  <2>. QED  BY <2>4, <2>5, <2>14
<1>8. \A n \in 0..Len(t) : n \in G
  <2>. HIDE DEF G
  <2>. QED  BY <1>5, <1>6, <1>7, Reached
<1>9. Done(f[Len(t)], Len(t))
  <2>1. Len(t) \in 0..Len(t)
    BY <1>5
  <2>2. Len(t) \in G
    <3>. HIDE DEF G
    <3>. QED  BY <1>8, <2>1
  <2>. HIDE DEF Done
  <2>. QED  BY <2>2
<1>. QED  BY <1>3, <1>9

-----------------------------------------------------------------------------
(* Every operation keeps the invariant.                                        *)

LEMMA ArraysTyped ==
  ASSUME ArraysInv, NEW v \in Arr
  PROVE  Shaped(dim[v]) /\ data[v] \in Seq(Elem) /\ Len(data[v]) = Array!Size(dim[v]) /\ Len(data[v]) \in Nat
  BY DEF ArraysInv

LEMMA RedimKeeps ==
  ASSUME Array!ArrayAssumption, ArraysInv, NEW v \in Arr, NEW b \in Array!Pairs, Array!Redim(v, b), UNCHANGED prog
  PROVE  ArraysInv'
<1>1. PICK n \in 1..4 : b \in [1..n -> [lo: Index, hi: Index]] /\ Len(b) = n
  BY PairsAre DEF ArraysInv
<1>2. PICK dm : dm = Array!RedimDimensions(dim[v], b)
  OBVIOUS
<1>3. Shaped(dm)
  BY <1>1, <1>2, RedimShaped
<1>4. PICK s : s = Array!Resize(<<>>, Array!Size(dm))
  OBVIOUS
<1>5. s \in Seq(Elem) /\ Len(s) = Array!Size(dm)
  <2>1. <<>> \in Seq(Elem)
    OBVIOUS
  <2>. QED  BY <1>3, <1>4, <2>1, SizeNatural, ResizeIs
<1>6. Array!Set(v, dm, s)
  BY <1>2, <1>4 DEF Array!Redim
<1>. QED  BY <1>3, <1>5, <1>6, SetKeeps

LEMMA RedimPreserveKeeps ==
  ASSUME Array!ArrayAssumption, ArraysInv, NEW v \in Arr, NEW b \in Array!Pairs, Array!RedimPreserve(v, b),
         UNCHANGED prog
  PROVE  ArraysInv'
<1>1. PICK n \in 1..4 : b \in [1..n -> [lo: Index, hi: Index]] /\ Len(b) = n
  BY PairsAre DEF ArraysInv
<1>2. PICK dm : dm = Array!PreserveDimensions(dim[v], b)
  OBVIOUS
<1>3. Shaped(dm)
  <2>1. n \in {1, Array!Rank(dim[v])}
    BY <1>1 DEF Array!RedimPreserve
  <2>. QED  BY <1>1, <1>2, <2>1, ArraysTyped, PreserveShaped DEF SameInner
<1>4. PICK s : s = Array!Resize(data[v], Array!Size(dm))
  OBVIOUS
<1>5. s \in Seq(Elem) /\ Len(s) = Array!Size(dm)
  BY <1>3, <1>4, ArraysTyped, SizeNatural, ResizeIs
<1>6. Array!Set(v, dm, s)
  BY <1>2, <1>4 DEF Array!RedimPreserve
<1>. QED  BY <1>3, <1>5, <1>6, SetKeeps

LEMMA PutIs ==
  ASSUME ArraysInv, NEW v \in Arr, NEW i, NEW x \in Elem, Array!Put(v, i, x)
  PROVE  /\ dim' = dim
         /\ \/ data' = data
            \/ \E p \in 1..Len(data[v]) :
                  /\ p = Array!Offset(dim[v], i) + 1
                  /\ data' = [data EXCEPT ![v] = [data[v] EXCEPT ![p] = x]]
<1>1. CASE Array!Offset(dim[v], i) \in 0..Len(data[v]) - 1
  <2>1. PICK o \in 0..Len(data[v]) - 1 : o = Array!Offset(dim[v], i)
    BY <1>1
  <2>2. data' = [data EXCEPT ![v][o + 1] = x] /\ dim' = dim
    BY <2>1 DEF Array!Put
  <2>3. o + 1 \in 1..Len(data[v])
    BY <2>1, ArraysTyped
  <2>. QED  BY <2>1, <2>2, <2>3
<1>2. CASE Array!Offset(dim[v], i) \notin 0..Len(data[v]) - 1
  BY <1>2 DEF Array!Put
<1>. QED  BY <1>1, <1>2

LEMMA PutKeeps ==
  ASSUME ArraysInv, NEW v \in Arr, NEW i, NEW x \in Elem, Array!Put(v, i, x), UNCHANGED prog
  PROVE  ArraysInv'
<1>1. CASE data' = data
  <2>1. dim' = dim
    BY PutIs
  <2>. QED  BY <1>1, <2>1 DEF ArraysInv
<1>2. CASE \E p \in 1..Len(data[v]) : data' = [data EXCEPT ![v] = [data[v] EXCEPT ![p] = x]]
  <2>1. PICK p \in 1..Len(data[v]) : data' = [data EXCEPT ![v] = [data[v] EXCEPT ![p] = x]]
    BY <1>2
  <2>2. PICK s : s = [data[v] EXCEPT ![p] = x]
    OBVIOUS
  <2>3. s \in Seq(Elem) /\ Len(s) = Len(data[v])
    BY <2>2, ArraysTyped
  <2>4. data \in [Arr -> Seq(Elem)] /\ dim' = dim
    BY PutIs DEF ArraysInv
  <2>5. data' \in [Arr -> Seq(Elem)] /\ \A w \in Arr : Len(data'[w]) = Len(data[w])
    BY <2>1, <2>2, <2>3, <2>4
  <2>. QED  BY <2>4, <2>5 DEF ArraysInv
<1>. QED  BY <1>1, <1>2, PutIs

\* << and >>: how many elements come or go.
LEMMA GrowKeeps ==
  ASSUME Array!ArrayAssumption, ArraysInv, NEW v \in Arr, NEW s \in Seq(Elem), Array!OneDimension(v),
         Array!Set(v, Array!Grow(dim[v], Len(s) - Len(data[v])), s), UNCHANGED prog
  PROVE  ArraysInv'
<1>1. PICK n \in Int : n = Len(s) - Len(data[v])
  <2>1. PICK p \in Nat, q \in Nat : p = Len(s) /\ q = Len(data[v])
    BY ArraysTyped
  <2>2. p - q \in Int
    OBVIOUS
  <2>. QED  BY <2>1, <2>2
<1>8. PICK dm : dm = Array!Grow(dim[v], n)
  OBVIOUS
<1>2. dim[v][2].d = 0 /\ dm[1].hi \in Index
  BY <1>1, <1>8 DEF Array!OneDimension, Array!Set
<1>3. Shaped(dim[v]) /\ Len(data[v]) = Array!Size(dim[v]) /\ Array!Size(dim[v]) = dim[v][1].d
  BY <1>2, ArraysTyped, SizeOfOne
<1>4. dim[v][1].d + n = Len(s) /\ Len(s) \in Nat
  <2>1. Len(data[v]) \in Nat /\ Len(s) \in Nat
    BY ArraysTyped
  <2>. QED  BY <1>1, <1>3, <2>1
<1>5. Shaped(dm) /\ Array!Size(dm) = Array!Size(dim[v]) + n
  BY <1>1, <1>2, <1>3, <1>4, <1>8, GrowShaped DEF SameInner
<1>6. Len(s) = Array!Size(dm)
  BY <1>3, <1>4, <1>5
<1>7. Array!Set(v, dm, s)
  BY <1>1, <1>8
<1>. QED  BY <1>5, <1>6, <1>7, SetKeeps

LEMMA AppendItemsIs ==
  ASSUME ArraysInv, NEW v \in Arr, NEW items \in Seq(Elem), Array!AppendItems(v, items)
  PROVE  \E s \in Seq(Elem) :
            /\ s = data[v] \o items /\ Array!OneDimension(v) /\ Len(s) - Len(data[v]) = Len(items)
            /\ Array!Set(v, Array!Grow(dim[v], Len(s) - Len(data[v])), s)
<1>1. PICK t \in Seq(Elem), s \in Seq(Elem) : t = data[v] /\ s = t \o items
  <2>1. PICK t \in Seq(Elem) : t = data[v]
    BY ArraysTyped
  <2>2. t \o items \in Seq(Elem)
    BY ONLY t \in Seq(Elem), items \in Seq(Elem)
  <2>. QED  BY <2>1, <2>2
<1>2. s \in Seq(Elem) /\ Len(s) = Len(t) + Len(items) /\ Len(t) \in Nat /\ Len(items) \in Nat
  BY <1>1
<1>3. Len(s) - Len(t) = Len(items)
  BY <1>2
<1>. QED  BY <1>1, <1>2, <1>3 DEF Array!AppendItems

LEMMA CopyKeeps ==
  ASSUME ArraysInv, NEW v \in Arr, NEW u \in Arr, Array!Assign(v, u), UNCHANGED prog
  PROVE  ArraysInv'
  BY ArraysTyped, SetKeeps DEF Array!Assign

LEMMA OperationKeeps ==
  ASSUME Array!ArrayAssumption, ArraysInv, NEW v \in Arr, prog.arrays \subseteq Arr, Array!Operation(v),
         UNCHANGED prog
  PROVE  ArraysInv'
<1>1. ASSUME NEW b \in Array!Pairs, Array!Redim(v, b) PROVE ArraysInv'
  BY <1>1, RedimKeeps
<1>2. ASSUME NEW b \in Array!Pairs, Array!RedimPreserve(v, b) PROVE ArraysInv'
  BY <1>2, RedimPreserveKeeps
<1>3. ASSUME NEW i, NEW x \in Elem, Array!Put(v, i, x) PROVE ArraysInv'
  BY <1>3, PutKeeps
<1>4. ASSUME NEW items \in Seq(Elem), Array!AppendItems(v, items) PROVE ArraysInv'
  BY <1>4, AppendItemsIs, GrowKeeps
<1>5. ASSUME NEW item, Array!RemoveWith(v, item) PROVE ArraysInv'
  <2>1. PICK s : s = Array!Scan(data[v], item)
    OBVIOUS
  <2>2. s \in Seq(Elem)
    BY <2>1, ArraysTyped, ScanTyped
  <2>3. Array!OneDimension(v) /\ Array!Set(v, Array!Grow(dim[v], Len(s) - Len(data[v])), s)
    BY <1>5, <2>1 DEF Array!RemoveWith
  <2>. QED  BY <2>2, <2>3, GrowKeeps
<1>6. ASSUME NEW u \in Arr, Array!RemoveItems(v, u) PROVE ArraysInv'
  <2>1. PICK s : s = Remaining(data[v], data[u])
    OBVIOUS
  <2>2. s \in Seq(Elem)
    BY <2>1, ArraysTyped, RemainingAre
  <2>3. Array!OneDimension(v) /\ Array!Set(v, Array!Grow(dim[v], Len(s) - Len(data[v])), s)
    BY <1>6, <2>1, RemoveItemsIs
  <2>. QED  BY <2>2, <2>3, GrowKeeps
<1>7. ASSUME NEW u \in Arr, Array!Assign(v, u) PROVE ArraysInv'
  BY <1>7, CopyKeeps
<1>8. CASE \E b \in Array!Pairs : Array!Redim(v, b) \/ Array!RedimPreserve(v, b)
  BY <1>1, <1>2, <1>8
<1>9. CASE \E i \in [1..Array!Rank(dim[v]) -> Index], x \in Elem : Array!Put(v, i, x)
  BY <1>3, <1>9
<1>10. CASE \E x \in Elem : Array!AppendItems(v, <<x>>) \/ Array!RemoveValue(v, x)
  <2>1. \A x \in Elem : <<x>> \in Seq(Elem)
    OBVIOUS
  <2>. QED  BY <1>4, <1>5, <1>10, <2>1 DEF Array!RemoveValue
<1>11. CASE \E p \in DOMAIN data[v] : Array!RemoveElement(v, p)
  BY <1>5, <1>11 DEF Array!RemoveElement
<1>12. CASE \E u \in prog.arrays \ {v} : \/ Array!AppendItems(v, data[u])
                                         \/ Array!RemoveItems(v, u)
                                         \/ Array!Assign(v, u)
  <2>1. PICK u \in Arr : Array!AppendItems(v, data[u]) \/ Array!RemoveItems(v, u) \/ Array!Assign(v, u)
    BY <1>12
  <2>2. data[u] \in Seq(Elem)
    BY ArraysTyped
  <2>. QED  BY <1>4, <1>6, <1>7, <2>1, <2>2
<1>. QED  BY <1>8, <1>9, <1>10, <1>11, <1>12 DEF Array!Operation

LEMMA ProgramArrays ==
  ASSUME Array!ArrayAssumption, ArraysInv
  PROVE  prog.arrays \subseteq Arr
  BY DEF Array!ArrayAssumption, ArraysInv

LEMMA ArraysStep ==
  ASSUME Array!ArrayAssumption, ArraysInv, [Array!Next]_Array!vars
  PROVE  ArraysInv'
<1>1. CASE UNCHANGED Array!vars
  BY <1>1 DEF Array!vars, ArraysInv
<1>2. CASE Array!Next
  <2>1. PICK v \in prog.arrays : Array!Operation(v)
    BY <1>2 DEF Array!Next
  <2>2. UNCHANGED prog /\ prog.arrays \subseteq Arr
    BY <1>2, ProgramArrays DEF Array!Next
  <2>. QED  BY <2>1, <2>2, OperationKeeps
<1>. QED  BY <1>1, <1>2

LEMMA ArraysAlways == Array!ArrayAssumption => (Array!Spec => []ArraysInv)
<1>. SUFFICES ASSUME Array!ArrayAssumption PROVE Array!Spec => []ArraysInv
  OBVIOUS
<1>. QED  BY ArraysInit, ArraysStep, PTL DEF Array!Spec

\* The dimensions of an array agree with its vector, whatever was declared, appended,
\* removed or assigned, and different indexes within the bounds are different elements
\* (redim, operator(), << and >> of array, core.h).
THEOREM ArraysAreSound ==
  Array!ArrayAssumption => (Array!Spec => [](Array!SizeMatches /\ Array!IndexesDistinct))
<1>. SUFFICES ASSUME Array!ArrayAssumption
              PROVE  Array!Spec => [](Array!SizeMatches /\ Array!IndexesDistinct)
  OBVIOUS
<1>1. ArraysInv => Array!SizeMatches
  <2>. SUFFICES ASSUME ArraysInv PROVE Array!SizeMatches
    OBVIOUS
  <2>1. Array!TypeOK
    BY DEF ArraysInv, Array!TypeOK
  <2>2. ASSUME NEW v \in Arr
        PROVE  /\ Len(data[v]) = Array!Size(dim[v])
               /\ dim[v][1].d = dim[v][1].hi - dim[v][1].lo + 1
               /\ \A k \in 2..4 : dim[v][k].d \in {0, dim[v][k].hi - dim[v][k].lo + 1}
    BY ArraysTyped DEF Shaped
  <2>. QED  BY <2>1, <2>2 DEF Array!SizeMatches
<1>2. ArraysInv => Array!IndexesDistinct
  <2>. SUFFICES ASSUME ArraysInv, NEW v \in Arr,
                       NEW i \in Array!Indexes(dim[v]), NEW j \in Array!Indexes(dim[v])
                PROVE  /\ Array!Offset(dim[v], i) \in 0 .. Len(data[v]) - 1
                       /\ Array!Offset(dim[v], i) = Array!Offset(dim[v], j) => i = j
    BY DEF Array!IndexesDistinct
  <2>1. /\ i \in [1..Array!Rank(dim[v]) -> Int] /\ Array!Within(dim[v], i)
        /\ j \in [1..Array!Rank(dim[v]) -> Int] /\ Array!Within(dim[v], j)
    BY IndexesAreIntegers DEF Array!Indexes
  <2>2. Shaped(dim[v]) /\ Len(data[v]) = Array!Size(dim[v]) /\ Len(data[v]) \in Nat
    BY ArraysTyped
  <2>3. Array!Offset(dim[v], i) \in Nat /\ Array!Offset(dim[v], i) < Len(data[v])
    BY <2>1, <2>2, PlaceFits
  <2>4. Array!Offset(dim[v], i) = Array!Offset(dim[v], j) => i = j
    BY <2>1, <2>2, PlacesDistinct
  <2>. QED  BY <2>2, <2>3, <2>4
<1>. QED  BY <1>1, <1>2, ArraysAlways, PTL

-----------------------------------------------------------------------------
(* The refinement: what the dimensions and the vector of each array are to the *)
(* table of ArraySpec.                                                         *)

BoundsOf(dm) == [k \in 1..Array!Rank(dm) |-> [lo |-> dm[k].lo, hi |-> dm[k].hi]]
ElementsOf(dm, s) == [i \in Array!Indexes(dm) |-> s[Array!Offset(dm, i) + 1]]

Bounds == [v \in Arr |-> BoundsOf(dim[v])]
Elements == [v \in Arr |-> ElementsOf(dim[v], data[v])]

LEMMA TableInit ==
  Array!Table!Init <=>
    /\ Bounds = [v \in Arr |-> <<[lo |-> 0, hi |-> 1]>>]
    /\ Elements = [v \in Arr |-> Array!Table!Empty(<<[lo |-> 0, hi |-> 1]>>)]
  BY Zenon DEF Array!Table!Init, Bounds, Elements, BoundsOf, ElementsOf

LEMMA TableRedim ==
  ASSUME NEW v
  PROVE  Array!Table!Redim(v) <=>
           /\ Array!Table!IsBounds(Bounds'[v])
           /\ Bounds' = [Bounds EXCEPT ![v] = Bounds'[v]]
           /\ Elements' = [Elements EXCEPT ![v] = Array!Table!Empty(Bounds'[v])]
  BY Zenon DEF Array!Table!Redim, Bounds, Elements, BoundsOf, ElementsOf

LEMMA TablePreserve ==
  ASSUME NEW v
  PROVE  Array!Table!Preserve(v) <=>
           \E h \in Index :
              LET b == [Bounds[v] EXCEPT ![1].hi = h] IN
              /\ Bounds' = [Bounds EXCEPT ![v] = b]
              /\ Elements' = [Elements EXCEPT ![v] = [i \in Array!Table!Indexes(b) |->
                    IF i \in DOMAIN Elements[v] THEN Elements[v][i] ELSE Initial]]
  BY Zenon DEF Array!Table!Preserve, Bounds, Elements, BoundsOf, ElementsOf

LEMMA TablePut ==
  ASSUME NEW v
  PROVE  Array!Table!Put(v) <=>
           /\ Bounds' = Bounds
           /\ \E i \in DOMAIN Elements[v], x \in Elem : Elements' = [Elements EXCEPT ![v][i] = x]
  BY Zenon DEF Array!Table!Put, Bounds, Elements, BoundsOf, ElementsOf

LEMMA TableExtend ==
  ASSUME NEW v
  PROVE  Array!Table!Extend(v) <=>
           /\ Len(Bounds[v]) = 1
           /\ \E h \in Index : h > Bounds[v][1].hi /\ Bounds' = [Bounds EXCEPT ![v][1].hi = h]
           /\ Elements'[v] \in [Array!Table!Indexes(Bounds'[v]) -> Elem]
           /\ \A i \in DOMAIN Elements[v] : Elements'[v][i] = Elements[v][i]
           /\ Elements' = [Elements EXCEPT ![v] = Elements'[v]]
  BY Zenon DEF Array!Table!Extend, Bounds, Elements, BoundsOf, ElementsOf

LEMMA TableDelete ==
  ASSUME NEW v
  PROVE  Array!Table!Delete(v) <=>
           /\ Len(Bounds[v]) = 1
           /\ \E gone \in SUBSET Elem :
                LET keep == {i \in DOMAIN Elements[v] : Elements[v][i] \notin gone}
                    rank(i) == Array!Table!Cardinality({k \in keep : k[1] < i[1]})
                    b == [Bounds[v] EXCEPT ![1].hi = @ - Array!Table!Cardinality(DOMAIN Elements[v] \ keep)]
                IN /\ Bounds' = [Bounds EXCEPT ![v] = b]
                   /\ Elements' = [Elements EXCEPT ![v] = [j \in Array!Table!Indexes(b) |->
                          Elements[v][CHOOSE i \in keep : rank(i) = j[1] - b[1].lo]]]
  BY Zenon DEF Array!Table!Delete, Bounds, Elements, BoundsOf, ElementsOf

LEMMA TableCopy ==
  ASSUME NEW v
  PROVE  Array!Table!Copy(v) <=>
           \E u \in Arr \ {v} :
              /\ Bounds' = [Bounds EXCEPT ![v] = Bounds[u]]
              /\ Elements' = [Elements EXCEPT ![v] = Elements[u]]
  BY Zenon DEF Array!Table!Copy, Bounds, Elements, BoundsOf, ElementsOf

LEMMA TableVars == (UNCHANGED Array!Table!vars) <=> (Bounds' = Bounds /\ Elements' = Elements)
  BY DEF Array!Table!vars, Bounds, Elements, BoundsOf, ElementsOf

\* What a step does to one array, it does to its table.
Becomes(v, dm, s) == dim' = [dim EXCEPT ![v] = dm] /\ data' = [data EXCEPT ![v] = s]

LEMMA TableChange ==
  ASSUME ArraysInv, NEW v \in Arr, NEW dm, NEW s, Becomes(v, dm, s)
  PROVE  /\ Bounds' = [Bounds EXCEPT ![v] = BoundsOf(dm)] /\ Bounds'[v] = BoundsOf(dm)
         /\ Elements' = [Elements EXCEPT ![v] = ElementsOf(dm, s)] /\ Elements'[v] = ElementsOf(dm, s)
<1>1. DOMAIN dim = Arr /\ DOMAIN data = Arr
  BY DEF ArraysInv
<1>2. dim'[v] = dm /\ data'[v] = s /\ \A w \in Arr : w # v => dim'[w] = dim[w] /\ data'[w] = data[w]
  BY <1>1 DEF Becomes
<1>3. Bounds' = [w \in Arr |-> BoundsOf(dim'[w])] /\ Elements' = [w \in Arr |-> ElementsOf(dim'[w], data'[w])]
  BY DEF Bounds, Elements, BoundsOf, ElementsOf
<1>4. ASSUME NEW w \in Arr
      PROVE  /\ BoundsOf(dim'[w]) = IF w = v THEN BoundsOf(dm) ELSE BoundsOf(dim[w])
             /\ ElementsOf(dim'[w], data'[w])
                   = IF w = v THEN ElementsOf(dm, s) ELSE ElementsOf(dim[w], data[w])
  <2>1. CASE w = v
    <3>1. dim'[w] = dm /\ data'[w] = s
      BY <1>2, <2>1
    <3>. QED  BY <2>1, <3>1
  <2>2. CASE w # v
    <3>1. dim'[w] = dim[w] /\ data'[w] = data[w]
      BY <1>2, <2>2
    <3>. QED  BY <2>2, <3>1
  <2>. QED  BY <2>1, <2>2
<1>6. Bounds' = [Bounds EXCEPT ![v] = BoundsOf(dm)]
  BY <1>3, <1>4 DEF Bounds
<1>7. Elements' = [Elements EXCEPT ![v] = ElementsOf(dm, s)]
  BY <1>3, <1>4 DEF Elements
<1>8. Bounds'[v] = BoundsOf(dm) /\ Elements'[v] = ElementsOf(dm, s)
  BY <1>2, <1>3
<1>. QED  BY <1>6, <1>7, <1>8

LEMMA TableOf ==
  ASSUME NEW v \in Arr
  PROVE  Bounds[v] = BoundsOf(dim[v]) /\ Elements[v] = ElementsOf(dim[v], data[v])
         /\ DOMAIN Elements[v] = Array!Indexes(dim[v])
  BY DEF Bounds, Elements, ElementsOf

LEMMA BoundsAre ==
  ASSUME NEW dm
  PROVE  /\ DOMAIN BoundsOf(dm) = 1..Array!Rank(dm)
         /\ \A k \in 1..Array!Rank(dm) : BoundsOf(dm)[k] = [lo |-> dm[k].lo, hi |-> dm[k].hi]
  BY DEF BoundsOf

LEMMA IndexesAre ==
  ASSUME NEW dm
  PROVE  Array!Table!Indexes(BoundsOf(dm)) = Array!Indexes(dm)
<1>1. ASSUME NEW i \in [1..Array!Rank(dm) -> Index]
      PROVE  Array!Within(dm, i) <=>
               \A k \in 1..Array!Rank(dm) : BoundsOf(dm)[k].lo <= i[k] /\ i[k] <= BoundsOf(dm)[k].hi
  <2>1. DOMAIN i = 1..Array!Rank(dm)
    BY Zenon
  <2>2. ASSUME NEW k \in 1..Array!Rank(dm) PROVE BoundsOf(dm)[k].lo = dm[k].lo /\ BoundsOf(dm)[k].hi = dm[k].hi
    <3>1. BoundsOf(dm)[k] = [lo |-> dm[k].lo, hi |-> dm[k].hi]
      BY BoundsAre, Zenon
    <3>. QED  BY <3>1
  <2>. QED  BY <2>1, <2>2, Zenon DEF Array!Within
<1>2. Array!Table!Indexes(BoundsOf(dm)) =
        {i \in [1..Array!Rank(dm) -> Index] :
           \A k \in 1..Array!Rank(dm) : BoundsOf(dm)[k].lo <= i[k] /\ i[k] <= BoundsOf(dm)[k].hi}
  BY BoundsAre, Zenon DEF Array!Table!Indexes
<1>3. Array!Indexes(dm) = {i \in [1..Array!Rank(dm) -> Index] : Array!Within(dm, i)}
  BY Zenon DEF Array!Indexes
<1>. QED  BY <1>1, <1>2, <1>3, Zenon

LEMMA BoundsFit ==
  ASSUME NEW dm, Shaped(dm)
  PROVE  Array!Table!IsBounds(BoundsOf(dm))
<1>1. Array!Rank(dm) \in 1..4
  BY RankIs
<1>2. ASSUME NEW k \in 1..Array!Rank(dm) PROVE dm[k].lo \in Index /\ dm[k].hi \in Index
  <2>1. k = 1 \/ (k \in 2..4 /\ k > 1 /\ k <= Array!Rank(dm))
    BY <1>1
  <2>2. CASE k = 1
    BY <2>2 DEF Shaped
  <2>3. CASE k \in 2..4 /\ k > 1 /\ k <= Array!Rank(dm)
    <3>1. k \in 1..4
      BY <2>3
    <3>2. dm[k].d # 0
      BY <2>3, <3>1, RankBeyond
    <3>. QED  BY <2>3, <3>2 DEF Shaped
  <2>. QED  BY <2>1, <2>2, <2>3
<1>3. BoundsOf(dm) \in [1..Array!Rank(dm) -> [lo: Index, hi: Index]]
  BY <1>2 DEF BoundsOf
<1>. QED  BY <1>1, <1>3 DEF Array!Table!IsBounds, Array!Table!Interval

\* An index tuple within the bounds is one of an element.
LEMMA IndexFits ==
  ASSUME Array!ArrayAssumption, NEW dm, Shaped(dm), NEW i \in Array!Indexes(dm)
  PROVE  /\ i \in [1..Array!Rank(dm) -> Int] /\ Array!Within(dm, i)
         /\ Array!Offset(dm, i) + 1 \in 1..Array!Size(dm)
<1>1. i \in [1..Array!Rank(dm) -> Index] /\ Array!Within(dm, i)
  BY DEF Array!Indexes
<1>2. i \in [1..Array!Rank(dm) -> Int]
  BY <1>1, IndexesAreIntegers
<1>3. PICK o \in Nat, z \in Nat : o = Array!Offset(dm, i) /\ z = Array!Size(dm) /\ o < z
  BY <1>1, <1>2, PlaceFits, SizeNatural
<1>4. o + 1 \in 1..z
  BY <1>3
<1>. QED  BY <1>1, <1>2, <1>3, <1>4

LEMMA RedimRefines ==
  ASSUME Array!ArrayAssumption, ArraysInv, NEW v \in Arr, NEW b \in Array!Pairs, Array!Redim(v, b)
  PROVE  Array!Table!Redim(v)
<1>1. PICK n \in 1..4 : b \in [1..n -> [lo: Index, hi: Index]] /\ Len(b) = n
  BY PairsAre DEF ArraysInv
<1>2. PICK dm : dm = Array!RedimDimensions(dim[v], b)
  OBVIOUS
<1>3. Shaped(dm)
  BY <1>1, <1>2, RedimShaped
<1>4. PICK s : s = Array!Resize(<<>>, Array!Size(dm))
  OBVIOUS
<1>5. \A i \in 1..Array!Size(dm) : s[i] = Initial
  <2>1. <<>> \in Seq(Elem) /\ Len(<<>>) = 0 /\ Array!Size(dm) \in Nat
    BY <1>3, SizeNatural
  <2>2. \A i \in 1..Array!Size(dm) : s[i] = IF i <= Len(<<>>) THEN <<>>[i] ELSE Initial
    BY <1>4, <2>1, ResizeIs
  <2>3. \A i \in 1..Array!Size(dm) : ~(i <= 0)
    OBVIOUS
  <2>. QED  BY <2>1, <2>2, <2>3
<1>6. dim' = [dim EXCEPT ![v] = dm] /\ data' = [data EXCEPT ![v] = s]
  BY <1>2, <1>4 DEF Array!Redim, Array!Set
<1>7. ElementsOf(dm, s) = Array!Table!Empty(BoundsOf(dm))
  <2>1. \A i \in Array!Indexes(dm) : s[Array!Offset(dm, i) + 1] = Initial
    BY <1>3, <1>5, IndexFits
  <2>2. Array!Table!Empty(BoundsOf(dm)) = [i \in Array!Indexes(dm) |-> Initial]
    BY IndexesAre, Zenon DEF Array!Table!Empty
  <2>. QED  BY <2>1, <2>2 DEF ElementsOf
<1>8. /\ Bounds' = [Bounds EXCEPT ![v] = BoundsOf(dm)] /\ Bounds'[v] = BoundsOf(dm)
      /\ Elements' = [Elements EXCEPT ![v] = ElementsOf(dm, s)]
  <2>1. Becomes(v, dm, s)
    BY <1>6 DEF Becomes
  <2>. QED  BY <2>1, TableChange
<1>9. Array!Table!IsBounds(Bounds'[v])
  BY <1>3, <1>8, BoundsFit
<1>10. Bounds' = [Bounds EXCEPT ![v] = Bounds'[v]]
  BY <1>8, Zenon
<1>11. Elements' = [Elements EXCEPT ![v] = Array!Table!Empty(Bounds'[v])]
  BY <1>7, <1>8, Zenon
<1>. QED  BY <1>9, <1>10, <1>11, TableRedim

\* Only the upper bound of the first dimension is another.
LEMMA UpperMoved ==
  ASSUME NEW dm, NEW e, Shaped(dm), SameInner(e, dm), e[1].lo = dm[1].lo, NEW h, h = e[1].hi
  PROVE  BoundsOf(e) = [BoundsOf(dm) EXCEPT ![1].hi = h]
<1>1. PICK b, c : b = BoundsOf(dm) /\ c = [b EXCEPT ![1].hi = h]
  OBVIOUS
<1>2. PICK r \in 1..4 : r = Array!Rank(dm) /\ r = Array!Rank(e)
  BY RankIs DEF SameInner
<1>3. DOMAIN b = 1..r /\ DOMAIN BoundsOf(e) = 1..r /\ 1 \in 1..r
  <2>1. DOMAIN b = 1..r
    BY <1>1, <1>2, BoundsAre, Zenon
  <2>2. DOMAIN BoundsOf(e) = 1..r
    BY <1>2, BoundsAre, Zenon
  <2>3. 1 \in 1..r
    OBVIOUS
  <2>. QED  BY <2>1, <2>2, <2>3
<1>4. DOMAIN c = 1..r /\ c = [k \in 1..r |-> c[k]]
  BY <1>1, <1>3
<1>5. c[1] = [b[1] EXCEPT !.hi = h] /\ \A k \in 1..r : k # 1 => c[k] = b[k]
  BY <1>1, <1>3
<1>6. b[1] = [lo |-> dm[1].lo, hi |-> dm[1].hi]
  <2>1. 1 \in 1..Array!Rank(dm)
    BY <1>2, <1>3
  <2>2. BoundsOf(dm)[1] = [lo |-> dm[1].lo, hi |-> dm[1].hi]
    BY <2>1, BoundsAre, Zenon
  <2>. QED  BY <1>1, <2>2
<1>7. c[1] = [lo |-> dm[1].lo, hi |-> h]
  BY <1>5, <1>6
<1>8. \A k \in 1..r : k # 1 => c[k] = [lo |-> e[k].lo, hi |-> e[k].hi]
  <2>1. \A k \in 1..r : k # 1 => k \in 2..r
    OBVIOUS
  <2>2. \A k \in 2..r : e[k] = dm[k]
    BY <1>2 DEF SameInner
  <2>3. \A k \in 1..r : b[k] = [lo |-> dm[k].lo, hi |-> dm[k].hi]
    BY <1>1, <1>2, BoundsAre
  <2>. QED  BY <1>5, <2>1, <2>2, <2>3
<1>9. c[1] = [lo |-> e[1].lo, hi |-> e[1].hi]
  BY <1>7
<1>10. \A k \in 1..r : c[k] = BoundsOf(e)[k]
  <2>1. \A k \in 1..r : BoundsOf(e)[k] = [lo |-> e[k].lo, hi |-> e[k].hi]
    BY <1>2, BoundsAre
  <2>. QED  BY <1>8, <1>9, <2>1
<1>11. BoundsOf(e) = [k \in 1..r |-> BoundsOf(e)[k]]
  BY <1>2 DEF BoundsOf
<1>12. c = BoundsOf(e)
  BY <1>4, <1>10, <1>11, Zenon
<1>. QED  BY <1>1, <1>12

\* The place of an index tuple does not change then.
LEMMA PlaceStays ==
  ASSUME NEW dm, NEW e, Shaped(dm), SameInner(e, dm), e[1].lo = dm[1].lo, NEW i \in [1..Array!Rank(dm) -> Int]
  PROVE  Array!Offset(e, i) = Array!Offset(dm, i)
<1>1. Inner(e) = Inner(dm) /\ Rest(e, i) = Rest(dm, i)
  BY SameInnerIs
<1>2. Digit(e, i, 1) = Digit(dm, i, 1)
  BY DEF Digit
<1>3. Array!Offset(dm, i) = Joined(Digit(dm, i, 1), Inner(dm), Rest(dm, i))
  BY OffsetIs
<1>4. Shaped(e) /\ Array!Rank(e) = Array!Rank(dm)
  BY DEF SameInner
<1>5. Array!Offset(e, i) = Joined(Digit(e, i, 1), Inner(e), Rest(e, i))
  BY <1>4, OffsetIs
<1>. QED  BY <1>1, <1>2, <1>3, <1>5

\* What was not within the bounds is behind the old elements.
LEMMA PlaceBeyond ==
  ASSUME NEW dm, NEW e, Shaped(dm), SameInner(e, dm), e[1].lo = dm[1].lo,
         NEW i \in [1..Array!Rank(dm) -> Int], Array!Within(e, i), ~Array!Within(dm, i)
  PROVE  Array!Size(dm) <= Array!Offset(e, i)
<1>1. PICK r \in 1..4 : r = Array!Rank(dm) /\ r = Array!Rank(e) /\ DOMAIN i = 1..r
  BY RankIs DEF SameInner
<1>2. \A k \in 2..r : e[k] = dm[k]
  BY <1>1 DEF SameInner
<1>3. i[1] \in Int /\ dm[1].lo <= i[1] /\ ~(i[1] <= dm[1].hi)
  <2>1. 1 \in 1..r /\ \A k \in 1..r : k = 1 \/ k \in 2..r
    OBVIOUS
  <2>2. \A k \in 1..r : e[k].lo <= i[k] /\ i[k] <= e[k].hi
    BY <1>1 DEF Array!Within
  <2>3. PICK k \in 1..r : ~(dm[k].lo <= i[k] /\ i[k] <= dm[k].hi)
    BY <1>1 DEF Array!Within
  <2>4. k = 1
    BY <1>2, <2>1, <2>2, <2>3
  <2>5. i[1] \in Int
    BY <1>1, <2>1
  <2>. QED  BY <2>1, <2>2, <2>3, <2>4, <2>5
<1>4. InnerWithin(dm, i)
  <2>1. \A k \in 2..r : k \in 1..r
    OBVIOUS
  <2>2. \A k \in 1..r : e[k].lo <= i[k] /\ i[k] <= e[k].hi
    BY <1>1 DEF Array!Within
  <2>. QED  BY <1>1, <1>2, <2>1, <2>2 DEF InnerWithin
<1>5. PICK B \in Nat, b \in Nat : B = Inner(dm) /\ b = Rest(dm, i)
  BY <1>4, RestFits, InnerIs
<1>6. PICK l \in Int, h \in Int, A \in Nat : l = dm[1].lo /\ h = dm[1].hi /\ A = dm[1].d /\ A = h - l + 1
  <2>1. dm[1].lo \in Int /\ dm[1].hi \in Int /\ dm[1].d \in Nat
    BY ShapedTypes
  <2>2. dm[1].d = dm[1].hi - dm[1].lo + 1
    BY DEF Shaped
  <2>. QED  BY <2>1, <2>2
<1>7. PICK a \in Nat : a = Digit(dm, i, 1) /\ A <= a
  BY <1>3, <1>6 DEF Digit
<1>8. A * B <= Joined(a, B, b)
  BY <1>7, DigitsBeyond
<1>9. Array!Size(dm) = A * B
  BY <1>5, <1>6, InnerIs
<1>10. Array!Offset(e, i) = Joined(a, B, b)
  BY <1>5, <1>7, OffsetIs, PlaceStays
<1>. QED  BY <1>8, <1>9, <1>10

LEMMA PreserveRefines ==
  ASSUME Array!ArrayAssumption, Careful, ArraysInv, NEW v \in Arr, NEW b \in Array!Pairs,
         Array!RedimPreserve(v, b)
  PROVE  Array!Table!Preserve(v)
<1>1. PICK n \in 1..4 : b \in [1..n -> [lo: Index, hi: Index]] /\ Len(b) = n
  BY PairsAre DEF ArraysInv
<1>2. PICK dm, e : dm = dim[v] /\ e = Array!PreserveDimensions(dm, b)
  OBVIOUS
<1>3. PICK t, s : t = data[v] /\ s = Array!Resize(t, Array!Size(e))
  OBVIOUS
<1>4. n \in {1, Array!Rank(dm)} /\ e[1].lo = dm[1].lo
      /\ dim' = [dim EXCEPT ![v] = e] /\ data' = [data EXCEPT ![v] = s]
  BY <1>1, <1>2, <1>3 DEF Array!RedimPreserve, Array!Set
<1>5. Shaped(dm) /\ t \in Seq(Elem) /\ Len(t) = Array!Size(dm)
  BY <1>2, <1>3, ArraysTyped
<1>6. SameInner(e, dm)
  BY <1>1, <1>2, <1>4, <1>5, PreserveShaped
<1>7. Shaped(e) /\ Array!Rank(e) = Array!Rank(dm)
  BY <1>6 DEF SameInner
<1>8. PICK h \in Index : h = e[1].hi
  BY <1>7 DEF Shaped
<1>9. PICK c : c = [Bounds[v] EXCEPT ![1].hi = h]
  OBVIOUS
<1>10. c = BoundsOf(e)
  BY <1>2, <1>4, <1>5, <1>6, <1>8, <1>9, TableOf, UpperMoved
<1>11. ASSUME NEW i \in Array!Indexes(e)
       PROVE  s[Array!Offset(e, i) + 1] = IF i \in Array!Indexes(dm) THEN ElementsOf(dm, t)[i] ELSE Initial
  <2>1. i \in [1..Array!Rank(dm) -> Int] /\ Array!Within(e, i) /\ Array!Offset(e, i) + 1 \in 1..Array!Size(e)
    BY <1>7, IndexFits
  <2>2. Array!Size(e) \in Nat
    BY <1>7, SizeNatural
  <2>3. s[Array!Offset(e, i) + 1] = IF Array!Offset(e, i) + 1 <= Len(t) THEN t[Array!Offset(e, i) + 1] ELSE Initial
    BY <1>3, <1>5, <2>1, <2>2, ResizeIs
  <2>4. CASE i \in Array!Indexes(dm)
    <3>1. Array!Offset(dm, i) + 1 \in 1..Len(t) /\ Array!Offset(e, i) = Array!Offset(dm, i)
      BY <1>4, <1>5, <1>6, <2>1, <2>4, IndexFits, PlaceStays
    <3>2. Len(t) \in Nat
      BY <1>5
    <3>3. Array!Offset(dm, i) + 1 <= Len(t)
      BY <3>1, <3>2
    <3>4. ElementsOf(dm, t)[i] = t[Array!Offset(dm, i) + 1]
      BY <2>4 DEF ElementsOf
    <3>. QED  BY <2>3, <2>4, <3>1, <3>3, <3>4, Zenon
  <2>5. CASE i \notin Array!Indexes(dm)
    <3>1. i \in [1..Array!Rank(dm) -> Index]
      BY <1>7 DEF Array!Indexes
    <3>2. ~Array!Within(dm, i)
      BY <2>5, <3>1 DEF Array!Indexes
    <3>3. Array!Size(dm) <= Array!Offset(e, i)
      BY <1>4, <1>5, <1>6, <2>1, <3>2, PlaceBeyond
    <3>4. PICK o \in Int, z \in Nat : o + 1 = Array!Offset(e, i) + 1 /\ o = Array!Offset(e, i) /\ z = Len(t) /\ z <= o
      <4>1. Array!Offset(e, i) \in Nat
        <5>1. i \in [1..Array!Rank(e) -> Int]
          BY <1>7, <2>1
        <5>. QED  BY <1>7, <2>1, <5>1, PlaceFits
      <4>. QED  BY <1>5, <3>3, <4>1
    <3>5. ~(o + 1 <= z)
      BY <3>4
    <3>. QED  BY <2>3, <2>5, <3>4, <3>5, Zenon
  <2>. QED  BY <2>4, <2>5
<1>12. ElementsOf(e, s) = [i \in Array!Table!Indexes(c) |->
                    IF i \in DOMAIN Elements[v] THEN Elements[v][i] ELSE Initial]
  <2>1. Array!Table!Indexes(c) = Array!Indexes(e)
    BY <1>10, IndexesAre
  <2>2. DOMAIN Elements[v] = Array!Indexes(dm) /\ Elements[v] = ElementsOf(dm, t)
    BY <1>2, <1>3, TableOf
  <2>3. ElementsOf(e, s) = [i \in Array!Indexes(e) |-> s[Array!Offset(e, i) + 1]]
    BY DEF ElementsOf
  <2>4. \A i \in Array!Indexes(e) : s[Array!Offset(e, i) + 1]
           = IF i \in DOMAIN Elements[v] THEN Elements[v][i] ELSE Initial
    BY <1>11, <2>2, Zenon
  <2>. QED  BY <2>1, <2>3, <2>4, Zenon
<1>13. Bounds' = [Bounds EXCEPT ![v] = c] /\ Elements' = [Elements EXCEPT ![v] = ElementsOf(e, s)]
  <2>1. Becomes(v, e, s)
    BY <1>4 DEF Becomes
  <2>. QED  BY <1>10, <2>1, TableChange
<1>. QED  BY <1>9, <1>12, <1>13, TablePreserve, Zenon


\* A write outside the bounds of a single dimension throws: nothing changes.
LEMMA PutRefines ==
  ASSUME Array!ArrayAssumption, Careful, ArraysInv, NEW v \in Arr,
         NEW i \in [1..Array!Rank(dim[v]) -> Index], NEW x \in Elem, Array!Put(v, i, x)
  PROVE  Array!Table!Put(v) \/ (Bounds' = Bounds /\ Elements' = Elements)
<1>1. dim' = dim
  BY PutIs
<1>2. Bounds' = Bounds
  BY <1>1 DEF Bounds, BoundsOf
<1>3. CASE data' = data
  BY <1>1, <1>2, <1>3 DEF Elements, ElementsOf
<1>4. CASE \E p \in 1..Len(data[v]) : /\ p = Array!Offset(dim[v], i) + 1
                                      /\ data' = [data EXCEPT ![v] = [data[v] EXCEPT ![p] = x]]
  <2>1. PICK dm, t : dm = dim[v] /\ t = data[v]
    OBVIOUS
  <2>2. Shaped(dm) /\ t \in Seq(Elem) /\ Len(t) = Array!Size(dm) /\ Len(t) \in Nat
    BY <2>1, ArraysTyped
  <2>13. PICK p \in 1..Len(t) : /\ p = Array!Offset(dm, i) + 1
                               /\ data' = [data EXCEPT ![v] = [t EXCEPT ![p] = x]]
    BY <1>4, <2>1
  <2>14. PICK s : s = [t EXCEPT ![p] = x]
    OBVIOUS
  <2>3. /\ p = Array!Offset(dm, i) + 1
        /\ s = [t EXCEPT ![p] = x] /\ data' = [data EXCEPT ![v] = s]
    BY <2>13, <2>14
  <2>4. i \in [1..Array!Rank(dm) -> Index] /\ i \in [1..Array!Rank(dm) -> Int]
    BY <2>1, IndexesAreIntegers
  <2>5. Array!Within(dm, i)
    <3>1. PICK r \in 1..4 : r = Array!Rank(dm)
      BY <2>2, RankIs
    <3>2. Len(i) = r /\ DOMAIN i = 1..r /\ i \in Seq(Int)
      BY <2>4, <3>1
    <3>3. CASE r > 1
      BY <2>1, <3>2, <3>3 DEF Array!Put
    <3>4. CASE r = 1
      <4>1. Array!Offset(dm, i) = i[1] - dm[1].lo
        BY <3>2, <3>4 DEF Array!Offset
      <4>2. dm[2].d = 0
        BY <2>2, <3>1, <3>4, RankIs
      <4>3. PICK l \in Int, h \in Int, y \in Int : l = dm[1].lo /\ h = dm[1].hi /\ y = i[1] /\ Len(t) = h - l + 1
        <5>1. Len(t) = dm[1].d /\ dm[1].d = dm[1].hi - dm[1].lo + 1
          BY <2>2, <4>2, SizeOfOne DEF Shaped
        <5>2. 1 \in 1..4
          OBVIOUS
        <5>3. dm[1].lo \in Int /\ dm[1].hi \in Int
          BY <2>2, <5>2, ShapedTypes
        <5>4. i[1] \in Int
          <6>1. i \in [1..1 -> Int]
            BY <2>4, <3>1, <3>4
          <6>2. 1 \in 1..1
            OBVIOUS
          <6>. QED  BY <6>1, <6>2
        <5>5. Len(t) = dm[1].hi - dm[1].lo + 1
          BY <5>1
        <5>. QED  BY <5>3, <5>4, <5>5
      <4>4. l <= y /\ y <= h
        <5>1. p = y - l + 1 /\ p \in 1..(h - l + 1)
          BY <2>13, <4>1, <4>3
        <5>. QED  BY ONLY <5>1, l \in Int, h \in Int, y \in Int
      <4>. QED  BY <3>2, <3>4, <4>3, <4>4 DEF Array!Within
    <3>. QED  BY <3>3, <3>4
  <2>6. i \in Array!Indexes(dm)
    BY <2>4, <2>5 DEF Array!Indexes
  <2>7. ASSUME NEW j \in Array!Indexes(dm)
        PROVE  s[Array!Offset(dm, j) + 1] = IF j = i THEN x ELSE ElementsOf(dm, t)[j]
    <3>1. ElementsOf(dm, t)[j] = t[Array!Offset(dm, j) + 1]
      BY DEF ElementsOf
    <3>2. PICK q \in 1..Len(t) : q = Array!Offset(dm, j) + 1
      BY <2>2, IndexFits
    <3>3. DOMAIN t = 1..Len(t)
      BY <2>2
    <3>4. s[q] = IF q = p THEN x ELSE t[q]
      BY <2>3, <3>3
    <3>5. q = p <=> j = i
      <4>1. j \in [1..Array!Rank(dm) -> Int] /\ Array!Within(dm, j)
        BY <2>2, IndexFits
      <4>2. Array!Offset(dm, j) \in Nat /\ Array!Offset(dm, i) \in Nat
        BY <2>2, <2>4, <2>5, <4>1, PlaceFits
      <4>3. q = p => Array!Offset(dm, j) = Array!Offset(dm, i)
        BY <2>3, <3>2, <4>2
      <4>4. Array!Offset(dm, j) = Array!Offset(dm, i) => j = i
        BY <2>2, <2>4, <2>5, <4>1, PlacesDistinct
      <4>5. j = i => q = p
        BY <2>3, <3>2
      <4>. QED  BY <4>3, <4>4, <4>5
    <3>. QED  BY <3>1, <3>2, <3>4, <3>5
  <2>8. ElementsOf(dm, s) = [ElementsOf(dm, t) EXCEPT ![i] = x]
    <3>1. ElementsOf(dm, s) = [j \in Array!Indexes(dm) |-> s[Array!Offset(dm, j) + 1]]
      BY DEF ElementsOf
    <3>2. DOMAIN ElementsOf(dm, t) = Array!Indexes(dm)
      BY DEF ElementsOf
    <3>3. [ElementsOf(dm, t) EXCEPT ![i] = x]
            = [j \in Array!Indexes(dm) |-> IF j = i THEN x ELSE ElementsOf(dm, t)[j]]
      BY <3>2
    <3>. QED  BY <2>7, <3>1, <3>3, Zenon
  <2>9. dim' = [dim EXCEPT ![v] = dm]
    BY <1>1, <2>1 DEF ArraysInv
  <2>10. Elements' = [Elements EXCEPT ![v] = ElementsOf(dm, s)]
    <3>1. Becomes(v, dm, s)
      BY <2>3, <2>9 DEF Becomes
    <3>. QED  BY <3>1, TableChange
  <2>11. Elements[v] = ElementsOf(dm, t) /\ DOMAIN Elements[v] = Array!Indexes(dm)
    BY <2>1, TableOf
  <2>12. Elements' = [Elements EXCEPT ![v][i] = x]
    BY <2>8, <2>10, <2>11, Zenon
  <2>. QED  BY <1>2, <2>6, <2>11, <2>12, TablePut
<1>. QED  BY <1>3, <1>4, PutIs


\* What << and >> leave of an array: its first dimension has another length.
LEMMA GrowIs ==
  ASSUME Array!ArrayAssumption, ArraysInv, NEW v \in Arr, NEW s \in Seq(Elem), Array!OneDimension(v),
         Array!Set(v, Array!Grow(dim[v], Len(s) - Len(data[v])), s)
  PROVE  \E e : /\ SameInner(e, dim[v]) /\ Array!Rank(dim[v]) = 1 /\ dim[v][2].d = 0
                /\ e[1].lo = dim[v][1].lo /\ e[1].hi \in Index
                /\ Array!Size(e) = Len(s) /\ dim[v][1].d = Len(data[v])
                /\ e[1].hi = dim[v][1].hi + (Len(s) - Len(data[v]))
                /\ dim' = [dim EXCEPT ![v] = e] /\ data' = [data EXCEPT ![v] = s]
<1>1. PICK n \in Int : n = Len(s) - Len(data[v])
  <2>1. PICK p \in Nat, q \in Nat : p = Len(s) /\ q = Len(data[v])
    BY ArraysTyped
  <2>2. p - q \in Int
    OBVIOUS
  <2>. QED  BY <2>1, <2>2
<1>2. PICK e : e = Array!Grow(dim[v], n)
  OBVIOUS
<1>3. dim[v][2].d = 0 /\ e[1].hi \in Index /\ dim' = [dim EXCEPT ![v] = e] /\ data' = [data EXCEPT ![v] = s]
  BY <1>1, <1>2 DEF Array!OneDimension, Array!Set
<1>4. Shaped(dim[v]) /\ Len(data[v]) = Array!Size(dim[v]) /\ Array!Size(dim[v]) = dim[v][1].d
  BY <1>3, ArraysTyped, SizeOfOne
<1>5. dim[v][1].d + n = Len(s) /\ Len(s) \in Nat
  <2>1. Len(data[v]) \in Nat /\ Len(s) \in Nat
    BY ArraysTyped
  <2>. QED  BY <1>1, <1>4, <2>1
<1>6. /\ SameInner(e, dim[v]) /\ Array!Rank(dim[v]) = 1 /\ Array!Size(e) = Array!Size(dim[v]) + n
      /\ e[1].lo = dim[v][1].lo /\ e[1].hi = dim[v][1].hi + n
  BY <1>2, <1>3, <1>4, <1>5, GrowShaped
<1>7. Array!Size(e) = Len(s)
  BY <1>4, <1>5, <1>6
<1>. QED  BY <1>1, <1>3, <1>4, <1>6, <1>7

\* The index tuple of the element at position p.
Single(dm, p) == [k \in 1..1 |-> dm[1].lo + p - 1]

LEMMA SingleIs ==
  ASSUME Array!ArrayAssumption, NEW dm, Shaped(dm), Array!Rank(dm) = 1
  PROVE  /\ \A p \in 1..Array!Size(dm) : /\ Single(dm, p) \in Array!Indexes(dm)
                                         /\ Array!Offset(dm, Single(dm, p)) + 1 = p
                                         /\ Single(dm, p)[1] = dm[1].lo + p - 1
         /\ \A i \in Array!Indexes(dm) :
                /\ Array!Offset(dm, i) + 1 \in 1..Array!Size(dm)
                /\ i = Single(dm, Array!Offset(dm, i) + 1)
<1>1. dm[2].d = 0 /\ 1 \in 1..1
  BY RankIs
<1>2. PICK l \in Index, h \in Index, z \in Nat : l = dm[1].lo /\ h = dm[1].hi /\ z = Array!Size(dm) /\ z = h - l + 1
  <2>1. Array!Size(dm) = dm[1].d /\ dm[1].d \in Nat
    BY <1>1, SizeOfOne
  <2>2. dm[1].lo \in Index /\ dm[1].hi \in Index /\ dm[1].d = dm[1].hi - dm[1].lo + 1
    BY DEF Shaped
  <2>. QED  BY <2>1, <2>2
<1>3. l \in Int /\ h \in Int
  BY IndexesAreIntegers
<1>4. ASSUME NEW p \in 1..z
      PROVE  /\ Single(dm, p) \in Array!Indexes(dm) /\ Array!Offset(dm, Single(dm, p)) + 1 = p
             /\ Single(dm, p)[1] = l + p - 1
  <2>1. PICK i : i = Single(dm, p)
    OBVIOUS
  <2>2. i = [k \in 1..1 |-> l + p - 1]
    BY <1>2, <2>1 DEF Single
  <2>3. l + p - 1 \in Int /\ l <= l + p - 1 /\ l + p - 1 <= h
    BY <1>2, <1>3
  <2>4. l + p - 1 \in Index
    BY <2>3, IndexesAreIntegers
  <2>5. i \in [1..1 -> Index] /\ i \in [1..1 -> Int] /\ i[1] = l + p - 1 /\ DOMAIN i = 1..1
    BY <2>2, <2>3, <2>4
  <2>6. Array!Within(dm, i)
    BY <1>2, <2>3, <2>5 DEF Array!Within
  <2>7. Array!Offset(dm, i) = i[1] - dm[1].lo
    <3>1. Len(i) = 1
      BY <2>5
    <3>. QED  BY <3>1 DEF Array!Offset
  <2>8. Array!Offset(dm, i) + 1 = p
    <3>1. Array!Offset(dm, i) = (l + p - 1) - l
      BY <1>2, <2>5, <2>7
    <3>2. ((l + p - 1) - l) + 1 = p
      BY <1>3
    <3>. QED  BY <3>1, <3>2
  <2>9. i \in Array!Indexes(dm)
    BY <2>5, <2>6 DEF Array!Indexes
  <2>. QED  BY <2>1, <2>5, <2>8, <2>9
<1>5. ASSUME NEW i \in Array!Indexes(dm)
      PROVE  Array!Offset(dm, i) + 1 \in 1..z /\ i = Single(dm, Array!Offset(dm, i) + 1)
  <2>1. i \in [1..1 -> Int] /\ Array!Offset(dm, i) + 1 \in 1..z
    BY <1>2, IndexFits
  <2>2. PICK y \in Int : y = i[1]
    BY <1>1, <2>1
  <2>3. Array!Offset(dm, i) = i[1] - dm[1].lo
    <3>1. Len(i) = 1
      BY <2>1
    <3>. QED  BY <3>1 DEF Array!Offset
  <2>4. l + (Array!Offset(dm, i) + 1) - 1 = y
    <3>1. Array!Offset(dm, i) = y - l
      BY <1>2, <2>2, <2>3
    <3>2. l + ((y - l) + 1) - 1 = y
      BY <1>3
    <3>. QED  BY <3>1, <3>2
  <2>5. i = [k \in 1..1 |-> y]
    <3>1. \A k \in 1..1 : k = 1
      OBVIOUS
    <3>2. i = [k \in 1..1 |-> i[k]]
      BY <2>1
    <3>. QED  BY <2>2, <3>1, <3>2
  <2>6. Single(dm, Array!Offset(dm, i) + 1) = [k \in 1..1 |-> y]
    BY <1>2, <2>4 DEF Single
  <2>. QED  BY <2>1, <2>5, <2>6
<1>. QED  BY <1>2, <1>4, <1>5


LEMMA ExtendRefines ==
  ASSUME Array!ArrayAssumption, ArraysInv, NEW v \in Arr, NEW items \in Seq(Elem), Array!AppendItems(v, items)
  PROVE  Array!Table!Extend(v) \/ (Bounds' = Bounds /\ Elements' = Elements)
<1>1. PICK dm, t : dm = dim[v] /\ t = data[v]
  OBVIOUS
<1>2. PICK s \in Seq(Elem) :
        /\ s = t \o items /\ Array!OneDimension(v) /\ Len(s) - Len(t) = Len(items)
        /\ Array!Set(v, Array!Grow(dm, Len(s) - Len(t)), s)
  BY <1>1, AppendItemsIs
<1>3. PICK e : /\ SameInner(e, dm) /\ Array!Rank(dm) = 1 /\ dm[2].d = 0
               /\ e[1].lo = dm[1].lo /\ e[1].hi \in Index
               /\ Array!Size(e) = Len(s) /\ dm[1].d = Len(t)
               /\ e[1].hi = dm[1].hi + (Len(s) - Len(t))
               /\ dim' = [dim EXCEPT ![v] = e] /\ data' = [data EXCEPT ![v] = s]
  BY <1>1, <1>2, GrowIs
<1>4. Shaped(dm) /\ t \in Seq(Elem) /\ Len(t) = Array!Size(dm)
  BY <1>1, ArraysTyped
<1>5. Shaped(e) /\ Array!Rank(e) = 1
  BY <1>3 DEF SameInner
<1>6. PICK h \in Index, n \in Nat : h = e[1].hi /\ n = Len(items) /\ h = dm[1].hi + n
  BY <1>2, <1>3
<1>7. \A p \in 1..Len(t) : s[p] = t[p] /\ p \in 1..Len(s)
  <2>1. t \in Seq(Elem) /\ items \in Seq(Elem)
    BY <1>4
  <2>2. \A p \in 1..Len(t) : (t \o items)[p] = t[p] /\ p \in 1..Len(t \o items)
    BY ONLY <2>1
  <2>. QED  BY <1>2, <2>2
<1>8. BoundsOf(e) = [BoundsOf(dm) EXCEPT ![1].hi = h]
  <2>1. SameInner(e, dm) /\ e[1].lo = dm[1].lo /\ h = e[1].hi
    BY <1>3, <1>6
  <2>. QED  BY <1>4, <2>1, UpperMoved
<1>9. \A i \in Array!Indexes(dm) : /\ i \in Array!Indexes(e) /\ ElementsOf(e, s)[i] = ElementsOf(dm, t)[i]
  <2>. SUFFICES ASSUME NEW i \in Array!Indexes(dm)
                PROVE  i \in Array!Indexes(e) /\ ElementsOf(e, s)[i] = ElementsOf(dm, t)[i]
    OBVIOUS
  <2>1. PICK p \in 1..Len(t) : p = Array!Offset(dm, i) + 1 /\ i = Single(dm, p)
    BY <1>3, <1>4, SingleIs
  <2>2. p \in 1..Array!Size(e) /\ s[p] = t[p]
    BY <1>3, <1>7
  <2>3. Single(e, p) = Single(dm, p)
    BY <1>3 DEF Single
  <2>4. i \in Array!Indexes(e) /\ Array!Offset(e, i) + 1 = p
    BY <1>5, <2>1, <2>2, <2>3, SingleIs
  <2>. QED  BY <2>1, <2>2, <2>4 DEF ElementsOf
<1>10. ElementsOf(e, s) \in [Array!Indexes(e) -> Elem]
  <2>1. \A i \in Array!Indexes(e) : Array!Offset(e, i) + 1 \in 1..Len(s)
    BY <1>3, <1>5, IndexFits
  <2>2. \A p \in 1..Len(s) : s[p] \in Elem
    OBVIOUS
  <2>. QED  BY <2>1, <2>2 DEF ElementsOf
<1>11. /\ Bounds' = [Bounds EXCEPT ![v] = BoundsOf(e)] /\ Bounds'[v] = BoundsOf(e)
       /\ Elements' = [Elements EXCEPT ![v] = ElementsOf(e, s)] /\ Elements'[v] = ElementsOf(e, s)
  <2>1. Becomes(v, e, s)
    BY <1>3 DEF Becomes
  <2>. QED  BY <2>1, TableChange
<1>12. Bounds[v] = BoundsOf(dm) /\ Elements[v] = ElementsOf(dm, t) /\ DOMAIN Elements[v] = Array!Indexes(dm)
  BY <1>1, TableOf
<1>13. BoundsOf(dm) = [k \in 1..1 |-> [lo |-> dm[k].lo, hi |-> dm[k].hi]]
  BY <1>3 DEF BoundsOf
<1>14. Len(BoundsOf(dm)) = 1 /\ BoundsOf(dm)[1].hi = dm[1].hi
  BY <1>13
<1>15. CASE n = 0
  <2>1. h = dm[1].hi
    <3>1. dm[1].hi \in Index
      BY <1>4 DEF Shaped
    <3>2. PICK g \in Int : g = dm[1].hi
      BY <3>1, IndexesAreIntegers
    <3>. QED  BY <1>6, <1>15, <3>2
  <2>2. BoundsOf(e) = BoundsOf(dm)
    <3>1. BoundsOf(e) = [k \in 1..1 |-> [lo |-> e[k].lo, hi |-> e[k].hi]]
      BY <1>5 DEF BoundsOf
    <3>2. \A k \in 1..1 : k = 1
      OBVIOUS
    <3>3. \A k \in 1..1 : e[k].lo = dm[k].lo /\ e[k].hi = dm[k].hi
      BY <1>3, <1>6, <2>1, <3>2
    <3>. QED  BY <1>13, <3>1, <3>3
  <2>3. Array!Indexes(e) = Array!Indexes(dm)
    BY <2>2, IndexesAre
  <2>4. ElementsOf(e, s) = ElementsOf(dm, t)
    <3>1. ElementsOf(e, s) = [i \in Array!Indexes(dm) |-> ElementsOf(e, s)[i]]
      BY <2>3 DEF ElementsOf
    <3>2. ElementsOf(dm, t) = [i \in Array!Indexes(dm) |-> ElementsOf(dm, t)[i]]
      BY DEF ElementsOf
    <3>. QED  BY <1>9, <3>1, <3>2, Zenon
  <2>6. Bounds' = Bounds
    <3>1. [Bounds EXCEPT ![v] = Bounds[v]] = Bounds
      BY DEF Bounds
    <3>. QED  BY <1>11, <1>12, <2>2, <3>1, Zenon
  <2>7. Elements' = Elements
    <3>1. [Elements EXCEPT ![v] = Elements[v]] = Elements
      BY DEF Elements
    <3>. QED  BY <1>11, <1>12, <2>4, <3>1, Zenon
  <2>. QED  BY <2>6, <2>7
<1>16. CASE n # 0
  <2>1. h > Bounds[v][1].hi
    <3>1. dm[1].hi \in Index
      BY <1>4 DEF Shaped
    <3>2. PICK g \in Int : g = dm[1].hi
      BY <3>1, IndexesAreIntegers
    <3>3. h = g + n /\ Bounds[v][1].hi = g
      BY <1>6, <1>12, <1>14, <3>2
    <3>4. g + n > g
      BY <1>16
    <3>. QED  BY <3>3, <3>4
  <2>2. Bounds' = [Bounds EXCEPT ![v][1].hi = h]
    <3>1. [Bounds EXCEPT ![v][1].hi = h] = [Bounds EXCEPT ![v] = [Bounds[v] EXCEPT ![1].hi = h]]
      BY Zenon
    <3>. QED  BY <1>8, <1>11, <1>12, <3>1, Zenon
  <2>3. Elements'[v] \in [Array!Table!Indexes(Bounds'[v]) -> Elem]
    BY <1>10, <1>11, IndexesAre
  <2>4. \A i \in DOMAIN Elements[v] : Elements'[v][i] = Elements[v][i]
    BY <1>9, <1>11, <1>12
  <2>5. Elements' = [Elements EXCEPT ![v] = Elements'[v]]
    BY <1>11, Zenon
  <2>6. Len(Bounds[v]) = 1
    BY <1>12, <1>14
  <2>. QED  BY <2>1, <2>2, <2>3, <2>4, <2>5, <2>6, TableExtend
<1>. QED  BY <1>15, <1>16

LEMMA CardinalityIs == \A S : Array!Table!Cardinality(S) = Cardinality(S)
  BY Zenon DEF Array!Table!Cardinality, Cardinality

\* The index tuples that are kept, in order.
Before(keep, i) == {k \in keep : k[1] < i[1]}
Chosen(keep, n) == CHOOSE i \in keep : Array!Table!Cardinality(Before(keep, i)) = n

\* The index tuples of increasing positions.
Increasing(f, m, N) == f \in [1..m -> 1..N] /\ \A j, k \in 1..m : j < k => f[j] < f[k]

LEMMA IncreasingDistinct ==
  ASSUME NEW m \in Nat, NEW N \in Nat, NEW f, Increasing(f, m, N), NEW j \in 1..m, NEW k \in 1..m
  PROVE  (f[j] = f[k] => j = k) /\ (f[j] < f[k] => j < k)
<1>1. f[j] \in Int /\ f[k] \in Int /\ j \in Int /\ k \in Int
  BY DEF Increasing
<1>2. j < k => f[j] < f[k]
  BY DEF Increasing
<1>3. k < j => f[k] < f[j]
  BY DEF Increasing
<1>4. j < k \/ k < j \/ j = k
  BY <1>1
<1>. QED  BY <1>1, <1>2, <1>3, <1>4

Places(dm, f, m) == {Single(dm, f[j]) : j \in 1..m}

LEMMA KeptPlaces ==
  ASSUME Array!ArrayAssumption, NEW dm, Shaped(dm), Array!Rank(dm) = 1, NEW m \in Nat, NEW f,
         Increasing(f, m, Array!Size(dm))
  PROVE  /\ Cardinality(Array!Indexes(dm) \ Places(dm, f, m)) = Array!Size(dm) - m
         /\ \A j \in 1..m : Chosen(Places(dm, f, m), j - 1) = Single(dm, f[j])
<1>0. PICK keep : keep = Places(dm, f, m)
  OBVIOUS
<1>1. PICK N \in Nat, l \in Int : N = Array!Size(dm) /\ l = dm[1].lo
  <2>1. 1 \in 1..4
    OBVIOUS
  <2>2. dm[1].lo \in Int
    BY <2>1, ShapedTypes
  <2>. QED  BY <2>2, SizeNatural
<1>2. PICK h : h = [j \in 1..m |-> Single(dm, f[j])]
  OBVIOUS
<1>3. \A j \in 1..m : f[j] \in 1..N
  BY <1>1 DEF Increasing
<1>4. \A j \in 1..m : /\ h[j] = Single(dm, f[j]) /\ h[j] \in keep
                      /\ h[j] \in Array!Indexes(dm) /\ h[j][1] = l + f[j] - 1
  <2>1. \A j \in 1..m : h[j] = Single(dm, f[j]) /\ h[j] \in keep
    BY <1>2, <1>0 DEF Places
  <2>. QED  BY <1>1, <1>3, <2>1, SingleIs
<1>5. \A i \in keep : \E j \in 1..m : h[j] = i
  BY <1>4, <1>0 DEF Places
<1>6. \A j, k \in 1..m : (h[j] = h[k] => j = k) /\ (h[j][1] < h[k][1] <=> j < k)
  <2>. SUFFICES ASSUME NEW j \in 1..m, NEW k \in 1..m
                PROVE  (h[j] = h[k] => j = k) /\ (h[j][1] < h[k][1] <=> j < k)
    OBVIOUS
  <2>1. PICK x \in Int, y \in Int : x = f[j] /\ y = f[k]
    BY <1>3
  <2>2. h[j][1] = l + x - 1 /\ h[k][1] = l + y - 1
    BY <1>4, <2>1
  <2>3. (x = y => j = k) /\ (x < y => j < k)
    BY <1>1, <2>1, IncreasingDistinct
  <2>4. j < k => x < y
    BY <2>1 DEF Increasing
  <2>5. l + x - 1 < l + y - 1 <=> x < y
    OBVIOUS
  <2>6. l + x - 1 = l + y - 1 => x = y
    OBVIOUS
  <2>. QED  BY <2>2, <2>3, <2>4, <2>5, <2>6
<1>7. ASSUME NEW n \in Nat PROVE IsFiniteSet(1..n) /\ Cardinality(1..n) = n
  <2>1. 1 \in Int /\ n \in Int
    OBVIOUS
  <2>2. IsFiniteSet(1..n) /\ Cardinality(1..n) = IF 1 > n THEN 0 ELSE n - 1 + 1
    BY <2>1, FS_Interval
  <2>. QED  BY <2>2
<1>8. IsFiniteSet(keep) /\ Cardinality(keep) = m
  <2>1. h \in [1..m -> keep]
    BY <1>2, <1>4
  <2>2. IsFiniteSet(1..m) /\ Cardinality(1..m) = m
    BY <1>7
  <2>3. \A a, b \in 1..m : h[a] = h[b] => a = b
    BY <1>6
  <2>4. \A c \in keep : \E a \in 1..m : h[a] = c
    BY <1>5
  <2>5. IsFiniteSet(keep) /\ Cardinality(keep) = Cardinality(1..m)
    BY ONLY <2>1, <2>2, <2>3, <2>4, SameSize
  <2>. QED  BY <2>2, <2>5
<1>9. IsFiniteSet(Array!Indexes(dm)) /\ Cardinality(Array!Indexes(dm)) = N
  <2>1. PICK g : g = [p \in 1..N |-> Single(dm, p)]
    OBVIOUS
  <2>2. \A p \in 1..N : g[p] = Single(dm, p) /\ g[p] \in Array!Indexes(dm) /\ Array!Offset(dm, g[p]) + 1 = p
    BY <1>1, <2>1, SingleIs
  <2>3. g \in [1..N -> Array!Indexes(dm)]
    BY <2>1, <2>2
  <2>4. \A p, q \in 1..N : g[p] = g[q] => p = q
    BY <2>2
  <2>5. \A i \in Array!Indexes(dm) : \E p \in 1..N : g[p] = i
    BY <1>1, <2>2, SingleIs
  <2>6. IsFiniteSet(1..N) /\ Cardinality(1..N) = N
    BY <1>7
  <2>. QED  BY <2>3, <2>4, <2>5, <2>6, SameSize
<1>10. Cardinality(Array!Indexes(dm) \ keep) = N - m
  <2>1. keep \subseteq Array!Indexes(dm)
    BY <1>4, <1>5
  <2>2. Array!Indexes(dm) \cap keep = keep
    BY <2>1
  <2>3. Cardinality(Array!Indexes(dm) \ keep) = Cardinality(Array!Indexes(dm)) - Cardinality(Array!Indexes(dm) \cap keep)
    BY <1>9, FS_Difference
  <2>. QED  BY <1>8, <1>9, <2>2, <2>3
<1>11. ASSUME NEW j \in 1..m PROVE Array!Table!Cardinality(Before(keep, h[j])) = j - 1
  <2>1. j - 1 \in Nat /\ \A k \in 1..(j - 1) : k \in 1..m /\ k < j
    OBVIOUS
  <2>2. PICK g : g = [k \in 1..(j - 1) |-> h[k]]
    OBVIOUS
  <2>3. g \in [1..(j - 1) -> Before(keep, h[j])]
    BY <1>4, <1>6, <2>1, <2>2 DEF Before
  <2>4. \A a, b \in 1..(j - 1) : g[a] = g[b] => a = b
    BY <1>6, <2>1, <2>2
  <2>5. ASSUME NEW i \in Before(keep, h[j]) PROVE \E a \in 1..(j - 1) : g[a] = i
    <3>1. i \in keep /\ i[1] < h[j][1]
      BY DEF Before
    <3>2. PICK a \in 1..m : h[a] = i
      BY <1>5, <3>1
    <3>3. a < j
      BY <1>6, <3>1, <3>2
    <3>4. a \in 1..(j - 1)
      BY <3>3
    <3>. QED  BY <2>2, <3>2, <3>4
  <2>6. IsFiniteSet(1..(j - 1)) /\ Cardinality(1..(j - 1)) = j - 1
    BY <1>7, <2>1
  <2>7. Cardinality(Before(keep, h[j])) = Cardinality(1..(j - 1))
    BY <2>3, <2>4, <2>5, <2>6, SameSize
  <2>. QED  BY <2>6, <2>7, CardinalityIs
<1>12. ASSUME NEW j \in 1..m PROVE Chosen(keep, j - 1) = h[j]
  <2>1. h[j] \in keep /\ Array!Table!Cardinality(Before(keep, h[j])) = j - 1
    BY <1>4, <1>11
  <2>2. PICK i : i = Chosen(keep, j - 1)
    OBVIOUS
  <2>3. i \in keep /\ Array!Table!Cardinality(Before(keep, i)) = j - 1
    BY <2>1, <2>2, Zenon DEF Chosen
  <2>4. PICK a \in 1..m : h[a] = i
    BY <1>5, <2>3
  <2>5. a - 1 = j - 1
    BY <1>11, <2>3, <2>4
  <2>6. a = j
    BY <2>5
  <2>. QED  BY <2>2, <2>4, <2>6
<1>. QED  BY <1>1, <1>4, <1>10, <1>12, <1>0

\* The bounds and the elements that Delete leaves.
Keep(at, gone) == {i \in DOMAIN at : at[i] \notin gone}
Cut(bs, at, gone) == [bs EXCEPT ![1].hi = @ - Array!Table!Cardinality(DOMAIN at \ Keep(at, gone))]
Moved(bs, at, gone) ==
    [j \in Array!Table!Indexes(Cut(bs, at, gone)) |->
        at[Chosen(Keep(at, gone), j[1] - Cut(bs, at, gone)[1].lo)]]

LEMMA TableDeleteIs ==
  ASSUME NEW v, NEW gone \in SUBSET Elem, Len(Bounds[v]) = 1,
         Bounds' = [Bounds EXCEPT ![v] = Cut(Bounds[v], Elements[v], gone)],
         Elements' = [Elements EXCEPT ![v] = Moved(Bounds[v], Elements[v], gone)]
  PROVE  Array!Table!Delete(v)
  BY TableDelete, Zenon DEF Moved, Cut, Chosen, Before, Keep

\* Taking elements out of the vector takes them out of the table.
LEMMA ThinningRefines ==
  ASSUME Array!ArrayAssumption, ArraysInv, NEW v \in Arr, NEW u \in Seq(Elem), NEW G,
         Thinned(u, data[v], G), Array!OneDimension(v),
         Array!Set(v, Array!Grow(dim[v], Len(u) - Len(data[v])), u)
  PROVE  Array!Table!Delete(v)
<1>1. PICK dm, t : dm = dim[v] /\ t = data[v]
  OBVIOUS
<1>2. PICK e : /\ SameInner(e, dm) /\ Array!Rank(dm) = 1 /\ dm[2].d = 0
               /\ e[1].lo = dm[1].lo /\ e[1].hi \in Index
               /\ Array!Size(e) = Len(u) /\ dm[1].d = Len(t)
               /\ e[1].hi = dm[1].hi + (Len(u) - Len(t))
               /\ dim' = [dim EXCEPT ![v] = e] /\ data' = [data EXCEPT ![v] = u]
  BY <1>1, GrowIs
<1>3. Shaped(dm) /\ t \in Seq(Elem) /\ Len(t) = Array!Size(dm) /\ DOMAIN t = 1..Array!Size(dm)
  BY <1>1, ArraysTyped
<1>4. Shaped(e) /\ Array!Rank(e) = 1
  BY <1>2 DEF SameInner
<1>5. PICK N \in Nat, m \in Nat, l \in Int : N = Len(t) /\ N = Array!Size(dm) /\ m = Len(u) /\ m = Array!Size(e)
                                         /\ l = dm[1].lo /\ l = e[1].lo
  <2>1. 1 \in 1..4
    OBVIOUS
  <2>2. dm[1].lo \in Int
    BY <1>3, <2>1, ShapedTypes
  <2>. QED  BY <1>2, <1>3, <2>2
<1>6. PICK f : /\ Increasing(f, m, N)
               /\ \A j \in 1..m : u[j] = t[f[j]] /\ t[f[j]] \notin G
               /\ \A p \in 1..N : t[p] \in G \/ \E j \in 1..m : f[j] = p
  <2>1. Thinned(u, t, G)
    BY <1>1
  <2>2. PICK f \in [1..Len(u) -> DOMAIN t] :
          /\ \A j \in 1..Len(u) : u[j] = t[f[j]] /\ t[f[j]] \notin G
          /\ \A j, k \in 1..Len(u) : j < k => f[j] < f[k]
          /\ \A p \in DOMAIN t : t[p] \in G \/ \E j \in 1..Len(u) : f[j] = p
    BY <2>1, Zenon DEF Thinned
  <2>3. DOMAIN t = 1..N /\ Len(u) = m
    BY <1>3, <1>5
  <2>. QED  BY <2>2, <2>3 DEF Increasing
<1>7. PICK E, bs : E = ElementsOf(dm, t) /\ bs = BoundsOf(dm)
  OBVIOUS
<1>8. DOMAIN E = Array!Indexes(dm)
      /\ \A p \in 1..N : Single(dm, p) \in DOMAIN E /\ E[Single(dm, p)] = t[p]
  BY <1>2, <1>3, <1>5, <1>7, SingleIs DEF ElementsOf
<1>9. PICK gone \in SUBSET Elem : gone = G \cap Elem
  OBVIOUS
<1>10. PICK keep : keep = Keep(E, gone)
  OBVIOUS
<1>11. \A p \in 1..N : t[p] \in Elem
  BY <1>3, <1>5
<1>12. \A j \in 1..m : f[j] \in 1..N
  BY <1>6 DEF Increasing
<1>13. keep = Places(dm, f, m)
  <2>1. ASSUME NEW i \in keep PROVE \E j \in 1..m : i = Single(dm, f[j])
    <3>1. i \in Array!Indexes(dm) /\ E[i] \notin gone
      BY <1>8, <1>10 DEF Keep
    <3>2. PICK p \in 1..N : i = Single(dm, p)
      BY <1>2, <1>3, <1>5, <3>1, SingleIs
    <3>3. t[p] \notin G
      BY <1>8, <1>9, <1>11, <3>1, <3>2
    <3>. QED  BY <1>6, <3>2, <3>3
  <2>2. ASSUME NEW j \in 1..m PROVE Single(dm, f[j]) \in keep
    <3>1. f[j] \in 1..N /\ t[f[j]] \notin G
      BY <1>6, <1>12
    <3>2. Single(dm, f[j]) \in DOMAIN E /\ E[Single(dm, f[j])] = t[f[j]]
      BY <1>8, <3>1
    <3>3. E[Single(dm, f[j])] \notin gone
      BY <1>9, <3>1, <3>2
    <3>. QED  BY <1>10, <3>2, <3>3 DEF Keep
  <2>. QED  BY <2>1, <2>2 DEF Places
<1>14. /\ Cardinality(Array!Indexes(dm) \ keep) = N - m
       /\ \A j \in 1..m : Chosen(keep, j - 1) = Single(dm, f[j])
  <2>1. Increasing(f, m, Array!Size(dm))
    BY <1>5, <1>6
  <2>2. Shaped(dm) /\ Array!Rank(dm) = 1
    BY <1>2, <1>3
  <2>3. Cardinality(Array!Indexes(dm) \ Places(dm, f, m)) = Array!Size(dm) - m
    BY <2>1, <2>2, KeptPlaces
  <2>4. \A j \in 1..m : Chosen(Places(dm, f, m), j - 1) = Single(dm, f[j])
    BY <2>1, <2>2, KeptPlaces
  <2>. QED  BY <1>5, <1>13, <2>3, <2>4
<1>15. PICK b : b = Cut(bs, E, gone)
  OBVIOUS
<1>16. b = BoundsOf(e)
  <2>1. PICK h \in Int, g \in Int : h = e[1].hi /\ g = dm[1].hi
    <3>1. 1 \in 1..4
      OBVIOUS
    <3>2. e[1].hi \in Int /\ dm[1].hi \in Int
      BY <1>3, <1>4, <3>1, ShapedTypes
    <3>. QED  BY <3>2
  <2>2. Array!Table!Cardinality(DOMAIN E \ Keep(E, gone)) = N - m
    BY <1>8, <1>10, <1>14, CardinalityIs
  <2>3. h = g - (N - m)
    <3>1. h = g + (m - N)
      BY <1>2, <1>5, <2>1
    <3>. QED  BY <3>1
  <2>4. bs[1].hi = g
    <3>1. 1 \in 1..Array!Rank(dm)
      BY <1>2
    <3>2. bs[1] = [lo |-> dm[1].lo, hi |-> dm[1].hi]
      BY <1>7, <3>1, BoundsAre
    <3>. QED  BY <2>1, <3>2
  <2>5. Cut(bs, E, gone) = [bs EXCEPT ![1].hi = bs[1].hi - Array!Table!Cardinality(DOMAIN E \ Keep(E, gone))]
    BY Zenon DEF Cut
  <2>6. b = [bs EXCEPT ![1].hi = h]
    BY <1>15, <2>2, <2>3, <2>4, <2>5
  <2>7. BoundsOf(e) = [BoundsOf(dm) EXCEPT ![1].hi = h]
    <3>1. SameInner(e, dm) /\ e[1].lo = dm[1].lo
      BY <1>2
    <3>. QED  BY <1>3, <2>1, <3>1, UpperMoved
  <2>. QED  BY <1>7, <2>6, <2>7
<1>17. Moved(bs, E, gone) = ElementsOf(e, u)
  <2>1. b[1].lo = l
    <3>1. 1 \in 1..Array!Rank(e)
      BY <1>4
    <3>2. b[1] = [lo |-> e[1].lo, hi |-> e[1].hi]
      BY <1>16, <3>1, BoundsAre
    <3>. QED  BY <1>5, <3>2
  <2>2. ASSUME NEW j \in Array!Indexes(e) PROVE E[Chosen(keep, j[1] - l)] = u[Array!Offset(e, j) + 1]
    <3>1. PICK q \in 1..m : q = Array!Offset(e, j) + 1 /\ j = Single(e, q) /\ j[1] = l + q - 1
      BY <1>4, <1>5, SingleIs
    <3>2. j[1] - l = q - 1
      BY <3>1
    <3>3. Chosen(keep, j[1] - l) = Single(dm, f[q])
      BY <1>14, <3>2
    <3>4. f[q] \in 1..N /\ u[q] = t[f[q]]
      BY <1>6, <1>12
    <3>5. E[Single(dm, f[q])] = t[f[q]]
      BY <1>8, <3>4
    <3>6. u[Array!Offset(e, j) + 1] = u[q]
      BY <3>1
    <3>. QED  BY <3>3, <3>4, <3>5, <3>6
  <2>3. Moved(bs, E, gone) = [j \in Array!Table!Indexes(b) |-> E[Chosen(keep, j[1] - b[1].lo)]]
    BY <1>10, <1>15 DEF Moved
  <2>4. Array!Table!Indexes(b) = Array!Indexes(e)
    BY <1>16, IndexesAre
  <2>5. Moved(bs, E, gone) = [j \in Array!Indexes(e) |-> E[Chosen(keep, j[1] - l)]]
    BY <2>1, <2>3, <2>4
  <2>6. ElementsOf(e, u) = [j \in Array!Indexes(e) |-> u[Array!Offset(e, j) + 1]]
    BY DEF ElementsOf
  <2>. QED  BY <2>2, <2>5, <2>6, Zenon
<1>18. Bounds[v] = bs /\ Elements[v] = E
  BY <1>1, <1>7, TableOf
<1>19. /\ Bounds' = [Bounds EXCEPT ![v] = BoundsOf(e)]
       /\ Elements' = [Elements EXCEPT ![v] = ElementsOf(e, u)]
  <2>1. Becomes(v, e, u)
    BY <1>2 DEF Becomes
  <2>. QED  BY <2>1, TableChange
<1>20. Len(Bounds[v]) = 1
  <2>1. bs = [k \in 1..1 |-> [lo |-> dm[k].lo, hi |-> dm[k].hi]]
    BY <1>2, <1>7 DEF BoundsOf
  <2>. QED  BY <1>18, <2>1
<1>21. /\ Bounds' = [Bounds EXCEPT ![v] = Cut(Bounds[v], Elements[v], gone)]
       /\ Elements' = [Elements EXCEPT ![v] = Moved(Bounds[v], Elements[v], gone)]
  BY <1>15, <1>16, <1>17, <1>18, <1>19, Zenon
<1>. QED  BY <1>20, <1>21, TableDeleteIs

LEMMA CopyRefines ==
  ASSUME Array!ArrayAssumption, ArraysInv, NEW v \in Arr, NEW u \in Arr \ {v}, Array!Assign(v, u)
  PROVE  Array!Table!Copy(v)
<1>1. PICK e, s : e = dim[u] /\ s = data[u]
  OBVIOUS
<1>2. Becomes(v, e, s)
  BY <1>1 DEF Array!Assign, Array!Set, Becomes
<1>3. Bounds' = [Bounds EXCEPT ![v] = BoundsOf(e)] /\ Elements' = [Elements EXCEPT ![v] = ElementsOf(e, s)]
  BY <1>2, TableChange
<1>4. Bounds[u] = BoundsOf(e) /\ Elements[u] = ElementsOf(e, s)
  BY <1>1, TableOf
<1>. QED  BY <1>3, <1>4, TableCopy, Zenon

LEMMA TableStarts ==
  ASSUME Array!ArrayAssumption, Array!Init
  PROVE  Array!Table!Init
<1>1. PICK dm : dm = Array!Default
  OBVIOUS
<1>2. \A v \in Arr : dim[v] = dm /\ data[v] = <<Initial, Initial>>
  BY <1>1 DEF Array!Init
<1>3. Shaped(dm) /\ Array!Size(dm) = 2 /\ Array!Rank(dm) = 1 /\ dm[1].lo = 0 /\ dm[1].hi = 1
  BY <1>1, DefaultIs
<1>4. BoundsOf(dm) = <<[lo |-> 0, hi |-> 1]>>
  <2>1. \A k \in 1..1 : k = 1
    OBVIOUS
  <2>2. BoundsOf(dm) = [k \in 1..1 |-> [lo |-> dm[k].lo, hi |-> dm[k].hi]]
    BY <1>3 DEF BoundsOf
  <2>3. BoundsOf(dm) = [k \in 1..1 |-> [lo |-> 0, hi |-> 1]]
    BY <1>3, <2>1, <2>2
  <2>. QED  BY <2>3
<1>6. ElementsOf(dm, <<Initial, Initial>>) = Array!Table!Empty(BoundsOf(dm))
  <2>1. \A p \in 1..2 : <<Initial, Initial>>[p] = Initial
    OBVIOUS
  <2>2. \A i \in Array!Indexes(dm) : <<Initial, Initial>>[Array!Offset(dm, i) + 1] = Initial
    BY <1>3, <2>1, IndexFits
  <2>3. Array!Table!Empty(BoundsOf(dm)) = [i \in Array!Indexes(dm) |-> Initial]
    BY IndexesAre, Zenon DEF Array!Table!Empty
  <2>. QED  BY <2>2, <2>3 DEF ElementsOf
<1>7. Bounds = [v \in Arr |-> <<[lo |-> 0, hi |-> 1]>>]
  BY <1>2, <1>4 DEF Bounds
<1>8. Elements = [v \in Arr |-> Array!Table!Empty(<<[lo |-> 0, hi |-> 1]>>)]
  BY <1>2, <1>4, <1>6 DEF Elements
<1>. QED  BY <1>7, <1>8, TableInit

LEMMA OperationRefines ==
  ASSUME Array!ArrayAssumption, Careful, ArraysInv, NEW v \in Arr, prog.arrays \subseteq Arr, Array!Operation(v)
  PROVE  Array!Table!Next \/ (Bounds' = Bounds /\ Elements' = Elements)
<1>. DEFINE Same == Bounds' = Bounds /\ Elements' = Elements
            Does == \/ Array!Table!Redim(v) \/ Array!Table!Preserve(v) \/ Array!Table!Put(v)
                    \/ Array!Table!Extend(v) \/ Array!Table!Delete(v) \/ Array!Table!Copy(v)
<1>. SUFFICES Does \/ Same
  BY DEF Array!Table!Next
<1>1. ASSUME NEW x, NEW item, Fixed(item, data[v], x), Array!RemoveWith(v, item) PROVE Array!Table!Delete(v)
  <2>1. PICK s : s = Array!Scan(data[v], item)
    OBVIOUS
  <2>2. s \in Seq(Elem) /\ Thinned(s, data[v], {x})
    BY <1>1, <2>1, ArraysTyped, ScanTyped, ScanThins
  <2>3. Array!OneDimension(v) /\ Array!Set(v, Array!Grow(dim[v], Len(s) - Len(data[v])), s)
    BY <1>1, <2>1 DEF Array!RemoveWith
  <2>. QED  BY <2>2, <2>3, ThinningRefines
<1>2. ASSUME NEW u \in Arr, Array!RemoveItems(v, u) PROVE Array!Table!Delete(v)
  <2>1. PICK s, G : s = Remaining(data[v], data[u]) /\ G = {data[u][i] : i \in 1..Len(data[u])}
    OBVIOUS
  <2>2. s \in Seq(Elem) /\ Thinned(s, data[v], G)
    <3>1. data[v] \in Seq(Elem) /\ data[u] \in Seq(Elem)
      BY ArraysTyped
    <3>. QED  BY <2>1, <3>1, RemainingAre
  <2>3. Array!OneDimension(v) /\ Array!Set(v, Array!Grow(dim[v], Len(s) - Len(data[v])), s)
    BY <1>2, <2>1, RemoveItemsIs
  <2>. QED  BY <2>2, <2>3, ThinningRefines
<1>3. CASE \E b \in Array!Pairs : Array!Redim(v, b) \/ Array!RedimPreserve(v, b)
  BY <1>3, RedimRefines, PreserveRefines
<1>4. CASE \E i \in [1..Array!Rank(dim[v]) -> Index], x \in Elem : Array!Put(v, i, x)
  <2>1. Array!Table!Put(v) \/ Same
    BY <1>4, PutRefines
  <2>. QED  BY <2>1
<1>5. CASE \E x \in Elem : Array!AppendItems(v, <<x>>) \/ Array!RemoveValue(v, x)
  <2>1. PICK x \in Elem : Array!AppendItems(v, <<x>>) \/ Array!RemoveValue(v, x)
    BY <1>5
  <2>2. CASE Array!AppendItems(v, <<x>>)
    <3>1. <<x>> \in Seq(Elem)
      OBVIOUS
    <3>2. Array!Table!Extend(v) \/ Same
      BY <2>2, <3>1, ExtendRefines
    <3>. QED  BY <3>2
  <2>3. CASE Array!RemoveValue(v, x)
    <3>1. Array!Table!Delete(v)
      BY <1>1, <2>3, OutsideFixed DEF Array!RemoveValue
    <3>. QED  BY <3>1
  <2>. QED  BY <2>1, <2>2, <2>3
<1>6. CASE \E p \in DOMAIN data[v] : Array!RemoveElement(v, p)
  <2>1. Array!RemoveWith(v, Array!Own(data[v], 1))
    BY <1>6 DEF Array!RemoveElement
  <2>2. Array!Table!Delete(v)
    BY <1>1, <2>1, FirstFixed
  <2>. QED  BY <2>2
<1>7. CASE \E u \in prog.arrays \ {v} : \/ Array!AppendItems(v, data[u])
                                        \/ Array!RemoveItems(v, u)
                                        \/ Array!Assign(v, u)
  <2>1. PICK u \in Arr \ {v} : Array!AppendItems(v, data[u]) \/ Array!RemoveItems(v, u) \/ Array!Assign(v, u)
    BY <1>7
  <2>2. data[u] \in Seq(Elem)
    BY ArraysTyped
  <2>3. Array!AppendItems(v, data[u]) => Array!Table!Extend(v) \/ Same
    BY <2>2, ExtendRefines
  <2>. QED  BY <1>2, <2>1, <2>3, CopyRefines
<1>. QED  BY <1>3, <1>4, <1>5, <1>6, <1>7, Zenon DEF Array!Operation

\* For a careful program, every operation on an array does to the table from index
\* tuples to values what the abstract specification says: ReDim Preserve keeps what is
\* still within the bounds, << and >> move nothing but what they name, an assignment
\* copies (array, core.h).
THEOREM ArraysAreTables ==
  Array!ArrayAssumption /\ Careful => (Array!Spec => Array!RefinesTable)
<1>. SUFFICES ASSUME Array!ArrayAssumption, Careful PROVE Array!Spec => Array!RefinesTable
  OBVIOUS
<1>1. Array!Init => Array!Table!Init
  BY TableStarts
<1>2. ArraysInv /\ [Array!Next]_Array!vars => [Array!Table!Next]_Array!Table!vars
  <2>. SUFFICES ASSUME ArraysInv, [Array!Next]_Array!vars PROVE [Array!Table!Next]_Array!Table!vars
    OBVIOUS
  <2>1. CASE UNCHANGED Array!vars
    <3>1. dim' = dim /\ data' = data
      BY <2>1 DEF Array!vars
    <3>2. Bounds' = Bounds /\ Elements' = Elements
      BY <3>1 DEF Bounds, Elements, BoundsOf, ElementsOf
    <3>. QED  BY <3>2, TableVars
  <2>2. CASE Array!Next
    <3>1. PICK v \in prog.arrays : Array!Operation(v)
      BY <2>2 DEF Array!Next
    <3>2. prog.arrays \subseteq Arr
      BY ProgramArrays
    <3>3. Array!Table!Next \/ (Bounds' = Bounds /\ Elements' = Elements)
      BY <3>1, <3>2, OperationRefines
    <3>. QED  BY <3>3, TableVars
  <2>. QED  BY <2>1, <2>2
<1>. QED  BY <1>1, <1>2, ArraysAlways, PTL DEF Array!Spec, Array!RefinesTable, Array!Table!Spec
=============================================================================
