----------------------------- MODULE ComValues -----------------------------
(* The values of COM in lib/core/comutil.h.  A BSTR is a block that somebody   *)
(* has to free, with a length of its own, so that it may hold NUL characters;  *)
(* NULL stands for no text.  A _bstr_t shares a counted Data_t with its        *)
(* copies, which has a BSTR and the narrow text once that was asked for.  A    *)
(* _variant_t owns its BSTR alone.  The program has raw BSTRs besides, from    *)
(* copy(), Detach() and its servers, and gives up those it attaches.           *)
EXTENDS Integers, Sequences, SequencesExt, FiniteSetsExt

CONSTANTS StrVar, VarVar, RawVar,   \* variables of the three kinds
          Texts,                    \* texts that the program and its servers have
          NUL,                      \* the character that ends a C string
          Type,                     \* types of numbers, of VARTYPE
          MaxBlocks, MaxSteps       \* bounds

ValuesAssumption ==
    /\ {MaxBlocks, MaxSteps} \subseteq Nat /\ NUL \notin {"x", "null", "freed"}
    /\ \A t \in Texts : t \in Seq({NUL, "x"})
    /\ Type \cap {"EMPTY", "BSTR", "BOOL", "ARRAY"} = {}
    /\ IsFiniteSet(StrVar) /\ IsFiniteSet(VarVar) /\ IsFiniteSet(RawVar)

VARIABLES mem,      \* the blocks of the system, and the objects Data_t
          str,      \* m_Data of each _bstr_t
          var,      \* the VARIANT of each _variant_t
          raw,      \* the BSTRs of the program
          meant,    \* history: the text that each _bstr_t was given last
          value,    \* history: what each _variant_t was given last
          poked,    \* history: _bstr_t whose Data_t was changed through GetBSTR()
          ended,    \* how the program was ended
          steps

values == <<mem, str, var, raw, meant, value, poked, ended, steps>>

Block == 1 .. MaxBlocks
NULL == 0
Null == <<"null">>      \* no text
Freed == <<"freed">>

NoData == [w |-> NULL, s |-> Null, refs |-> 0]
Variant(vt, b, n) == [vt |-> vt, b |-> b, n |-> n]

ValuesTypeOK ==
    /\ mem.text \in [Block -> Texts \cup Seq({NUL, "x"}) \cup {Freed}]
    /\ \A d \in Block : mem.data[d].w \in Block \cup {NULL} /\ mem.data[d].refs \in Nat
    /\ str \in [StrVar -> Block \cup {NULL}] /\ raw \in [RawVar -> Block \cup {NULL}]
    /\ \A v \in VarVar :
        /\ var[v].vt \in Type \cup {"EMPTY", "BSTR", "BOOL", "ARRAY"}
        /\ var[v].b \in Block \cup {NULL}
    /\ poked \subseteq StrVar /\ ended \in {"no", "terminate", "null"} /\ steps \in 0 .. MaxSteps

ValuesInit ==
    /\ mem = [text |-> [b \in Block |-> Freed], data |-> [d \in Block |-> NoData]]
    /\ str = [s \in StrVar |-> NULL] /\ raw = [p \in RawVar |-> NULL]
    /\ var = [v \in VarVar |-> Variant("EMPTY", NULL, 0)]
    /\ meant = [s \in StrVar |-> Null] /\ value = [v \in VarVar |-> <<"EMPTY", 0>>]
    /\ poked = {} /\ ended = "no" /\ steps = 0
-----------------------------------------------------------------------------
(* What the functions of the system and the parts of Data_t do to the memory.  *)

\* A C string ends at its first NUL, for SysAllocString as for ConvertStringToBSTR.
Cut(t) == IF Contains(t, NUL) THEN SubSeq(t, 1, SelectInSeq(t, LAMBDA c : c = NUL) - 1) ELSE t

TextOf(m, b) == IF b = NULL THEN Null ELSE m.text[b]
FreeBlock(m) == CHOOSE b \in Block : m.text[b] = Freed
\* The block with the text t, which Alloc makes.
Given(m, t) == IF t = Null THEN NULL ELSE FreeBlock(m)
Alloc(m, t) == IF t = Null THEN m ELSE [m EXCEPT !.text[FreeBlock(m)] = t]
Free(m, b) == IF b = NULL THEN m ELSE [m EXCEPT !.text[b] = Freed]

FreeData(m) == CHOOSE d \in Block : m.data[d] = NoData
NewData(m, b) == [m EXCEPT !.data[FreeData(m)] = [w |-> b, s |-> Null, refs |-> 1]]
AddRef(m, d) == IF d = NULL THEN m ELSE [m EXCEPT !.data[d].refs = @ + 1]
ReleaseData(m, d) ==
    IF d = NULL THEN m
    ELSE IF m.data[d].refs > 1 THEN [m EXCEPT !.data[d].refs = @ - 1]
    ELSE Free([m EXCEPT !.data[d] = NoData], m.data[d].w)

GetWString(s) == IF str[s] = NULL THEN NULL ELSE mem.data[str[s]].w
Wide(s) == TextOf(mem, GetWString(s))

Step ==
    /\ ended = "no" /\ steps < MaxSteps
    /\ steps' = steps + 1
    /\ Cardinality({b \in Block : mem.text[b] = Freed}) > 1     \* bound
    /\ NoData \in {mem.data[d] : d \in Block}
-----------------------------------------------------------------------------
(* _bstr_t                                                                     *)

\* s has let go of its Data_t and has one of its own around b, in m.
TakesBlock(s, m, b, t) ==
    /\ mem' = NewData(m, b)
    /\ str' = [str EXCEPT ![s] = FreeData(m)]
    /\ meant' = [meant EXCEPT ![s] = t]
    /\ poked' = poked \ {s}

\* operator=( const wchar_t* ) and ( const char* ), and that of a _variant_t with a
\* BSTR; t is the text of the pointer.  A pointer that is its own already is left.  The
\* narrow form asks for the narrow text of the old Data_t first, which is Narrow.
SetText(s, t) ==
    /\ Step
    /\ LET m == ReleaseData(mem, str[s])
       IN  TakesBlock(s, Alloc(m, Cut(t)), Given(m, Cut(t)), Cut(t))
    /\ UNCHANGED <<var, raw, value, ended>>

SetPointer(s, b) ==
    IF b # NULL /\ b = GetWString(s) THEN ended = "no" /\ UNCHANGED values
    ELSE SetText(s, TextOf(mem, b))

\* Assign( BSTR ) keeps what is behind a NUL.
Assign(s, p) ==
    /\ Step
    /\ raw[p] = NULL \/ raw[p] # GetWString(s)
    /\ LET m == ReleaseData(mem, str[s])
           t == TextOf(mem, raw[p])
       IN  TakesBlock(s, Alloc(m, t), Given(m, t), t)
    /\ UNCHANGED <<var, raw, value, ended>>

\* Mutant: the copy is not counted.
ShareUncounted(s, x) ==
    /\ Step /\ s # x
    /\ mem' = ReleaseData(mem, str[s]) /\ str' = [str EXCEPT ![s] = str[x]]
    /\ meant' = [meant EXCEPT ![s] = meant[x]]
    /\ poked' = IF x \in poked THEN poked \cup {s} ELSE poked \ {s}
    /\ UNCHANGED <<var, raw, value, ended>>

\* operator=( const _bstr_t& ).
Share(s, x) ==
    /\ Step /\ s # x
    /\ mem' = AddRef(ReleaseData(mem, str[s]), str[x])
    /\ str' = [str EXCEPT ![s] = str[x]]
    /\ meant' = [meant EXCEPT ![s] = meant[x]]
    /\ poked' = IF x \in poked THEN poked \cup {s} ELSE poked \ {s}
    /\ UNCHANGED <<var, raw, value, ended>>

Plain(t) == IF t = Null THEN <<>> ELSE t

\* Mutant: the old Data_t goes first.
AppendFreesFirst(s, x) ==
    /\ Step
    /\ LET m == ReleaseData(mem, str[s])
           t == Plain(TextOf(m, GetWString(s))) \o Plain(TextOf(m, GetWString(x)))
       IN  TakesBlock(s, Alloc(m, t), Given(m, t), Plain(Wide(s)) \o Plain(Wide(x)))
    /\ UNCHANGED <<var, raw, value, ended>>

\* operator+=, which makes the new Data_t of the two texts before it lets go of the old.
AppendTo(s, x) ==
    /\ Step
    /\ LET t == Plain(Wide(s)) \o Plain(Wide(x))
           m == NewData(Alloc(mem, t), Given(mem, t))
       IN  /\ mem' = ReleaseData(m, str[s])
           /\ str' = [str EXCEPT ![s] = FreeData(Alloc(mem, t))]
           /\ meant' = [meant EXCEPT ![s] = t]
    /\ poked' = poked \ {s}
    /\ UNCHANGED <<var, raw, value, ended>>

\* operator const char*: the narrow text is made once.
Narrow(s) ==
    /\ Step
    /\ GetWString(s) # NULL /\ mem.data[str[s]].s = Null
    /\ mem' = [mem EXCEPT !.data[str[s]].s = Cut(Wide(s))]
    /\ UNCHANGED <<str, var, raw, meant, value, poked, ended>>

\* SysReAllocString( &s.GetBSTR(), t ): the program changes the BSTR in its Data_t.
GetBSTR(s, t) ==
    /\ Step
    /\ LET m == IF str[s] = NULL THEN NewData(mem, NULL) ELSE mem
           d == IF str[s] = NULL THEN FreeData(mem) ELSE str[s]
           f == Free(m, m.data[d].w)
       IN  /\ mem' = [Alloc(f, t) EXCEPT !.data[d].w = Given(f, t)]
           /\ str' = [str EXCEPT ![s] = d]
           /\ poked' = (poked \ {s}) \cup {x \in StrVar :
                            str'[x] = d /\ (x # s \/ mem'.data[d].s # Null)}
    /\ meant' = [meant EXCEPT ![s] = t]
    /\ UNCHANGED <<var, raw, value, ended>>

\* Attach( p ); with NULL, GetAddress(), behind which a server stores its text.
Attach(s, p) ==
    /\ Step
    /\ TakesBlock(s, ReleaseData(mem, str[s]), raw[p], TextOf(mem, raw[p]))
    /\ raw' = [raw EXCEPT ![p] = NULL]
    /\ UNCHANGED <<var, value, ended>>

\* Detach() reports an error by an exception, which may not leave it.
Detach(s, p) ==
    /\ Step /\ raw[p] = NULL
    /\ IF str[s] # NULL /\ mem.data[str[s]].refs = 1
       THEN /\ mem' = [mem EXCEPT !.data[str[s]] = NoData]
            /\ raw' = [raw EXCEPT ![p] = GetWString(s)]
            /\ str' = [str EXCEPT ![s] = NULL]
            /\ meant' = [meant EXCEPT ![s] = Null]
            /\ poked' = poked \ {s}
            /\ UNCHANGED ended
       ELSE ended' = "terminate" /\ UNCHANGED <<mem, str, raw, meant, poked>>
    /\ UNCHANGED <<var, value>>

\* copy(): a BSTR for the program.
Copy(s, p) ==
    /\ Step /\ raw[p] = NULL
    /\ mem' = Alloc(mem, Wide(s)) /\ raw' = [raw EXCEPT ![p] = Given(mem, Wide(s))]
    /\ UNCHANGED <<str, var, meant, value, poked, ended>>

\* Data_t::Compare, of the characters and then of the lengths.
CompareTexts(t, u) ==
    IF t = u THEN 0
    ELSE IF IsStrictPrefix(t, u) THEN -1
    ELSE IF IsStrictPrefix(u, t) THEN 1
    ELSE LET i == Min({j \in DOMAIN t \cap DOMAIN u : t[j] # u[j]})
         IN  IF t[i] = NUL THEN -1 ELSE 1

\* _Compare, of two _bstr_t.
Compare(s, x) ==
    IF str[s] = str[x] THEN 0
    ELSE IF str[s] = NULL THEN -1
    ELSE IF str[x] = NULL THEN 1
    ELSE IF GetWString(s) = NULL THEN IF GetWString(x) = NULL THEN 0 ELSE -1
    ELSE IF GetWString(x) = NULL THEN 1
    ELSE CompareTexts(Wide(s), Wide(x))
-----------------------------------------------------------------------------
(* _variant_t                                                                  *)

\* VariantClear of v behind which it has x, in m.
Holds(v, m, x, given) ==
    /\ mem' = m
    /\ var' = [var EXCEPT ![v] = x]
    /\ value' = [value EXCEPT ![v] = given]
Cleared(v) == Free(mem, var[v].b)

\* operator=( const wchar_t* ) and ( const char* ), and the constructors for texts.
SetVarText(v, t) ==
    /\ Step
    /\ LET m == Cleared(v)
       IN  Holds(v, Alloc(m, Cut(t)), Variant("BSTR", Given(m, Cut(t)), 0), <<"BSTR", Cut(t)>>)
    /\ UNCHANGED <<str, raw, meant, poked, ended>>

\* operator=( const _bstr_t& ), which copies what is behind a NUL.
SetVarStr(v, s) ==
    /\ Step
    /\ LET m == Cleared(v)
       IN  Holds(v, Alloc(m, Wide(s)), Variant("BSTR", Given(m, Wide(s)), 0), <<"BSTR", Wide(s)>>)
    /\ UNCHANGED <<str, raw, meant, poked, ended>>

\* operator=( const _variant_t& ) and the copy constructor: VariantCopy.
CopyVar(v, x) ==
    /\ Step /\ v # x
    /\ LET m == Cleared(v)
           t == TextOf(m, var[x].b)
       IN  Holds(v, Alloc(m, t), [var[x] EXCEPT !.b = Given(m, t)], value[x])
    /\ UNCHANGED <<str, raw, meant, poked, ended>>

\* A number n as the type vt has it.
As(vt, n) == IF vt = "BOOL" /\ n # 0 THEN -1 ELSE n

\* The types that may hold a number of a type: a constructor makes them when it is asked
\* to, and operator= leaves them as they are.
Keeps(type) == CASE type = "I2" -> {"I2", "BOOL"} [] type = "I4" -> {"I4", "ERROR", "BOOL"}
                 [] type = "R8" -> {"R8", "DATE"} [] OTHER -> {type}

\* A constructor with the type that is asked for, or what it throws for another.
MakeNumber(v, type, vt, n) ==
    /\ Step
    /\ LET x == IF vt \in Keeps(type) THEN Variant(vt, NULL, As(vt, n)) ELSE Variant("EMPTY", NULL, 0)
       IN  Holds(v, Cleared(v), x, <<x.vt, x.n>>)
    /\ UNCHANGED <<str, raw, meant, poked, ended>>

SetNumber(v, type, n) ==
    /\ Step
    /\ LET vt == IF var[v].vt \in Keeps(type) THEN var[v].vt ELSE type
       IN  Holds(v, Cleared(v), Variant(vt, NULL, As(vt, n)), <<vt, As(vt, n)>>)
    /\ UNCHANGED <<str, raw, meant, poked, ended>>

\* GetAddress() for a server, which answers a text, no text, or what no string is made of.
Answer(v, t) ==
    /\ Step
    /\ LET m == Cleared(v)
       IN  \/ Holds(v, Alloc(m, t), Variant("BSTR", Given(m, t), 0), <<"BSTR", t>>)
           \/ Holds(v, m, Variant("ARRAY", NULL, 0), <<"ARRAY", 0>>)
    /\ UNCHANGED <<str, raw, meant, poked, ended>>

\* Attach( x ), and the constructor that does not copy.
AttachVar(v, x) ==
    /\ Step /\ v # x
    /\ mem' = Cleared(v)
    /\ var' = [var EXCEPT ![v] = var[x], ![x] = Variant("EMPTY", NULL, 0)]
    /\ value' = [value EXCEPT ![v] = value[x], ![x] = <<"EMPTY", 0>>]
    /\ UNCHANGED <<str, raw, meant, poked, ended>>

\* Detach() of a text, which is the program's from then on.
DetachVar(v, p) ==
    /\ Step /\ raw[p] = NULL /\ var[v].vt = "BSTR"
    /\ raw' = [raw EXCEPT ![p] = var[v].b]
    /\ Holds(v, mem, Variant("EMPTY", NULL, 0), <<"EMPTY", 0>>)
    /\ UNCHANGED <<str, meant, poked, ended>>

\* ChangeType( VT_BSTR ) gives a number as a text, VT_EMPTY as an empty one, an array not.
AsText(v) == IF var[v].vt = "BSTR" THEN TextOf(mem, var[v].b)
             ELSE IF var[v].vt = "EMPTY" THEN <<>> ELSE <<"x">>

\* The conversions to numbers: what v holds when it has the type, and otherwise what
\* VariantChangeType makes of it in a temporary, or Null, for which CheckError throws.
Changed(x, type) == CASE x.vt \in {"BSTR", "ARRAY"} -> Null
                      [] x.vt = "EMPTY" -> 0
                      [] OTHER -> As(type, x.n)
AsNumber(v, type) == IF var[v].vt = type THEN var[v].n ELSE Changed(var[v], type)

\* operator=( const _variant_t& ) of _bstr_t, and its constructor.
FromVar(s, v) ==
    IF var[v].vt = "BSTR" THEN SetPointer(s, var[v].b)
    ELSE var[v].vt # "ARRAY" /\ SetText(s, AsText(v))

\* conv( string*, CDispatchVariant ): a string of the language from the narrow text.
ReadString(v) ==
    /\ ended = "no"
    /\ ended' = IF var[v].vt # "ARRAY" /\ AsText(v) = Null THEN "null" ELSE ended
    /\ UNCHANGED <<mem, str, var, raw, meant, value, poked, steps>>

\* operator==, which may not throw and does, for a type that it does not know.
Equal(v, x) ==
    /\ var[v].vt = var[x].vt
    /\ IF var[v].vt = "BSTR" THEN Plain(AsText(v)) = Plain(AsText(x)) ELSE var[v].n = var[x].n
CompareVar(v, x) ==
    /\ ended = "no" /\ v # x
    /\ ended' = IF var[v].vt = "ARRAY" /\ var[x].vt = "ARRAY" THEN "terminate" ELSE ended
    /\ UNCHANGED <<mem, str, var, raw, meant, value, poked, steps>>
-----------------------------------------------------------------------------
\* A BSTR from a server, and SysFreeString.
Receive(p, t) ==
    /\ Step /\ raw[p] = NULL
    /\ mem' = Alloc(mem, t) /\ raw' = [raw EXCEPT ![p] = Given(mem, t)]
    /\ UNCHANGED <<str, var, meant, value, poked, ended>>

GiveUp(p) ==
    /\ Step /\ raw[p] # NULL
    /\ mem' = Free(mem, raw[p]) /\ raw' = [raw EXCEPT ![p] = NULL]
    /\ UNCHANGED <<str, var, meant, value, poked, ended>>

ValuesNext ==
    \/ \E s \in StrVar, t \in Texts : SetText(s, t) \/ GetBSTR(s, t)
    \/ \E s \in StrVar : GetBSTR(s, Null) \/ Narrow(s)
    \/ \E s, x \in StrVar : Share(s, x) \/ AppendTo(s, x)
    \/ \E s \in StrVar, p \in RawVar :
          SetPointer(s, raw[p]) \/ Assign(s, p) \/ Attach(s, p) \/ Detach(s, p) \/ Copy(s, p)
    \/ \E s, x \in StrVar : SetPointer(s, GetWString(x))
    \/ \E v \in VarVar, t \in Texts : SetVarText(v, t)
    \/ \E v \in VarVar, t \in Texts \cup {Null} : Answer(v, t)
    \/ \E v \in VarVar, s \in StrVar : SetVarStr(v, s) \/ FromVar(s, v)
    \/ \E v, x \in VarVar : CopyVar(v, x) \/ AttachVar(v, x) \/ CompareVar(v, x)
    \/ \E v \in VarVar, type \in Type : SetNumber(v, type, 2) \/ MakeNumber(v, type, "BOOL", 2)
    \/ \E v \in VarVar, p \in RawVar : DetachVar(v, p)
    \/ \E v \in VarVar : ReadString(v)
    \/ \E p \in RawVar : GiveUp(p) \/ \E t \in Texts \cup {Null} : Receive(p, t)

ValuesSpec == ValuesInit /\ [][ValuesNext]_values
-----------------------------------------------------------------------------
\* Every BSTR that is allocated has one owner, a Data_t, a _variant_t or the program, and
\* every Data_t is counted by the _bstr_t that have it: nothing is lost, freed under an
\* owner or freed twice (comutil.h).
OneOwner ==
    /\ ValuesTypeOK
    /\ \A b \in Block :
        (IF mem.text[b] = Freed THEN 0 ELSE 1) =
            Cardinality({d \in Block : mem.data[d].w = b /\ mem.data[d].refs > 0})
          + Cardinality({v \in VarVar : var[v].b = b}) + Cardinality({p \in RawVar : raw[p] = b})
    /\ \A d \in Block : mem.data[d].refs = Cardinality({s \in StrVar : str[s] = d})

\* A variable holds what it was given last, whatever was done to the others since, and its
\* narrow text agrees, as does a number of every type; only GetBSTR() changes the text of those that share it, and leaves
\* a narrow text behind (comutil.h).
TextsKept ==
    /\ \A s \in StrVar \ poked :
        /\ Wide(s) = meant[s]
        /\ str[s] # NULL /\ mem.data[str[s]].s # Null => mem.data[str[s]].s = Cut(meant[s])
    /\ \A v \in VarVar :
        /\ value[v] = <<var[v].vt, IF var[v].vt = "BSTR" THEN TextOf(mem, var[v].b) ELSE var[v].n>>
        /\ var[v].vt \in Type => \A type \in Type : AsNumber(v, type) = value[v][2]

\* The comparisons of _bstr_t are an order; two are equal when their texts are, and a NULL
\* equals no text but that of the same kind of NULL (_Compare).  That of _variant_t takes a
\* NULL for an empty text.
OrderSound ==
    /\ \A s, x \in StrVar : Compare(s, x) = -Compare(x, s)
    /\ \A s, x, y \in StrVar : Compare(s, x) <= 0 /\ Compare(x, y) <= 0 => Compare(s, y) <= 0
    /\ \A s, x \in StrVar : Wide(s) # Null => (Compare(s, x) = 0 <=> Wide(s) = Wide(x))
    /\ \A v, x \in VarVar : ended = "no" /\ value[v] = value[x] => Equal(v, x)

\* The program is ended by one of these functions only when it asks for the BSTR of a
\* _bstr_t that has none of its own, compares arrays, or reads a string from a text that a
\* server answered as NULL (Detach, operator==, conv of comobject.h).
EndedForReason ==
    /\ ended = "terminate" =>
        \/ \E s \in StrVar : str[s] = NULL \/ mem.data[str[s]].refs > 1
        \/ \E v, x \in VarVar : v # x /\ var[v].vt = "ARRAY" /\ var[x].vt = "ARRAY"
    /\ ended = "null" => \E v \in VarVar : var[v].vt = "BSTR" /\ var[v].b = NULL

\* A _bstr_t or _variant_t holds what it was given last, compares by it, and ends the
\* program only for the reasons named (comutil.h).
ValuesKept == TextsKept /\ OrderSound /\ EndedForReason
=============================================================================
