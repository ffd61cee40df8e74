------------------------------ MODULE RcMemory ------------------------------
(***************************************************************************
 What one condition of an achievement reads (rcheevos, upstream/src/rcheevos:
 memref.c, operand.c, value.c, condition.c): memory references that remember
 their previous values, the chains of AddSource, SubSource and AddAddress that
 the parser turns into modified references, and the comparison at the end, with
 the forms the parser optimises.

 A condition is a record [sources, left, oper, right]: the chain before it, and
 the comparison.  A source is [flag, left, oper, right], oper "None" for one that
 has no arithmetic.  An operand is [type, addr, size] or [type |-> "Const", num].

 Widths are scaled down: a nibble has NibbleBits bits, a byte two nibbles, a word
 (the 32 bits of the code) two bytes.  Floats, Recall and the 16- and 24-bit
 sizes are left out.
 ***************************************************************************)
EXTENDS Integers, Sequences, FiniteSets

CONSTANTS NibbleBits,    \* bits of half a byte
          Contents,      \* what a frame can find in memory: functions from addresses to bytes
          Conditions,    \* the conditions that are checked
          PointerBits,   \* what the low bits of a pointer may read as
          BitAnd(_, _),  \* & and ^ of the processor
          BitXor(_, _)

Nibble == 2 ^ NibbleBits
Byte == Nibble * Nibble
Word == Byte * Byte

Numbers == 0..(Word - 1)
Bytes == 0..(Byte - 1)

(* A byte has fewer bits than a word has values, and each stands for a power of two. *)
ASSUME BitsAssumption ==
    /\ NibbleBits \in Nat \ {0} /\ Nibble \in Nat /\ Nibble >= 2
    /\ \A k \in 0..(2 * NibbleBits - 1) : 2 ^ k \in Nat \ {0}
    /\ 2 * NibbleBits < Word /\ PointerBits \in Numbers

(* What the properties need of & and ^: a number stays one, and a mask keeps the
   bits it names. *)
ASSUME MasksAssumption ==
    /\ \A a, b \in Numbers : BitAnd(a, b) \in Numbers /\ BitXor(a, b) \in Numbers
    /\ \A a \in Numbers :
          /\ BitAnd(a, Word - 1) = a
          /\ BitAnd(a, Byte - 1) = a % Byte
          /\ BitAnd(a, Nibble - 1) = a % Nibble
          /\ BitAnd(a, (Nibble - 1) * Nibble) = ((a \div Nibble) % Nibble) * Nibble
          /\ BitAnd(a, 1) = a % 2

(***************************************************************************
 Conditions, as they are written.
 ***************************************************************************)
Sizes == {"8", "32", "32BE", "LOW", "HIGH", "BIT0", "BITCOUNT"}
Types == {"Address", "Delta", "Prior", "BCD", "Inverted"}

MemoryOperands == [type: Types, addr: Numbers, size: Sizes]
ConstantOperands == [type: {"Const"}, addr: Numbers, size: {"32"}, num: Numbers]

Arithmetic == {"Add", "Sub", "Mult", "Div", "Mod", "And", "Xor"}
Sources ==
    [flag: {"AddAddress", "AddSource", "SubSource"}, left: MemoryOperands \cup ConstantOperands,
     oper: Arithmetic \cup {"None"}, right: MemoryOperands \cup ConstantOperands]

(* Pointers are read as they are now: a Delta or a Prior that moves an address is
   left out. *)
ASSUME ConditionsAssumption ==
    \A c \in Conditions :
        /\ c.sources \in Seq(Sources)
        /\ {c.left, c.right} \subseteq MemoryOperands \cup ConstantOperands
        /\ c.oper \in {"=", "!=", "<", "<=", ">", ">="}
        /\ \A k \in DOMAIN c.sources :
              c.sources[k].flag = "AddAddress" =>
                  {c.sources[k].left.type, c.sources[k].right.type} \cap {"Delta", "Prior"} = {}

ASSUME ContentsAssumption ==
    \A m \in Contents : \A a \in DOMAIN m : m[a] \in Bytes

VARIABLES condition,     \* the condition under test, as written
          program,       \* what the parser made of it
          memory,        \* the memory of the game in the last frame
          before,        \* the memory in the frame before
          started,       \* a frame was evaluated
          memrefs,       \* rc_memref_value_t of every address and size in use
          mods,          \* rc_memref_value_t of every rc_modified_memref_t
          lastOther      \* history: the last value of the left operand that differed from its present one

memoryVars == <<condition, program, memory, before, started, memrefs, mods, lastOther>>

(***************************************************************************
 Sizes.  rc_memref_shared_sizes, rc_memref_masks, rc_transform_memref_value.
 ***************************************************************************)
SharedSize(size) == IF size \in {"32", "32BE"} THEN "32" ELSE "8"

Mask(size) ==
    CASE size \in {"8", "BITCOUNT"} -> Byte - 1
      [] size \in {"32", "32BE"} -> Word - 1
      [] size = "LOW" -> Nibble - 1
      [] size = "HIGH" -> (Nibble - 1) * Nibble
      [] size = "BIT0" -> 1

(* The bits of n, which has those of a byte. *)
BitAt(n, k) == (n \div (2 ^ k)) % 2

Transform(n, size) ==
    CASE size = "8" -> n % Byte
      [] size = "32" -> n
      [] size = "32BE" -> ((n % Byte) * Byte) + (n \div Byte)
      [] size = "LOW" -> n % Nibble
      [] size = "HIGH" -> (n \div Nibble) % Nibble
      [] size = "BIT0" -> n % 2
      [] size = "BITCOUNT" -> Cardinality({k \in 0..(2 * NibbleBits - 1) : BitAt(n, k) = 1})

(* rc_transform_operand_value: BCD and inverted operands. *)
Digit(n, place) == (n \div place) % Nibble
Decoded(n, type, size) ==
    CASE type = "BCD" /\ size = "8" -> 10 * Digit(n, Nibble) + Digit(n, 1)
      [] type = "BCD" /\ size \in {"32", "32BE"} ->
            (1000 * Digit(n, Byte * Nibble) + 100 * Digit(n, Byte)
                + 10 * Digit(n, Nibble) + Digit(n, 1)) % Word
      [] type = "Inverted" /\ size \in {"LOW", "HIGH"} -> Nibble - 1 - n
      [] type = "Inverted" /\ size = "8" -> Byte - 1 - n
      [] type = "Inverted" /\ size \in {"32", "32BE"} -> Word - 1 - n
      [] type = "Inverted" /\ size \in {"BIT0", "BITCOUNT"} -> BitXor(n, 1)
      [] OTHER -> n

(* The core's memory: an address beyond it reads as zero. *)
ByteAt(m, a) == IF a \in DOMAIN m THEN m[a] ELSE 0

(* rc_peek_value: the shared size is fetched, the bits of the size are kept. *)
Peek(m, a, size) ==
    LET fetched == IF SharedSize(size) = "8" THEN ByteAt(m, a)
                   ELSE ByteAt(m, a) + Byte * ByteAt(m, (a + 1) % Word)
    IN  BitAnd(fetched, Mask(size))

(***************************************************************************
 Values that remember.  rc_update_memref_value, rc_get_memref_value_value.
 ***************************************************************************)
NeverRead == [value |-> 0, prior |-> 0, changed |-> FALSE]

UpdatedTo(r, new) ==
    IF r.value = new THEN [r EXCEPT !.changed = FALSE]
    ELSE [value |-> new, prior |-> r.value, changed |-> TRUE]

Remembered(r, type) == IF type = "Prior" \/ (type = "Delta" /\ r.changed) THEN r.prior ELSE r.value

(***************************************************************************
 Compiled operands: [type, size, ref, num], ref being the memory reference
 <<addr, size>>, the modified reference <<n>>, or none.
 ***************************************************************************)
NoRef == <<>>
ConstOf(n) == [type |-> "Const", size |-> "32", ref |-> NoRef, num |-> n]
Absent == [type |-> "None", size |-> "32", ref |-> NoRef, num |-> 0]
Reference(n) == [type |-> "Address", size |-> "32", ref |-> <<n>>, num |-> 0]

IsMemref(op) == op.type # "Const"
IsPlain(op) == Len(op.ref) = 2

\* Mutant of RefSize: a Prior shares the reference of its byte.
RefSizeShared(o) == SharedSize(o.size)

(* rc_parse_operand_memory: the size of the reference.  A Prior of a part of a
   byte does not share the reference of the byte. *)
RefSize(o) ==
    IF o.type = "Prior" /\ Mask(SharedSize(o.size)) # Mask(o.size) THEN o.size ELSE SharedSize(o.size)

(* rc_alloc_modified_memref: an equal one is used again.  The list is in the
   order of allocation: a reference comes after those it reads. *)
Modified(parent, oper, modifier, size) ==
    [parent |-> parent, oper |-> oper, modifier |-> modifier, size |-> size]

Known(list, m) == \E n \in DOMAIN list : list[n] = m
IndexIn(list, m) == IF Known(list, m) THEN CHOOSE n \in DOMAIN list : list[n] = m ELSE Len(list) + 1
Including(list, m) == IF Known(list, m) THEN list ELSE Append(list, m)

(***************************************************************************
 The parser.  ps is what rc_parse_state_t carries from one condition of the
 chain to the next: the list of modified references, addsource_parent and
 addsource_oper, indirect_parent.
 ***************************************************************************)
Parsing == [list |-> <<>>, src |-> Absent, srcOper |-> "None", ind |-> Absent]

(* rc_parse_operand: the operand and the list it leaves. *)
Operand(ps, o) ==
    IF o.type = "Const" THEN [list |-> ps.list, op |-> ConstOf(o.num)]
    ELSE IF ps.ind = Absent
    THEN [list |-> ps.list,
          op |-> [type |-> o.type, size |-> o.size, ref |-> <<o.addr, RefSize(o)>>, num |-> 0]]
    ELSE LET m == Modified(ps.ind, "IndirectRead", ConstOf(o.addr), RefSize(o))
         IN  [list |-> Including(ps.list, m),
              op |-> [type |-> o.type, size |-> o.size, ref |-> <<IndexIn(ps.list, m)>>, num |-> 0]]

(* The operands of one condition, and rc_condition_convert_to_operand. *)
Converted(ps, c) ==
    LET left == Operand(ps, c.left)
        right == Operand([ps EXCEPT !.list = left.list], c.right)
        m == Modified(left.op, c.oper, right.op, "32")
    IN  IF c.oper = "None" THEN left
        ELSE [list |-> Including(right.list, m), op |-> Reference(IndexIn(right.list, m))]

(* rc_operand_addsource: the sum of two deltas is the delta of a sum. *)
AddToSource(ps, op, size) ==
    LET both == op.type \in {"Delta", "Prior"} /\ op.type = ps.src.type
        m == IF both THEN Modified([ps.src EXCEPT !.type = "Address"], ps.srcOper,
                                   [op EXCEPT !.type = "Address"], size)
                     ELSE Modified(ps.src, ps.srcOper, op, size)
    IN  [list |-> Including(ps.list, m),
         op |-> [Reference(IndexIn(ps.list, m)) EXCEPT !.type = IF both THEN op.type ELSE "Address"]]

ParseAddAddress(ps, c) ==
    LET v == Converted(ps, c) IN [ps EXCEPT !.list = v.list, !.ind = v.op]

ParseAddSource(ps, c) ==
    LET v == Converted(ps, c)
        s == IF ps.src = Absent THEN v ELSE AddToSource([ps EXCEPT !.list = v.list], v.op, "32")
    IN  [list |-> s.list, src |-> s.op, srcOper |-> "AddAccumulator", ind |-> Absent]

\* Mutant of Subtractable: the source is taken as it is.
SubtractableAsIs(ps) == ps

(* What a SubSource makes of the source before it: a constant at the head of a
   sum becomes a reference; a source that is itself to be subtracted is negated
   first, and keeps the type it had: what was a constant now reads the bits of
   the pointer that was written over it. *)
Subtractable(ps) ==
    LET m == Modified(ps.src, ps.srcOper, ConstOf(0), "32")
        n == IndexIn(ps.list, m)
        list == Including(ps.list, m)
    IN  CASE ps.srcOper = "AddAccumulator" /\ ~IsMemref(ps.src) ->
                [ps EXCEPT !.list = list, !.src = Reference(n)]
          [] ps.srcOper = "SubParent" /\ IsMemref(ps.src) ->
                [ps EXCEPT !.list = list, !.src = [Reference(n) EXCEPT !.type = ps.src.type]]
          [] ps.srcOper = "SubParent" /\ ~IsMemref(ps.src) ->
                [ps EXCEPT !.list = list, !.src = ConstOf(PointerBits)]
          [] OTHER -> ps

ParseSubSource(ps, c) ==
    LET ready == Subtractable(ps)
        v == Converted(ready, c)
        oper == IF IsMemref(ready.src) THEN "SubAccumulator" ELSE "SubParent"
        s == AddToSource([ready EXCEPT !.list = v.list, !.srcOper = oper], v.op, "32")
    IN  IF ps.src = Absent
        THEN [list |-> v.list, src |-> v.op, srcOper |-> "SubParent", ind |-> Absent]
        ELSE [list |-> s.list, src |-> s.op, srcOper |-> "AddAccumulator", ind |-> Absent]

(* The condition at the end of the chain: rc_parse_condition_internal and
   rc_condition_update_parse_state. *)
ParseLeaf(ps, c) ==
    LET left == Operand(ps, c.left)
        right == Operand([ps EXCEPT !.list = left.list], c.right)
        oper == IF ps.srcOper = "AddAccumulator" THEN "Add" ELSE ps.srcOper
        sum == AddToSource([ps EXCEPT !.list = right.list, !.srcOper = oper], left.op, c.left.size)
    IN  IF ps.src = Absent THEN [list |-> right.list, left |-> left.op, right |-> right.op]
        ELSE [list |-> sum.list, left |-> sum.op, right |-> right.op]

ParseSource(ps, c) ==
    CASE c.flag = "AddAddress" -> ParseAddAddress(ps, c)
      [] c.flag = "AddSource" -> ParseAddSource(ps, c)
      [] c.flag = "SubSource" -> ParseSubSource(ps, c)

(* What the parser carries after each condition of the chain. *)
Parsed(c) ==
    LET ps[k \in 0..Len(c.sources)] ==
          IF k = 0 THEN Parsing ELSE ParseSource(ps[k - 1], c.sources[k])
    IN  ps

Compiled(c) == ParseLeaf(Parsed(c)[Len(c.sources)], c)

OperandsOf(p) ==
    {p.left, p.right} \cup UNION {{p.list[n].parent, p.list[n].modifier} : n \in DOMAIN p.list}
References(p) == {op.ref : op \in {o \in OperandsOf(p) : IsPlain(o)}}

(***************************************************************************
 A frame.  rc_evaluate_operand, rc_get_modified_memref_value and
 rc_update_memref_values.
 ***************************************************************************)
EvaluateOperand(op, refs, modified) ==
    IF op.type = "Const" THEN op.num
    ELSE LET r == IF IsPlain(op) THEN refs[op.ref] ELSE modified[op.ref[1]]
         IN  Decoded(Transform(Remembered(r, op.type), op.size), op.type, op.size)

(* rc_typed_value_combine.  Dividing by zero leaves no value, which is stored as 0. *)
Combine(a, oper, b) ==
    CASE oper = "Add" -> (a + b) % Word
      [] oper = "Sub" -> (a - b) % Word
      [] oper = "Mult" -> (a * b) % Word
      [] oper = "Div" -> IF b = 0 THEN 0 ELSE a \div b
      [] oper = "Mod" -> IF b = 0 THEN 0 ELSE a % b
      [] oper = "And" -> BitAnd(a, b)
      [] oper = "Xor" -> BitXor(a, b)

ModifiedValue(m, new, refs, modified) ==
    LET a == EvaluateOperand(m.parent, refs, modified)
        b == EvaluateOperand(m.modifier, refs, modified)
    IN  CASE m.oper = "IndirectRead" -> Peek(new, (a + b) % Word, m.size)
          [] m.oper = "SubParent" -> (b - a) % Word
          [] m.oper = "SubAccumulator" -> (a - b) % Word
          [] m.oper = "AddAccumulator" -> (a + b) % Word
          [] OTHER -> Combine(a, m.oper, b)

(* The modified references, after each of them is updated. *)
ModsAfter(new, refs) ==
    LET after[k \in 0..Len(program.list)] ==
          IF k = 0 THEN mods
          ELSE [after[k - 1] EXCEPT ![k] =
                  UpdatedTo(@, ModifiedValue(program.list[k], new, refs, after[k - 1]))]
    IN  after

UpdatedMods(new, refs) == ModsAfter(new, refs)[Len(program.list)]

(***************************************************************************
 The comparison.  rc_condition_determine_comparator and rc_test_condition.
 ***************************************************************************)
Compare(a, oper, b) ==
    CASE oper = "=" -> a = b
      [] oper = "!=" -> a # b
      [] oper = "<" -> a < b
      [] oper = "<=" -> a <= b
      [] oper = ">" -> a > b
      [] oper = ">=" -> a >= b

Simple(op) == op.type \in {"Address", "Delta"} /\ IsPlain(op)

\* Mutant of Comparator: one reference is compared with itself, whatever the sizes.
ComparatorCareless(left, right) ==
    CASE Simple(left) /\ right.type = "Const" -> "ToConst"
      [] Simple(left) /\ Simple(right) /\ left.type = right.type ->
            IF left.ref = right.ref THEN "Constant" ELSE "ToMemref"
      [] OTHER -> "Default"

(* rc_condition_determine_comparator *)
Comparator(left, right) ==
    CASE Simple(left) /\ right.type = "Const" -> "ToConst"
      [] Simple(left) /\ Simple(right) /\ left.type = "Address" /\ right.type = "Address" ->
            IF left.ref = right.ref /\ left.size = left.ref[2] /\ right.size = left.ref[2]
            THEN "Constant" ELSE "ToMemref"
      [] Simple(left) /\ Simple(right) /\ left.type # right.type /\ left.ref = right.ref -> "ToItself"
      [] left.type = "Const" /\ right.type = "Const" -> "Constant"
      [] OTHER -> "Default"

(* The value of an operand as the optimised forms read it. *)
Raw(op) == Transform(Remembered(memrefs[op.ref], op.type), op.size)

TestCondition ==
    LET left == program.left
        right == program.right
        form == Comparator(left, right)
    IN  CASE form = "ToConst" -> Compare(Raw(left), condition.oper, right.num)
          [] form = "ToMemref" -> Compare(Raw(left), condition.oper, Raw(right))
          [] form = "ToItself" -> IF memrefs[left.ref].changed
                                  THEN Compare(Raw(left), condition.oper, Raw(right))
                                  ELSE condition.oper \in {"=", "<=", ">="}
          [] form = "Constant" -> Compare(left.num, condition.oper, right.num)
          [] form = "Default" -> Compare(EvaluateOperand(left, memrefs, mods), condition.oper,
                                         EvaluateOperand(right, memrefs, mods))

(***************************************************************************
 What is written, read from the memory itself.  An operand reads the memory m at
 an address that the AddAddress before it moved.
 ***************************************************************************)
Now(o, base, m) ==
    IF o.type = "Const" THEN o.num
    ELSE Transform(Peek(m, (base + o.addr) % Word, SharedSize(o.size)), o.size)

Read(o, base, m) ==
    IF o.type = "Const" THEN o.num ELSE Decoded(Now(o, base, m), o.type, o.size)

(* By how much each condition of the chain moves the addresses of the next. *)
Pointer(s, base, m) ==
    CASE s.flag # "AddAddress" -> 0
      [] s.flag = "AddAddress" /\ s.oper = "None" -> Read(s.left, base, m)
      [] s.flag = "AddAddress" /\ s.oper # "None" ->
            Combine(Read(s.left, base, m), s.oper, Read(s.right, base, m))

Bases(c, m) ==
    LET base[k \in 0..Len(c.sources)] ==
          IF k = 0 THEN 0 ELSE Pointer(c.sources[k], base[k - 1], m)
    IN  base

(* The operand o of the condition after the k-th. *)
Written(o, k) ==
    LET m == IF o.type = "Delta" THEN before ELSE memory
    IN  Read(o, Bases(condition, m)[k], m)

Term(k) ==
    LET s == condition.sources[k]
        a == Written(s.left, k - 1)
        v == IF s.oper = "None" THEN a ELSE Combine(a, s.oper, Written(s.right, k - 1))
    IN  CASE s.flag = "AddAddress" -> 0 [] s.flag = "AddSource" -> v [] s.flag = "SubSource" -> -v

Sums ==
    LET sum[k \in 0..Len(condition.sources)] == IF k = 0 THEN 0 ELSE sum[k - 1] + Term(k)
    IN  sum

Sum == (Sums[Len(condition.sources)] + Written(condition.left, Len(condition.sources))) % Word

(* The left operand of a condition that sums nothing, for the history of it. *)
LeftNow(m) == Now(condition.left, Bases(condition, m)[Len(condition.sources)], m)

MemoryInit ==
    /\ condition \in Conditions
    /\ program = Compiled(condition)
    /\ memory = <<>>
    /\ before = <<>>
    /\ started = FALSE
    /\ memrefs = [r \in References(program) |-> NeverRead]
    /\ mods = [n \in DOMAIN program.list |-> NeverRead]
    /\ lastOther = 0

(* rc_update_memref_values in a frame that finds new in memory. *)
UpdateMemrefs(new) ==
    /\ memrefs' = [r \in DOMAIN memrefs |-> UpdatedTo(memrefs[r], Peek(new, r[1], r[2]))]
    /\ mods' = UpdatedMods(new, memrefs')
    /\ memory' = new
    /\ before' = memory
    /\ started' = TRUE
    /\ lastOther' = IF LeftNow(new) # LeftNow(memory) THEN LeftNow(memory) ELSE lastOther
    /\ UNCHANGED <<condition, program>>

MemoryNext == \E new \in Contents : UpdateMemrefs(new)

MemorySpec == MemoryInit /\ [][MemoryNext]_memoryVars

(***************************************************************************
 Properties.
 ***************************************************************************)
Summed(c) == {k \in DOMAIN c.sources : c.sources[k].flag # "AddAddress"}
UsesPrior(c) ==
    \/ "Prior" \in {c.left.type, c.right.type}
    \/ \E k \in DOMAIN c.sources : "Prior" \in {c.sources[k].left.type, c.sources[k].right.type}

ReadsPrior(c) == c.left.type = "Prior" /\ c.left.size # "BITCOUNT" /\ Summed(c) = {}

(* A sum that starts by subtracting twice, the first time something that is read
   otherwise than as the present value of a reference. *)
SubtractsTwice(c) ==
    \E j, k \in Summed(c) :
        /\ \A i \in Summed(c) : i >= j /\ (i # j => i >= k)
        /\ j # k
        /\ c.sources[j].flag = "SubSource" /\ c.sources[k].flag = "SubSource"
        /\ c.sources[j].oper = "None" /\ c.sources[j].left.type # "Address"

(* The condition reads the sum that is written, modulo the word: whatever mix of
   additions, subtractions, pointers, deltas, constants and arithmetic its chain
   has, however the parser shares and reorders the references. *)
SumKept ==
    started /\ ~UsesPrior(condition) /\ ~SubtractsTwice(condition) =>
        EvaluateOperand(program.left, memrefs, mods) = Sum

(* A Prior operand reads the last value of its part of the memory that differed
   from the present one, even when the rest of the byte changed since.  (A count of
   bits shares the reference of its byte: it reads the count of the last other byte,
   which may be the same.) *)
PriorKept ==
    started /\ ReadsPrior(condition) =>
        EvaluateOperand(program.left, memrefs, mods) = lastOther

(* Two parts of one byte, one of them as it was in the frame before. *)
ComparesParts(p) ==
    /\ Simple(p.left) /\ Simple(p.right)
    /\ p.left.ref = p.right.ref /\ p.left.size # p.right.size /\ p.left.type # p.right.type

(* The verdict of a condition is that of its comparison on what is written,
   whichever optimised form the parser chose for it. *)
VerdictKept ==
    started /\ ~UsesPrior(condition) /\ ~SubtractsTwice(condition) /\ ~ComparesParts(program) =>
        (TestCondition <=> Compare(Sum, condition.oper,
                                   Written(condition.right, Len(condition.sources))))
=============================================================================
