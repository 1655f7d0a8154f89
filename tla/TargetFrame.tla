----------------------------- MODULE TargetFrame -----------------------------
(***************************************************************************)
(* What the functions of frame_impl tell a break_point about the stopped   *)
(* program, and what they do to it: _init_bps and _handle_bps              *)
(* (process.cpp 109-262), frame_impl.cpp and frame::get_cstring, between   *)
(* the answers gdb prints and the values a plugin gets.  GdbProcess has    *)
(* the order of the calls and how they fail; here each gets its answer.    *)
(*                                                                         *)
(* The program is external: a stack of two frames with a variable n and a  *)
(* C string s in each, and memory with a gap.  A byte has ByteBits bits,   *)
(* n has SizeOf bytes, the lowest first, and a character is its code.      *)
(***************************************************************************)
EXTENDS MiTypes, FiniteSets, BreakPointMap

CONSTANTS
    Params,         \* the parameters of the function at each address
    Cells,          \* the addresses of memory that can be read and written
    Strings,        \* the C strings a parameter s may have
    PrintLimit,     \* how much of a string gdb shows
    MaxStops,       \* bound: stops at a breakpoint
    MaxOps          \* bound: calls of frame functions

ASSUME FrameAssumption ==
    /\ \A bp \in DOMAIN Locations : Locations[bp] \in Seq(DOMAIN Params)
    /\ PrintLimit \in Nat /\ MaxStops \in Nat /\ MaxOps \in Nat

VARIABLES
    told,       \* the calls of set_at and set_multiple
    stack,      \* the program's frames: the address, and where its variables are
    memory,     \* the program's memory
    selected,   \* the frame gdb evaluates in
    args,       \* _arg_list
    nameMap,    \* arg_name_map: the parameters of the function at an address
    got,        \* the last call, and what it returned
    stops, ops  \* counters of MaxStops and MaxOps

targetVars == <<stack, memory, selected>>
argVars    == <<args, nameMap>>
vars == <<mapVars, told, targetVars, argVars, got, stops, ops>>

ByteBits == 2
ByteSize == 4
SizeOf   == 2
None     == <<"none">>
Garbage  == <<"garbage">>       \* what is read of a string that is gone
Gone     == Word("<optimized out>")

T(id, t) == <<id, Text(t)>>
Call(op, on, value) == [op |-> op, on |-> on, value |-> value]

-----------------------------------------------------------------------------
(* What gdb evaluates (external).  A variable is in memory, in a register, *)
(* optimized out, a pointer to a C string or a reference to memory.        *)

Here == stack[selected + 1].vars

\* The string behind a pointer, and whether gdb puts "..." behind it.
Shown(s) == IF Len(s) > PrintLimit THEN <<"pointer", SubSeq(s, 1, PrintLimit), TRUE>>
            ELSE <<"pointer", s, FALSE>>

IntAt(a) == memory[a] + ByteSize * memory[a + 1]
Stored(place) ==
    CASE place[1] = "memory"    -> Number(IntAt(place[2]))
      [] place[1] = "register"  -> Number(place[2])
      [] place[1] = "gone"      -> Gone
      [] place[1] = "reference" -> <<"reference", place[2]>>
      [] place[1] = "text"      -> Shown(place[2])

\* The expressions a plugin prints: a variable, an element of a string, the
\* memory behind a reference, a literal, or a variable plus one.
Evaluated(e) ==
    CASE e[1] = "literal" -> Number(e[2])
      [] e[1] = "deref"   -> Number(IntAt(e[2]))
      [] e[2] \notin DOMAIN Here -> Threw
      [] e[1] = "var"     -> Stored(Here[e[2]])
      [] e[1] = "elem"    ->
            LET s == Here[e[2]][2]
            IN  IF e[3] < Len(s) THEN <<"char", s[e[3] + 1]>>
                ELSE IF e[3] = Len(s) THEN <<"char", 0>> ELSE Garbage
      [] e[1] = "sum"     -> LET n == Stored(Here[e[2]])
                             IN  IF n[1] = "number" THEN Number((n[2] + 1) % 16) ELSE Threw

\* "&" + e, which for a sum is one behind the variable.
AddressOf(e) ==
    IF e[1] \in {"var", "sum"} /\ e[2] \in DOMAIN Here /\ Here[e[2]][1] = "memory"
    THEN Hex(Here[e[2]][2] + (IF e[1] = "sum" THEN SizeOf ELSE 0)) ELSE Threw

\* A chunk for each run of cells that can be read; an error when there is none.
Chunks(a, size) ==
    LET in    == {x \in Cells : x >= a /\ x < a + size}
        first == {x \in in : x - 1 \notin in}
        last(x) == CHOOSE y \in in : y >= x /\ y + 1 \notin in /\ x..y \subseteq in
        nth(i) == CHOOSE x \in first : Cardinality({y \in first : y < x}) = i - 1
        chunk(x) == Tuple(<<T("begin", Hex(x)), T("offset", Hex(x - a)), T("end", Hex(last(x) + 1)),
                            T("contents", <<"bytes", [i \in 1..(last(x) + 1 - x) |->
                                                          memory[x + i - 1]]>>)>>)
    IN  [i \in 1..Cardinality(first) |-> chunk(nth(i))]

data_read_memory_bytes(a, size) ==
    IF Chunks(a, size) = <<>> THEN Threw
    ELSE parse_result({Req("memory", ListOf(Of(read_memory_bytes)))},
                      <<<<"memory", Values(Chunks(a, size))>>>>)[2]["memory"]

-----------------------------------------------------------------------------
(* Values (frame_impl.cpp 53-172): value_ref takes a pointer apart from    *)
(* the string behind it, char_t the number from its character.             *)

\* A cstring without "..." leaves ellipsis as it was, uninitialized.
Var(value, prefix, ellipsis) == [value |-> value, cstring |-> prefix, ellipsis |-> ellipsis]

value_ref(shown, uninitialized) ==
    IF shown[1] = "pointer"
    THEN Var(Word("address"), shown[2], shown[3] \/ uninitialized)
    ELSE Var(shown, <<>>, uninitialized)

char_t(value) == IF value[1] = "char" THEN Number(value[2]) ELSE value

\* For a reference gdb prints "&*" + id.  It takes the two operators away, and
\* the reference too: it prints what the reference refers to, as for id alone.
\* The value behind a reference is assigned to the string the parser is still
\* reading: what is found in the rest of it is garbage, or nothing.
Behind(value) == {value, Garbage}

parse_var(id, shown, uninitialized) ==
    IF shown[1] = "reference"
    THEN {Var(v, <<>>, uninitialized) : v \in Behind(Hex(IntAt(shown[2])))}
    ELSE {value_ref(shown, uninitialized)}

Bit(n, pos) == (n \div 2^pos) % 2

\* The bytes of memory from the last to the first, each from its highest bit.
MemoryBits_FirstByteFirst(bytes) ==
    [i \in 1..(ByteBits * Len(bytes)) |->
        Bit(bytes[1 + ((i - 1) \div ByteBits)], (ByteBits - 1) - ((i - 1) % ByteBits))]

MemoryBits(bytes) ==
    [i \in 1..(ByteBits * Len(bytes)) |->
        Bit(bytes[Len(bytes) - ((i - 1) \div ByteBits)], (ByteBits - 1) - ((i - 1) % ByteBits))]

\* The bits of a number from the highest that is set; "0" when none is.
NumberBits(n) ==
    LET width == CHOOSE w \in 1..(ByteBits * SizeOf) :
                    /\ n < 2^w
                    /\ w > 1 => n >= 2^(w - 1)
    IN  [i \in 1..width |-> Bit(n, width - i)]

\* The values print may return.  is_var is true of what does not begin with a
\* letter, so that memory is read for all that does.
print(e, bitwise) ==
    LET is_var   == e[1] \in {"literal", "deref"}
        address  == AddressOf(e)
        bytes    == data_read_memory_bytes(address[2], SizeOf)
        val      == Evaluated(e)
        values   == IF val[1] = "reference" THEN Behind(Evaluated(<<"deref", val[2]>>))
                    ELSE {char_t(value_ref(val, FALSE).value)}
        bits(v)  == CASE v[1] = "number" -> <<"bits", NumberBits(v[2])>>
                      [] v = Gone        -> v
                      [] v = Word("address") -> <<"bits", <<0>>>>      \* base 10 of "0x..."
                      [] OTHER           -> Threw
    IN  IF bitwise /\ ~is_var /\ address # Threw /\ bytes # Threw
        THEN {<<"bits", MemoryBits(bytes[2][1][2]["contents"][2])>>}
        ELSE IF val = Threw THEN {Threw}
        ELSE IF bitwise THEN {bits(v) : v \in values} ELSE values

-----------------------------------------------------------------------------
Main == [addr |-> 0, vars |-> [x \in {"n", "s"} |-> IF x = "n" THEN <<"memory", 2>>
                                                     ELSE <<"text", <<2, 2>>>>]]

Init ==
    /\ MapInit /\ told = {}
    /\ stack = <<Main>> /\ selected = 0
    /\ memory = [a \in Cells |-> (2 * a + 1) % ByteSize]
    /\ args = <<>> /\ nameMap = <<>>
    /\ got = Call("run", <<>>, None)
    /\ stops = 0 /\ ops = 0

Bkpt(number, places) ==
    <<T("number", Number(number)), T("type", Word("breakpoint")), T("disp", Word("keep")),
      T("enabled", Word("y")),
      T("addr", IF Len(places) = 1 THEN Hex(places[1]) ELSE Word("<MULTIPLE>")),
      T("file", Word("f.cpp")), T("times", Number(0)), T("original-location", Word("f"))>>

Place(number, i, place) ==
    Tuple(<<T("number", <<"part", number, i>>), T("enabled", Word("y")), T("addr", Hex(place))>>)

\* What gdb answers: a breakpoint of several places is followed by a tuple
\* without a name for each of them (external).
Inserted(number, places) ==
    <<<<"bkpt", Tuple(Bkpt(number, places))>>>>
    \o (IF Len(places) = 1 THEN <<>>
        ELSE [i \in DOMAIN places |-> <<Unnamed, Place(number, i, places[i])>>])

\* The results named "bkpt".
break_insert(number, places) ==
    LET parsed == result_record_rule(Line(Inserted(number, places)), Unnamed)
        named  == SelectSeq(parsed.val, LAMBDA r : r[1] = "bkpt")
    IN  [i \in DOMAIN named |-> parse_result(breakpoint, named[i][2][2])[2]]

\* Mutant: the break_points are counted.
numberIn_Counted(bpv) == next + 1

numberIn(bpv) == bpv[1]["number"][2]

\* _init_bps: the next break_point is set, and told where.
InitBp ==
    /\ LET bp     == BreakPoints[next + 1]
           places == Locations[bp]
           bpv    == break_insert(Len(numbers) + 1, places)
           file   == IF "file" \in DOMAIN bpv[1] THEN bpv[1]["file"] ELSE Word("")
       IN  /\ SetBp(numberIn(bpv))
           /\ told' = IF places = <<>> THEN told
                      ELSE told \union
                        {IF Len(bpv) = 1 THEN <<"set_at", bp, bpv[1]["addr"], file>>
                         ELSE <<"set_multiple", bp, bpv[1]["addr"], Len(bpv) - 1>>}
    /\ UNCHANGED <<targetVars, argVars, got, stops, ops>>

-----------------------------------------------------------------------------
(* A stop (process.cpp 169-236).                                           *)

\* gdb's list of the arguments: a parameter that was changed since the call
\* has an entry of its own for the value it was called with (external).
Entries(params, places, entry) ==
    [i \in DOMAIN params |-> <<params[i], Stored(places[params[i]])>>]
    \o (IF entry /\ "n" \in DOMAIN places THEN <<<<"n@entry", Number(0)>>>> ELSE <<>>)

\* Mutant: the names that were read at any address are taken.
argNames_AnyAddress(addr) ==
    IF nameMap # <<>> THEN nameMap[CHOOSE a \in DOMAIN nameMap : TRUE] ELSE Params[addr]

\* The names are read once for each address, without the entry values.
argNames(addr) == IF addr \in DOMAIN nameMap THEN nameMap[addr] ELSE Params[addr]

\* What the parameters of a function may be.
PlacesOf(name) ==
    CASE name = "n" -> {<<"memory", 0>>, <<"register", 6>>, <<"gone">>}
      [] name = "s" -> {<<"text", s>> : s \in Strings}
      [] name = "r" -> {<<"reference", 2>>}

Given(params) ==
    LET names == {params[i] : i \in DOMAIN params}
    IN  {v \in [names -> UNION {PlacesOf(x) : x \in names}] : \A x \in names : v[x] \in PlacesOf(x)}

\* gdb stops at an enabled breakpoint; _handle_bps reads the arguments before
\* the break_point is invoked.
HandleBp ==
    /\ next = Len(BreakPoints) /\ stops < MaxStops /\ stops' = stops + 1
    /\ \E num \in DOMAIN numbers : \E i \in DOMAIN numbers[num].places :
       \E vars_ \in Given(Params[numbers[num].places[i]]), entry, uninitialized \in BOOLEAN :
        LET addr    == numbers[num].places[i]
            params  == Params[addr]
            args_in == Entries(params, vars_, entry)
            names   == argNames(addr)
            found(id) == {j \in DOMAIN args_in : args_in[j][1] = id}
            arg_(id)  == IF found(id) = {} THEN {[id |-> Unnamed, var |-> Var(Word(""), <<>>, uninitialized)]}
                         ELSE LET shown == args_in[CHOOSE j \in found(id) : TRUE][2]
                              IN  {[id |-> id, var |-> v] : v \in parse_var(id, shown, uninitialized)}
        IN  /\ numbers[num].enabled
            /\ stack' = <<[addr |-> addr, vars |-> vars_], Main>> /\ selected' = 0
            /\ args' \in {a \in [DOMAIN names -> UNION {arg_(names[j]) : j \in DOMAIN names}] :
                            \A j \in DOMAIN names : a[j] \in arg_(names[j])}
            /\ nameMap' = [a \in DOMAIN nameMap \union {addr} |->
                              IF a = addr THEN names ELSE nameMap[a]]
            /\ got' = Call("invoke", bpMap[num], addr)
    /\ UNCHANGED <<mapVars, told, memory, ops>>

-----------------------------------------------------------------------------
(* The frame functions.                                                    *)

Op(call) ==
    /\ stops > 0 /\ ops < MaxOps /\ ops' = ops + 1
    /\ got' = call
    /\ UNCHANGED <<told, argVars, stops>>

Select(level) ==
    /\ Op(Call("select", level, IF level < Len(stack) THEN None ELSE Threw))
    /\ selected' = IF level < Len(stack) THEN level ELSE selected
    /\ UNCHANGED <<mapVars, stack, memory>>

WithInt(a, n) == [memory EXCEPT ![a] = n % ByteSize, ![a + 1] = n \div ByteSize]

\* set: "x = n", evaluated in the selected frame.
Set(x, n) ==
    LET place == IF x \in DOMAIN Here THEN Here[x] ELSE <<"gone">>
    IN  /\ Op(Call("set", <<x, n>>, IF place[1] = "gone" THEN Threw ELSE None))
        /\ memory' = IF place[1] \in {"memory", "reference"} THEN WithInt(place[2], n) ELSE memory
        /\ stack' = IF place[1] = "register"
                    THEN [stack EXCEPT ![selected + 1].vars[x] = <<"register", n>>] ELSE stack
        /\ UNCHANGED <<mapVars, selected>>

PrintValue(e, bitwise) ==
    /\ \E value \in print(e, bitwise) : Op(Call("print", <<e, bitwise>>, value))
    /\ UNCHANGED <<mapVars, targetVars>>

RECURSIVE RestOf(_, _)

\* The loop of get_cstring: print(id[idx++]) until it is 0.
RestOf(id, idx) ==
    LET p == CHOOSE v \in print(<<"elem", id, idx>>, FALSE) : TRUE
    IN  IF p[1] # "number" THEN <<Garbage>>
        ELSE IF p[2] = 0 THEN <<>> ELSE <<p[2]>> \o RestOf(id, idx + 1)

\* Mutant: the rest begins one character late.
get_cstring_Late(arg_) ==
    IF arg_.var.ellipsis THEN arg_.var.cstring \o RestOf(arg_.id, Len(arg_.var.cstring) + 1)
    ELSE arg_.var.cstring

get_cstring(arg_) ==
    IF arg_.var.ellipsis THEN arg_.var.cstring \o RestOf(arg_.id, Len(arg_.var.cstring))
    ELSE arg_.var.cstring

GetCstring(i) ==
    /\ i \in DOMAIN args
    /\ args[i].id = "s" /\ "s" \in DOMAIN Here
    /\ Op(Call("get_cstring", i, get_cstring(args[i])))
    /\ UNCHANGED <<mapVars, targetVars>>

\* call: the function may write to memory; "void" is none.
CallFunction ==
    /\ \E value \in {None, Number(1)} : Op(Call("call", <<>>, value))
    /\ \E n \in {0, 9} : memory' = WithInt(2, n)
    /\ UNCHANGED <<mapVars, stack, selected>>

\* regs: a register is kept when its number is beyond the names: none is.
Regs ==
    LET names == <<"r0", "r1">>
        numbered == {[number |-> i - 1, name |-> names[i]] : i \in DOMAIN names}
    IN  /\ Op(Call("regs", <<>>, {r \in numbered : r.number > Len(names)}))
        /\ UNCHANGED <<mapVars, targetVars>>

Backtrace ==
    /\ Op(Call("backtrace", <<>>, [i \in DOMAIN stack |-> <<i - 1, stack[i].addr>>]))
    /\ UNCHANGED <<mapVars, targetVars>>

\* addr2line: the instruction at addr, if one begins there (bound: at the
\* even addresses), of the code that has lines.
Addr2line(addr) ==
    /\ Op(Call("addr2line", addr,
               IF addr \notin DOMAIN Params THEN None
               ELSE <<"line", IF addr % 2 = 0 THEN <<"function", addr>> ELSE None>>))
    /\ UNCHANGED <<mapVars, targetVars>>

Enable(bp, on) ==
    /\ Op(Call(IF on THEN "enable" ELSE "disable", bp, None))
    /\ EnableBp(bp, on)
    /\ UNCHANGED targetVars

RECURSIVE copied(_, _)

\* Mutant: a chunk is copied to where it begins in memory.
offset_Begin(chunk) == chunk["begin"][2]

\* Where a chunk is copied to, which is read in base 10 from "0x...".
offset(chunk) == chunk["offset"][2]

\* The chunks one after the other; resize cuts what is behind a chunk.
copied(vec, chunks) ==
    IF chunks = <<>> THEN vec
    ELSE LET chunk == chunks[1][2]
             bytes == chunk["contents"][2]
             at    == offset(chunk)
         IN  copied([i \in 1..(at + Len(bytes)) |->
                        IF i > at THEN bytes[i - at] ELSE IF i <= Len(vec) THEN vec[i] ELSE 0],
                    Tail(chunks))

ReadMemory(a, size) ==
    LET data == data_read_memory_bytes(a, size)
    IN  /\ Op(Call("read_memory", <<a, size>>, IF data = Threw THEN Threw ELSE copied(<<>>, data[2])))
        /\ UNCHANGED <<mapVars, targetVars>>

WriteMemory(a, bytes) ==
    LET cells == a..(a + Len(bytes) - 1)
    IN  /\ Op(Call("write_memory", <<a, bytes>>, IF cells \subseteq Cells THEN None ELSE Threw))
        /\ memory' = IF cells \subseteq Cells
                     THEN [x \in Cells |-> IF x \in cells THEN bytes[x - a + 1] ELSE memory[x]]
                     ELSE memory
        /\ UNCHANGED <<mapVars, stack, selected>>

\* return_: the frame is gone, and the arguments are those of a frame no more.
Return ==
    /\ Len(stack) = 2
    /\ Op(Call("return_", <<>>, None))
    /\ stack' = Tail(stack) /\ selected' = 0
    /\ UNCHANGED <<mapVars, memory>>

Next ==
    \/ InitBp
    \/ HandleBp
    \/ \E level \in 0..2 : Select(level)
    \/ \E x \in {"n", "r"}, n \in {0, 9} : Set(x, n)
    \/ \E e \in {<<"var", "n">>, <<"sum", "n">>, <<"literal", 6>>}, bitwise \in BOOLEAN :
            PrintValue(e, bitwise)
    \/ PrintValue(<<"var", "r">>, FALSE)
    \/ \E i \in 1..2 : GetCstring(i)
    \/ CallFunction
    \/ Regs
    \/ Backtrace
    \/ \E addr \in DOMAIN Params \union {1} : Addr2line(addr)
    \/ \E bp \in DOMAIN Locations, on \in BOOLEAN : Enable(bp, on)
    \/ \E a \in {0, 1, 3, 4}, size \in {1, 3} : ReadMemory(a, size)
    \/ \E a \in {1, 4}, bytes \in {<<3>>, <<2, 1>>} : WriteMemory(a, bytes)
    \/ Return

Spec == Init /\ [][Next]_vars

-----------------------------------------------------------------------------
(* Properties.                                                             *)

\* A break_point is invoked for a place it names, with the parameters of the
\* function there, in their order, each with its own value, although gdb adds
\* entry values and the names are read at the first stop of an address only.
ArgsTold ==
    got.op = "invoke" =>
        LET params == Params[got.value]
        IN  /\ \E i \in DOMAIN Locations[got.on] : Locations[got.on][i] = got.value
            /\ [i \in DOMAIN args |-> args[i].id] = params
            /\ \A i \in DOMAIN args :
                 LET place == Here[params[i]]
                 IN  CASE place[1] = "reference" -> TRUE
                       [] place[1] = "text" -> args[i].var.cstring = Stored(place)[2]
                       [] OTHER -> args[i].var.value = Stored(place)

\* get_cstring returns the whole string, however much of it gdb showed with the
\* arguments, in the frame the break_point is in (frame.hpp 216-237).
StringWhole ==
    got.op = "get_cstring" /\ selected = 0 /\ Len(stack) = 2 =>
        got.value = Here[args[got.on].id][2]

\* Of memory that can be read, read_memory returns what is there, whatever was
\* written to it before as memory or as a variable.
MemoryRead ==
    got.op = "read_memory" =>
        LET a == got.on[1]
            size == got.on[2]
        IN  a..(a + size - 1) \subseteq Cells =>
                got.value = [i \in 1..size |-> memory[a + i - 1]]

\* The bits of a variable or a number are those of its value, read from memory
\* or taken from the printed number.
BitsRight ==
    got.op = "print" /\ got.value[1] = "bits" /\ got.on[1][1] # "sum" =>
        LET bits == got.value[2]
            value[i \in 0..Len(bits)] == IF i = 0 THEN 0 ELSE 2 * value[i - 1] + bits[i]
        IN  Number(value[Len(bits)]) = Evaluated(got.on[1])

\* break_point.hpp 74: set_multiple "is called when the breakpoint is set multiple
\* times".  Violated: the tuples behind the first are not named "bkpt".
MultipleTold ==
    \A call \in told : Len(Locations[call[2]]) > 1 => call[1] = "set_multiple"
=============================================================================
