# watgo in TLA+

watgo is a WebAssembly toolchain in Go: it reads the text and the binary format
into one semantic module (`wasmir.Module`), validates it, writes it out again,
and runs it on an interpreter. This directory holds TLA+ models of its core,
the TLC configurations that check them and proofs that TLAPS checks.

    tlc -config Pipeline.cfg MCPipeline         model-check one run
    tlapm StoreProofs.tla                       check the proofs of one module

`PROJECT.json` lists the runs with the properties of each, the source lines
every definition models (`map`), the hazards the properties are for, and a
deliberately wrong variant of the code for every property of every run
(`mutants`; in the modules they are the definitions marked "Mutant").

## 1. Inventory

| Component | Code | State | Operations | Modelled by |
|---|---|---|---|---|
| Text lexer and S-expressions | `textformat/lexer.go`, `sexpr.go` | position, parenthesis nesting | next token, parse an expression | not modelled |
| Text parser and lowering | `textformat/parser.go`, `lower.go` | name tables, label scopes | AST to `wasmir`, folded to flat code | not modelled |
| Numeric literals | `numlit/numlit.go` | none | parse integers and floats at a width | not modelled |
| Binary decoder, encoder | `binaryformat/*.go` | reader position, seen sections, counts still owed | sections, LEB128, code bodies | `Binary`, `Sections`, `Codec` |
| Printer | `printer/printer.go` | indentation | `wasmir` to text | not modelled |
| Validator, module level | `validate/validate.go` | index spaces | limits, exports, segments, constant expressions | assumptions of `Store` |
| Validator, function bodies | `validate/validate.go` `bodyValidator` | operand stack of types, control frames, set locals, dead flag | one rule per instruction | `Validate`; the signatures in `Values`, the GC rules in `Objects` |
| Type equivalence | `typeequiv/typeequiv.go` | memo and comparisons in progress of a call | equality and subtyping of recursive types | `TypeEquiv` |
| Reference matching | `validate/validate.go`, `vm/execute.go` | none | static and run-time subtyping of references | `RefTypes` |
| Compiler to linear form | `vm/compile.go` | label stack, matched openers | `analyzeControl`, `compileFunction` | `Compile` |
| Executor, control | `vm/execute.go` | per frame: operands, labels, locals, pc | one case per instruction | `Execute`, `Structured` |
| Executor, values | `vm/execute.go` | operands | numeric, vector, memory and table instructions | `Numbers`, `Floats`, `Lanes`, `Values` |
| GC objects | `vm/instance.go`, `vm/execute.go` | objects on Go's heap, tags of values | struct, array, i31, cast and conversion instructions | `Objects` |
| Instances and shared store | `vm/instance.go`, `wasmvm/wasmvm.go` | memories, tables, segments, phases of instantiation | `Instantiate`, memory and table instructions | `Store` |
| Calls and host re-entry | `vm/instance.go`, `vm/execute.go` | call depth of each instance | call, indirect call, tail call, host callback | `Calls` |
| Exception references | `vm/instance.go` | exception table of each instance | catch_ref, throw_ref | within a frame `Execute`, across frames `Calls` |
| Instruction catalogue | `instrdef/` | none | opcodes, operands and fixed signatures | looked up in `Binary`, applied in `Values` |
| API, CLI, diagnostics | `watgo.go`, `cli/`, `diag/` | none | sequential composition | not modelled |

**How they interact.** Text or binary becomes a `wasmir.Module`, which is
immutable from then on. `ValidateModule` accepts or rejects it.
`Instantiate` compiles every body, resolves imports by pointer (a memory, table,
global or tag is shared, never copied), builds memories, tables and segments,
applies the segments, runs the start function, and returns the instance, whose
exports can then be imported. There are no goroutines and no locks. What makes
the system hard is not parallelism but *trust* and *sharing*:

* the executor trusts the validator. It keeps one flat operand stack per frame and
  a stack of labels with heights; it does not know which values belong to which
  label. Validator, compiler and executor each keep a control stack of their own
  over the same body, and the three must agree at every instruction, however
  it is reached;
* the host and all instances hold memories and tables by pointer. Code of one instance
  runs between the checks and the uses of another: a start function calls the
  host, the host calls other instances, and they grow and write what is shared;
* objects are shared by all modules, but a type index means something in one module only. A
  value carries a tag with such an index from module to module; the validator knows
  declared types, the executor kinds, tags and the owner of an object;
* `Instantiate` fails half way. What it has written into shared tables
  and memories stays, including references to functions of the failed instance;
* sizes and addresses are 64-bit words, so a sum can wrap;
* the decoder and the encoder write down the binary format twice, by hand.

**What makes each part correct.** Bodies: a validated body never makes the executor
fail internally, never runs code the validator held unreachable, and the operand stack
is always what the validator computed; the flat machine implements structured
control; an exception goes to the innermost handler. Compiler: it accepts whatever the validator accepts, and every
target is the one the label means. Values: results are exact at the edges of every width. Objects: whatever
is stored has the type it is declared with, and a cast says what static subtyping says of
the most special type of the value. Store: bounds checks are exact in machine arithmetic;
link-time checks stay true; a failed instance is never half usable; spent segments stay spent.
Type equivalence: memoised answers equal the greatest fixed point. Codec: what is encoded is decoded to the same module, and the decoder
accepts exactly what is well formed. Calls: depth is given back on every path; an exception reference
means the same exception wherever it is thrown again.

The full list of hazards, each at its line, is `hazards` in `PROJECT.json`.

## 2. Modules

### Pipeline: validator, compiler, executor on one function

| Module | Models | State |
|---|---|---|
| `Wasmir` | instructions and types of `wasmir/module.go` | none |
| `Validate` | `bodyValidator.validate` and its helpers | `body`, `val` (operand slice and control frames), `verdict`; history `typing` |
| `Compile` | `analyzeControl`, `compileFunction` | none: functions from a body to code |
| `Execute` | `run` and its helpers on one frame | `code`, `pc`, `stack`, `locals`, `labels`, `status` |
| `Structured` | abstract: a stack of values per label, no flat stack, no failure | `mode`, `operands`, `shapes` |
| `Pipeline` | the three composed; the properties | all of the above |
| `Soundness` | the inductive invariant of `Pipeline` | none |
| `CompileProofs` (validator and compiler), `PipelineProofs` (executor, properties) | proofs | none |
| `MCPipeline` | instruction sets, tags and functions for TLC | none |

`Validate` chooses the body one instruction at a time while it validates it, so TLC
enumerates every body of a given length over an instruction set; a
diagnostic leads to `rejected`, where nothing else happens. A body that passes is
compiled and run (`Instantiate`), and every path through it is taken: a
number is its type, so a condition may go either way and `br_table` may select any
target, a call may return, trap or throw.

The operand stack of the validator is modelled as the Go slice it is, a backing array
(`slots`) and a length (`height`): truncation does not clear the array and
`else` truncates to a length that may be *larger*. One of the findings lives there.
A body that goes on after the `end` of its function frame (`GoesOn`) is modelled as the code has it: the validator may accept it
with an `end` in the last position, and `compileFunction` answers as it does (divergence 1).

`Structured` lets an exception be caught at any label, so that the order in which handlers are tried does not follow from the refinement.
`HandledFirst` is about that: it looks for the clauses that match in the nesting of the body alone (`OpenerOfFrame`, `EndOfFrame`), without
the run-time labels, and says which of them takes the exception and where execution goes on.

In `Execute`, `fault` stands for every error the executor can report that is not a
wasm trap or an exception: operand missing, wrong type, label underflow,
bad target. Program counters start at 1 rather than 0; targets are one *before* the
instruction that runs next, as in the code.

Not in these modules: what numbers and vectors are worth, memory and table instructions (`Values` on one stack, `Store`
on shared areas), GC instructions (`Objects`), and the operand hints with which the validator counts operands of folded
source in dead code.

### Store: instances, memories, tables and segments

`Store` models `Instantiate` as the stages the code runs (build memories, build tables, build
segments, apply element segments one by one, then data segments, start, live), each with
its failures, and the memory and table instructions as operations of code that
may run between them: `busy` keeps the stages of one `Instantiate`, which nothing interrupts, together
up to the start function. A `Memory` and a `Table` are both an *area*: cells, a limit and an
owner (a history field: who made it). A function reference is the instance that owns the function.
The maximum word is a constant, so wrap-around is within reach of TLC.
`last` records whether the last operation succeeded and whether, in unbounded arithmetic, it
should have.

What `Store` assumes of a module (`ModuleAssumption`) is what `ValidateModule` guarantees: ordered limits within the
address space, segments that name memories and tables that exist.
What it assumes of numbers (`StoreAssumption`): `MaxPages * PageSize <= MaxWord + 1`, which holds for 65536 pages
of 65536 bytes in a 64-bit word.

Who can run code of an instance: a started or live one always; a failed one only through a
reference that a table others can reach still holds (`CanRun`, `Leaked`).
Globals, tags and the linking of functions are left out.

### Calls: the call stack, the depth counters, exception references

`Calls` models what `CallFunc`, the call instructions and the resolver do with Go's stack. An *activation* is the host
program or a callback (`host`), `CallFunc` on an imported function (`import`), or an executor frame
(`wasm`). The top of `stack` runs, the rest waits for a call or, in a tail call that could not reuse its
frame, for results it only hands on (`waits`). `depth` is `callDepth` of each instance and `exns` its table of exceptions.
What goes down the stack, results, a trap or an exception, is `signal`; each activation it reaches takes it, hands
it on or handles it, one step each, as Go returns from one function at a time.

What functions do is left open: a running activation may call any instance or callback, return, throw, trap, or
make a tail call. So the model covers every program over these instances, and a recursion that alternates between modules and
callbacks as well as one that stays in a module. A host callback may call back, keep an error to itself, hand it on, or
panic; Go code that recovers is a host activation further down (`Panics`).
Arguments and results are reduced to the exception references among them; `SharesRefs` says whether modules pass
references to each other. `of`, the exception that a reference was made for, is history.

Left out: which function an index, table entry or reference names; argument and result checks (a failing
one is a trap); references kept in globals, tables or payloads; an error that a host keeps and returns in a later call.

### TypeEquiv: equivalence and declared subtyping of types

`TypeEquiv` models one call of `Types`, `TypeSubtype` or the validator's `isTypeIndexSubtype`. Two graphs of types are compared depth first by
mutually recursive functions, so the model has a stack of its own: a *frame* is a comparison in progress, its key in the
`Visiting` maps and the goals it has left; `at` is the comparison about to be made, `known` and `refuted` are the two answers in
the memo. A goal says which function is called: `indices` (`typeIndicesEquivalent`), `member` (`typeIndicesEquivalentInGroup`, or
`typeIndicesEquivalentBody` when there is no group) or `ref` (`typeIndexRefsEquivalentInGroup`). Above it is the walk over declared supertypes,
with its worklist, which starts a new call of `Types` for every supertype.

A type is its *shape* (kind, arity, mutability, packed types, whatever is compared without following an index), its supertypes and
the indices it refers to. The code finds a difference in shape where it meets it, possibly after it has followed earlier
references; the model finds it first. A call is one conjunction, and neither answer depends on the order. Recursion groups lie one after
another, as both readers of modules build them.

What the answers mean is stated without the algorithm. `Indistinguishable` types *look the same*: they are in some relation, a *correspondence*, whose pairs have one shape, one
position in groups of one size and related references that keep to groups of several. `Equivalent` types are so in a correspondence that keeps to groups of one as well, which
is what the comments at `typeequiv.go:15` and 117 promise. The two differ only where types outside of groups, or alone in one, refer to themselves (`SelfReferring`, divergence 2):
`TypesUnfolded` states both. `Ancestors` is a closure.

Left out: `FuncTypeAndSignature` and `FieldTypes`, which start the same comparison in the middle, and the matching of abstract heap types,
which is in `RefTypes`.

### Values: numeric, vector, memory and table instructions

| Module | Models | State |
|---|---|---|
| `Numbers` | Go's integer arithmetic at a width | none |
| `Floats` | floats as bit patterns, rounding, min/max/copysign, conversions | none |
| `Lanes` | a vector as bytes and its lanes in every shape | none |
| `Values` | what each instruction pops, computes and pushes; the signatures validation promised | `prog`, `args`, `pc`, `stack`, `areas`, `out` |
| `MCValues` | all variants of the instructions, samples of operands | none |
| `ValuesProofs`, `FloatsProofs` | proofs | none |

One frame runs a short program on a stack of operands. `Sig` is what the validator knows, from the catalogue's fixed
signatures or from a rule of its own; each action pops what the executor pops, written down a second time
in the code too. `out` is `fault` if an operand is missing or of the wrong type.

The bits of a byte (`ByteBits`) and the formats of floats (`Format`, in units of 2^-`ScaleBits`) are constants. The theorems hold for all of them, so for 8 bits, 23 and 52 bits of
fraction and 8 and 11 of exponent. For TLC a byte has two bits, which brings the edges of all widths together: i8 has 2 bits, i16 4, i32 8, i64 16, a vector 16 bytes
of two bits. A float has an exponent of 4 bits and a fraction of 3 (f32) or 11 bits (f64), with subnormals, infinities and NaNs;
every f32 is an f64, and both formats reach past the integers they are converted to, as in the full formats. A byte of two bits cannot name a lane beyond the last one, so
the indices of a swizzle count in steps of `IndexStep` (1 in the program, 7 for TLC).
Properties compare results with the exact ones: integers with arithmetic without width; sums, roots, roundings and conversions of floats with the nearest float of the
exact result; products and quotients too, compared without dividing; lanes with the scalar instruction per lane; memory with the bytes of a store. TLC's integers have 32 bits, so roots, products and
quotients are judged where the numbers compared are at most `Largest`; the theorems put no bound on it.

The executor computes f32 operations on one operand as f64. `Floats` does so too but for the root, of which it takes the f32 root at once: the f64 of TLC reaches no further below one than
its f32, so it would round twice.

Left out: the payload of the NaN a scalar instruction returns (any NaN is as good as another), and, of the relaxed instructions,
outcomes other than the one the code chooses. Go lets a compiler fuse a product with a sum that follows it, across an assignment too, and some architectures' compilers do. The relaxed multiply-add is modelled
with the two roundings that the comment at `execute.go:5196` speaks of, which is what a build without fusion computes.

### Codec: the binary format

| Module | Models | State |
|---|---|---|
| `Binary` | LEB128, types, opcodes and immediates: one reader and one writer of each | none |
| `Sections` | the payload of every section, read and written; order and pairing | none |
| `Codec` | `EncodeModule`, `DecodeModule` section by section, another producer between them | `phase`, `pass`, `module`, `bytes`, `rest`, `out`, `side`, `seen`, ... |
| `MCCodec` | modules that use every section, entry and immediate | none |

A module is encoded; the bytes may be tampered with (`Tamper`: a byte changed, the end cut off, a section left out,
repeated, moved or added); the decoder reads one section a step; and what it accepts goes through both once more. Opcodes
and section numbers are the real ones. Integers have the length and the unused bits of LEB128 at smaller widths: u32 and s32 are 18 bits
wide (three bytes), s33 19, u64 and s64 22 (four bytes); floats are two and three bytes. `SectionsExact` says what is well formed
without the reader's state; `RoundTrip` compares what was decoded with what was encoded (`Written` says which names and offsets change their form).

Left out: the module that is returned beside diagnostics; instructions that are an opcode and at most a memory argument
are represented by a few of each prefix.

### Objects: structs, arrays and references

| Module | Models | State |
|---|---|---|
| `RefTypes` | reference types, `matchesRefType` and what the validator accepts | none |
| `Objects` | the GC instructions: the rule of validation as guard, the executor as effect | `program`, `heap`, `regs`, `dataDropped`, `elemDropped`, `last` |
| `MCObjects` | two modules that share types, nine mixes of instructions | none |
| `ObjectsProofs` | proofs | none |

A step is one instruction of a validated body of some instance, or a call that hands a value to another one (`Pass`). Which instruction
comes next is open, so operands are kept in *registers*, locals with declared types, and an instruction may take
whatever validation accepts (`Accepts`). A value has a *tag*, the type that travels with it at run time, which conversions, casts
and selects rewrite and which is an index into the types of *some* module. `refMatches` reads tag and kind, `popWant` compares the tag for equality,
`objectMatchesType` compares the type an object was made with. `RuntimeType` is the most special type of a reference, known to the
model only. `last` (history) is the instruction, its outcome and whether it had to fail.

`Subtypes`, the answers of `TypeSubtype`, is a constant here: a preorder that keeps kinds and fields, which is what declared
subtyping guarantees (`SubtypesAssumption`); `TypeEquiv` is about how the code computes it. Numbers
are counted modulo two bytes, and nothing is collected.

The validator accepts a function reference where an `anyref` is wanted, and so does `Accepts`. A cast of such a value to `any` fails at run time
(divergence 3): `CastsExact` says that this is the one cast that disagrees with static subtyping.

## 3. Runs

| Run | Module and cfg | States | Shows |
|---|---|---|---|
| `pipeline` | `MCPipeline`, `Pipeline.cfg` | 834 000 | every accepted body over six instruction sets runs without fault and as validated; the innermost handler takes an exception; refinement of `Structured`; a body without loops ends |
| `pipeline_else` | `MCPipeline`, `PipelineElse.cfg` | violation | finding 1 |
| `calls` | `MCCalls`, `Calls.cfg` | 2.5 million | two instances, callbacks, tail calls, exceptions, traps and panics to depth 2 in each |
| `calls_shared` | `MCCalls`, `CallsShared.cfg` | violation | finding 2 |
| `store_memory` | `MCStore`, `StoreMemory.cfg` | 23 000 | two instances and the host share two memories |
| `store_table` | `MCStore`, `StoreTable.cfg` | 28 000 | two instances and the host share tables; an instantiation fails after it wrote to one |
| `type_equiv` | `MCTypeEquiv`, `TypeEquiv.cfg` | 186 000 | every question about all small type graphs is answered: yes exactly for types that look the same |
| `type_panic` | `MCTypeEquiv`, `TypePanic.cfg` | violation | finding 3 |
| `values` | `MCValues`, `Values.cfg` | 573 000 | every numeric, vector, memory and table instruction in every variant: operands agree with validation, results are exact |
| `codec` | `MCCodec`, `Codec.cfg` | 81 000 | every section, entry and immediate is encoded and decoded twice, and tampered with in between |
| `objects` | `MCObjects`, `Objects.cfg` | 24 000 | two modules make, cast, convert, pass and change objects |
| `objects_exact` | `MCObjects`, `ObjectsExact.cfg` | violation | finding 4 |

**Bounds and why they are enough.** `Alphabets` gives each instruction set its own
bound on the length of a body, the ends that close open frames included: 7 for branches and for conditionals, 8 for exceptions, 9 for handlers in handlers, 6 for
locals and null tests. Length 7 is
three nested frames with an instruction in them, and a branch across two of them; 8 is a `try_table` in a
block with a throw, a catch to the outer block and a use of what was caught; 9 is two `try_table`s in each other that match the same exception, with
a throw in the inner one, a block around, the ends of all, and one more throw, which leaves the frame. The sets are
separate because a body that mixes them shows nothing that the parts do not and the product is out
of reach. Every kind of frame occurs in a set with parameters or results. Because of finding 1 no set has both an `else` and an
`if` with parameters: `IfAlphabet` has the one, `ParamAlphabet` the other. The theorems have no such bounds.
`MaxArity` is 3: `select` takes three operands, and nothing in the sets takes or leaves more.

In the store, two instances and the host are all the roles there are: the owner, an importer, and a third party that
grows in between. Memories have up to two pages of two bytes and words go up to 3, so that every address, length and
delta, the wrapping ones included, is tried with every operation. The modules of `MCStore` are chosen so that imports can be too
small, may grow past what they allow, and a second segment may not fit after the first has been written.

In `calls`, two instances with a limit of two make the Go stack nine deep: the limit is reached in one instance while the other has
room, and callbacks lie in between. Two exceptions kept per instance (`MaxExns`) and two identities are enough to look up a wrong
one. Instances and exceptions are interchangeable, so symmetry is used; no property there is about liveness.

In `type_equiv`, two modules of two types, and one module of two or three, have every cycle a comparison can meet: a type that refers to itself, two that refer to
each other, in one group, in two or in none, and a group beside a type outside of it. Every pair of indices is asked for,
the ones out of range included. Two types per module for a comparison *across* modules is what TLC can do; the theorem `Exactness` has no bound.

In `values`, a program is one instruction, a store and a load, or a drop of a segment and a use of it. Operands are samples of each type that hold the ends of the signed and unsigned
range, zero, one and their neighbours, and for floats both zeroes, the least and the greatest subnormal and normal ones, the limits of every
integer, infinities and NaNs; every tuple of samples is tried. `Largest` is 2^30, which leaves out products near the largest floats only. Memories and tables are small enough for all addresses at their ends, in both address types.

In `codec`, `MaxEdits` is 1: one edit of a small module reaches every check of the decoder's framing, and a second one makes no new
order of two sections. `maxDecodedLocals` is 4 instead of 2^20.

In `objects`, two modules with a struct type, a subtype with a packed immutable field, arrays of structs, of functions and of one and two bytes, the struct and the function
type equivalent in both, are the least in which an object is read through a supertype of another module. At most two objects exist, arrays have up to two elements, a byte two values, words go up to 3. A
program of `Programs` says which instructions, locals and cast types occur together: all at once is out of reach of TLC, and the theorems
have no such bound.

`CHECK_DEADLOCK FALSE` is said for `Pipeline`, `TypeEquiv`, `Store`, `Values`, `Codec` and `Objects` because those systems may stop: a frame returns, a body is
rejected, a question is answered, a module is decoded or refused, a program may have made all its objects and hold nothing to work on, and in `Store` all
instances may have failed with nothing left that can run. In `Calls` the host program can always call again, and deadlock is checked.

**Fairness.** Two properties are about liveness. `LoopFreeEnds` (`pipeline`) needs weak fairness of `Running`, because `run` is a loop that takes the next
instruction whenever a frame is running. Which body is read, and whether anyone calls it, is the environment's choice and not fair.
The callee of a call is assumed to answer, which is part of the call step.
`Answers` (`type_equiv`) needs weak fairness of `Next`: a call of `Types` or a walk is one Go function that nothing interrupts, and the model
has no other steps.

**Mutants.** Every property of every passing run has a variant of the code that breaks it: the label's own depth
off by one, a reachability mark that survives `else`, `normalizeLabelValues` that moves nothing, a bounds check with a sum,
a grow that loses the contents, an import check that ignores the maximum, an instance published although it
failed, a depth given back twice or not at all after an error, a tail caller that takes its results back, a type comparison in
progress that answers no, a walk that visits a type again, a division that traps on zero only, a saturation that misses one end, an address
sum that may wrap, LEB128 padding that is not looked at, sections in the order of their numbers, two cast flags swapped,
handlers searched from the outside, a packed field that keeps the whole operand, a cast that wants the very type an object was made with, a dropped segment that is still read, an array copy into an array
that cannot be written. They are definitions next to the ones they replace.

### Findings

1. **`else` keeps the then arm's types** (`validate.go:1496`). At `else` the operand stack is
   truncated to `entryHeight + len(paramTypes)`, but the slots hold what the then arm left there. In
   `const i32, const i32, if [i32]->[i64], drop, const i64, else, end, end` the else arm is
   typed as if its parameter were an i64; the body validates and the executor meets an i32. (`pipeline_else`)
2. **An exception reference means something else in another module** (`instance.go:482`). A reference is a number
   of the instance that caught the exception, and `throw_ref` looks it up in the instance that executes it. Passed to
   another module, it names another exception or none. (`calls_shared`; `SharesRefs` is FALSE otherwise.)
3. **A supertype out of range** (`validate.go:263`). `ValidateModule` notes such a supertype and goes on; when a later type's declared
   subtyping leads `isTypeIndexSubtype` there, it indexes `m.Types` out of range, where line 568 promises a `diag.ErrorList`. (`type_panic`)
4. **Storing compares types for equality** (`execute.go:5887`). `popWant` wants a value to carry exactly the type of the field. A reference
   to a new object is non-null, so `struct.set`, `array.new`, `array.set` and `array.fill` refuse it for a `(ref null $t)` field,
   which validation accepts and the sample `gc-array-of-structs.wat:14` describes. `TypesNeverMismatch` says that no other check of the
   executor ever fails, with the exception of the width check of `array.new_data` (below). (`objects_exact`)

Three divergences are stated, as exactly as they are, by properties of passing runs and by theorems. Each has also a property that says what the code's comments
promise, and a configuration that checks it on the same small instances and reports a violation; these are kept beside the runs for whoever changes that code:

| Configuration | Property that fails | Property that holds instead |
|---|---|---|
| `tlc -config PipelineEnd.cfg MCPipeline` | `ValidCompiles` | `AcceptedCompiles` |
| `tlc -config TypeSelf.cfg MCTypeEquiv` | `TypesExact` | `TypesUnfolded` |
| `tlc -config ObjectsCasts.cfg MCObjects` | `CastsAgree` | `CastsExact` |

1. **An `end` too many** (`validate.go:4143`). With no frame open, `validate` refuses an `end` only if it is not the last instruction, so
   `const i32, end, end` is accepted, although the comment at 4116 says that the final `end` closes the function's frame. `compileFunction` refuses the body
   (`end without active label`), and `Instantiate` fails on a validated module. `AcceptedCompiles` says that the bodies that go on after the end of their
   frame, and no others, are refused; that all of them are, of any length, is the theorem `OverrunRefused`.
2. **A group of one has no position to refer to** (`typeequiv.go:182`). Types outside of groups are compared by following their references as they are: with type 0 =
   `struct (ref 0)` and type 1 = `struct (ref 0)`, `Types(0, 1)` is true, where the comments at 15 and 117 make them groups of one, of which the first refers to itself and the
   second to another type. Explicit groups of one are treated in the same way.
3. **A cast of a function to `any`** (`execute.go:2201`). By `validate.go:426` every type index may stand where `anyref` is wanted, those of functions too; `refMatches` says that
   a function is not in the hierarchy of `any`. A cast that is an upcast by the validator's rules fails. Nothing is unsound (`HeapTyped`).

More divergences met while modelling:

4. `CallFunc` defers nothing: if a callback panics and Go code below recovers, the calls in between stay counted in `callDepth`
   (`instance.go:404`), which "counts active WebAssembly calls" (line 49). `DepthCovers` and `OnlyPanicsLeak` say what remains true.
5. A table with an initializer is written with `writeLimits` (`encode.go:459`), which has no 64-bit form, the others with `writeTableLimits`.
6. A custom section anchored at a section that is not written again is lost, though `decode.go:300` says that custom sections are kept;
   an element segment of expressions loses its type when it is empty; an active segment that is decoded with an empty offset
   expression cannot be encoded again. `Lossless` excepts the first two and the tables of 5 from `RoundTrip`.
7. A block type index is read with `readS64`, where the comment near `decode.go:2494` speaks of s33.
8. `array.new_data` accepts an array of references (`validate.go:2301`), `array.init_data` does not (2366); the executor then ends
   `array.new_data` with an error about the width. `ref.test` and `ref.cast` may leave their hierarchy (2613).

## 4. Proofs

`StoreProofs` proves for all numbers of instances, memories and tables, all modules, page sizes and word sizes that satisfy the two
assumptions:

| Theorem | States |
|---|---|
| `Invariance` | `Spec => []IInv` |
| `TypeCorrect` | `Spec => []TypeOK` |
| `Keeping` | `GrowKeeps`: areas only grow, keep limit and owner, and a grow keeps the contents |
| `Exactness` | `TrapsExactly`: machine-word bounds checks equal the ones of unbounded arithmetic |
| `Contracts` | `ImportContracts`: what was checked at link time holds for ever |
| `Privacy` | `PrivateUntilLive`: what an instance made is nobody else's before it is live |
| `Callable` | `RefsCallable`: references lead to completely built instances, after failures too |
| `BuiltRuns` | `OnlyBuiltRuns`: code runs only on completely built instances |
| `Spending` | `SegmentsSpent`: whoever runs on an initialized instance finds its active and declarative segments spent |

`CallsProofs` proves for any number of instances, any limits and any exceptions:

| Theorem | States |
|---|---|
| `StackInOrder` | `Spec => []IInv`: types and order of the stack |
| `DepthAlwaysCovers` | `DepthCovers`: active calls <= depth <= limit, panics included |
| `OnlyPanicsEverLeak` | `OnlyPanicsLeak`: every other step keeps depth and active calls in step |
| `DepthCountsUnlessPanics` | `DepthCounts`, without panics |
| `GoStackAlwaysBounded` | `GoStackBounded`: at most `1 + 2 * MaxDepth * Cardinality(Insts)` activations |
| `TailFramesNeverRun` | `TailFramesDone` |
| `OwnRefsResolve` | `RefsResolve`, if modules do not share references (what finding 2 breaks) |

`TypeEquivProofs` proves for all type graphs, of any size, that satisfy `PairsAssumption` (groups lie one after another, a shape fixes the number of
references):

| Theorem | States |
|---|---|
| `TypeCorrect` | `Spec => []TypeOK` |
| `Invariance` | `Spec => []IInv` |
| `Exactness` | `TypesUnfolded`: `Types` says yes exactly for types that look the same, which are the equivalent ones if no type outside of groups refers to itself (divergence 2) |
| `Subtyping` | `SubtypeExact`: the walk over supertypes says yes exactly if an ancestor looks the same |

`ObjectsProofs` proves for any modules, type definitions, segments, functions, programs, widths and bounds that satisfy the
assumptions of `RefTypes` and `Objects`:

| Theorem | States |
|---|---|
| `Invariance` | `Spec => []IInv` |
| `HeapSound` | `HeapTyped`: every register and field holds a value of its declared type |
| `ImmutableFieldsKept` | `ImmutableKept`: immutable fields, types and lengths of objects never change |
| `ChecksNeverFail` | `TypesNeverMismatch`: on validated code only `popWant` and the width check fail |
| `AccessesExact` | `AccessExact`: ranges trap exactly as unbounded arithmetic says, dropped segments included |
| `CastsDecide` | `CastsExact`: a cast says what static subtyping says of the most special type, but for functions cast to `any`, which always fail (divergence 3) |

`ValuesProofs` proves for any width of a byte, float format, samples of operands, memories, tables and programs that satisfy the assumptions of `Numbers`, `Floats`, `Lanes` and
`Values`:

| Theorem | States |
|---|---|
| `OperandsSafe` | `OperandsAgree`: what instructions pop and push is what validation said, whatever the index types |
| `MemorySafe` | `MemoryExact`: accesses and bulk operations trap exactly when they should, change nothing else, and read back what was stored |
| `IntegersSafe` | `IntegersExact`: every integer instruction, rotations and bit counts included, and its traps |
| `ConversionsSafe` | `ConversionsExact`: wrapping, extension, truncation with and without saturation, integers to floats, floats to floats; every trap, the signs of zeros and the payloads of NaNs included |

`FloatsProofs` goes on from there:

| Theorem | States |
|---|---|
| `FloatsSafe` | `FloatsExact`: sums, differences, products, quotients and roots are rounded once, to nearest and even; roundings to integers are exact, those of f32 through f64; signs of zeros, min and max, the canonical NaN |
| `LanesSafe` | `LanesExact`: each lane of each vector instruction's result is what the scalar instruction gives for the lanes it comes from, or the saturated, averaged, widened, multiplied or summed value; masks, swizzles, shuffles and reductions take the bits and bytes they should |

The proofs about `Pipeline` hold for all instruction sets, functions, tags and signatures, for bodies of any length. Those of the validator, the
compiler are in a module of their own, those of the executor come first in `PipelineProofs`; they say what each part does with one instruction:

| Theorem | States |
|---|---|
| `CompileProofs!TypedExtends` | validating one more instruction keeps `Typed` |
| `CompileProofs!CompilesResolved` | a validated body compiles, and what is compiled is `Resolved` |
| `CompileProofs!OverrunRefused` | a body that goes on after the end of its function frame never compiles, whatever follows |
| `PipelineProofs!BranchLands`, `HandlerGoes` | a branch or a handler leads to a label of the validator's, with the operands it wants |
| `Soundness` | `IInv` |
| `TypingSound` | `Validated`, the part of `IInv` that is about the validator, unless the body goes on |
| `NeverFaults` | `NoFault`: the executor never fails internally |
| `AlwaysCompiles` | `AcceptedCompiles`: what compiles is what was validated, except bodies that go on (divergence 1) |
| `DeadCodeStaysDead` | `DeadCodeNeverRuns` |
| `StackAlwaysAgrees` | `StackAgrees`: heights, types, set locals and labels are the validator's |
| `NothingIsLeft` | `NothingLeftBehind` |
| `HandlersInOrder` | `HandledFirst`: the first matching clause of the innermost `try_table` takes an exception |
| `Refinement` | `ImplementsStructured`: every step is a step of `Structured`, or a stutter |
| `AlwaysSafe` | all of these, assuming `Promise` |

These theorems have the form `Spec /\ []ElseHonest => ...`. `ElseHonest` says of every `else` read so far that
the operands the `then` arm left where the parameters of the `if` are have the types of the parameters. Finding 1 is that the validator does not see
to it; the theorems say that it is *all* the validator does not see to. `AlwaysSafe` has no condition on bodies: it assumes (`Promise`) that no
instruction set has both an `else` and an `if` with parameters, where `ElseHonest` is an invariant itself.

**The argument for `Store`.** `TypeOK` alone is not inductive: `BuildMemory` indexes `Module[i].mems` by the number of memories
built so far, and an operation indexes `memories` by what the instance has linked. `IInv` adds
`Linked` (an instance has at most its module's memories and tables, and they exist),
`Sized` (memories are whole pages within their limits; what is not made has no cells) and
`Staged` (exactly the instance that `Instantiate` works on is in building or applying; whoever is past building is complete).
The proof has one lemma per action. `Contracts` needs only `IInv` and that areas grow (`MemoryGrowth`, `TableGrowth`), `Privacy` that only live owners are importable.
`Callable` adds that references to an instance whose building failed
are only in its own tables, which no one else can link. `Spending` needs `SpentSoFar` in `IInv`: when
`Instantiate` has passed a segment that is active, or has built a declarative one, the segment is spent, and no operation gives a segment back.

**The argument for `Calls`.** Every step changes the stack in one of five ways (`Shaped`): the top changes its
state, an activation is put on it by `CallFunc`, or a callback is, the top is left, or a panic cuts the stack. That is proved once,
action by action (`StepShape`); all else is proved from the shapes. `IInv` is not inductive by itself: that `depth` stays a
natural number needs `DepthCovers` (a call is left only if it was entered), and `Counted` joins the two. For `GoStackBounded`, callbacks
inject into the WebAssembly activations they lie on (`Stacked`), and these into `Insts \X 1..MaxDepth` by instance
and rank. `OwnRefsResolve` needs more than it says (`RefsGood`): callbacks hold no references, and what travels in `signal` can
be resolved by the activation it reaches.

**The argument for `TypeEquiv`.** `TypesUnfolded` speaks of the end of a call only. `IInv` says what holds in between, in two halves that share no fact.
`Sound`: call *held* the comparisons answered yes by the memo or by being in progress. Every held comparison has duties (the members of a group, the
references of a type), and each duty is answered yes by what is held, is what `at` comes down to, or is in the `todo` of its frame. At the end nothing is in
progress or left, so the pairs remembered are a correspondence (`KnownCorresponds`), and the two types are in the greatest one. Which comparison supposed which does not
matter, and that is why answers that rest on a supposition may be remembered. `Complete`: any correspondence of the two types relates whatever is still to be compared, so
nothing has been answered no. At the end a no leaves no correspondence. For the walk, every type that was taken from the worklist
is an ancestor and not equivalent to the one asked for, and its supertypes were taken too or are in the worklist (`Walked`); when the worklist is empty, what was taken is closed
under supertypes and so has all ancestors. Where no type of a group of one refers to itself, every correspondence keeps to groups of one too (`GroupedAlready`), which is the second half of `TypesUnfolded`.

**The argument for `Pipeline`.** What relates the three control stacks is the history of validation states, `h[p]` before instruction `p`, and `IInv` (in `Soundness`)
has a part for each component. `Typed`: every state is `Good` (frames lie on top of each other, made-up operands are in dead code only) and, which is what
execution needs, states at a distance have to do with each other: as long as a frame is open, its entry height, its types and the operands under
it are the same (`Same`), and every frame was opened by an instruction of the body. `Resolved`: labels and targets in compiled code are named by
the opener, the else and the end of the frame in `h` that the depth in the source meant. `Fits`: the running frame is an instance of `h[pc]`, which is live.
A jump from `p` to `q` is then a matter of `h` alone: operands under the label's entry are those of `h[q]` because the label's frame spans both, and those above are the label's types.
The final end is apart, as branches to the function's label arrive there even if the validator holds it unreachable. Each instruction of the executor has one lemma.
`analyzeControl` and `compileFunction` are recursive functions on prefixes of the body; a lemma says what one more instruction does to what they return (`Controls`, `Emitted`), and
induction on the length of the prefix is over a set of natural numbers.
All this is about bodies that stop with their function frame. Once a body goes on (`GoesOn`), its prefix up to that end is a validated body, so what is compiled up to there is known and
has no label left (`Overran`), and the next instruction, whichever it is, is one that `compileFunction` refuses or an `end` that is (`OverranRefused`); such a body never runs (`Checked`).

**The argument for `HandledFirst`.** The property reads the body only, so the run-time labels have to be brought to it. By `Fits`, label `i` belongs to frame `i` of `h[pc]`, and `h` says which
instruction opened that frame and which ends it (`OpenerIs`, `EndIs`, `ArrivalIs`). Hence the clauses that the executor finds at a label are those of the `try_table` in the body (`ClausesAre`), and the executor's search,
innermost label first, gives the greatest pair of depth and least clause among all that match (`RaiseTaken`).

**The argument for `ImplementsStructured`.** The refinement mapping cuts the flat stack at the heights of the labels (`Cut`); label `i` of `Structured` has the operands from its height up to
the height of label `i + 1`. For a frame that runs, `IInv` gives what makes that a partition: heights never fall from label to label, start at 0 and end within the stack
(`Layered`). What operations do to the flat stack then has to be seen through the cut. An instruction that takes operands above the top label's height changes the last piece only (`CutTop`, `SmallChanges`); that it takes no
more is what `Fits` says of validated code, and is not checked by the executor. An opener splits the last piece where the parameters begin, an end joins the last two, which needs that nothing lies between the results and the height;
a branch or a handler to label `i` keeps the first `i` pieces and puts the label's operands on top (`Unwound`, `UnwoundLayered`), which is where a wrong height in
`normalizeStackToHeight` would show: it would take values from another piece. Each instruction has a lemma that joins this to what it does to `IInv` (`Moves`). Liveness is no part of `Structured`, so
no fairness is involved. `ArityAssumption` bounds how many operands one step moves, as any finite instruction set does; TLC evaluates it in the runs of `MCPipeline`.

**The argument for `Objects`.** That a value has the type of its place is not inductive: a conversion looks at the tag, an extern reference wraps a value with a tag of its own, and a
cast to a concrete type finds the type of an object. `IInv` says of every register and field that it is `Typed`: *sound* (the
tag fits the kind, the object or function exists, what is wrapped is sound) and of a run-time type that the declared one accepts,
and that objects have the fields of their type. Every instruction has one of four shapes (`Shaped`): nothing changes, a register is set to a typed value,
an object is added, or cells of an object are rewritten, the immutable ones with what they were. `ShapedKeeps` proves once that these keep `IInv`; each instruction has one lemma
that shows its shape. New objects never change what old values are (`Extends`). The outcomes are a second pass over the same actions:
`Right` and `RangeStep` relate the check made to the one that should be. For casts, `CastAgrees` goes through the kinds of references and shows that `refMatches` says
what `matchesRefType` says of the most special type.

**The argument for `Values`.** `OperandsAgree` is inductive with the typing of the stack (`AgreeInv`): every value on it is a number of its type's width, so what is
popped can be computed with. For `MemoryExact` the end of a program has to know its middle (`Midway`): after a store, or after a segment is dropped, the areas are the given ones with just that
change, and a second instruction meets exactly that. Under it lie lemmas about numbers as digits (`Number`, a recursive function): a number has one representation, so the bytes of a
word make up the word, and a word is made of its bytes, and a store followed by a load of another width at another offset is a matter of single bytes.
For `IntegersExact` digits are bits: `and`, `or` and `xor` bit by bit, shifts and rotations as shifts of bit positions, `clz`, `ctz` and `popcnt` from sets of bits, sign extension as bits above
the sign. Division is Go's, towards zero, and wraps at one place. The inductions are over sets of natural numbers, bounded by the number of digits.
For `ConversionsExact` the floats of a format are numbers in units of its least one. `NearestRounds`: what `Nearest` takes (a fraction of a numerator and a denominator, of any size, which is
scaled by the length of its bits and halved to even) is the float between whose middles with its neighbours the number lies, ties on the even one (`Rounds`), and infinity exactly when the number is not
under the middle of the largest float and the one that would follow. That is what the property asks, for formats of any widths. A truncation is compared with the bounds of the integer type, and these with floats.
For `FloatsExact` each result has to be brought to `NearestRounds`. A sum is an integral number of units already. A product is a number of units times 2^-`ScaleBits`, whatever that
leaves below the last unit. A root or a quotient is cut to more bits than the format has, with a last bit that says whether anything was cut off (`Sticky`); a middle of two floats has so few bits that it is on the
same side of what was cut as of the exact result (`RootSide`, `QuotientSide`), and at the middle itself nothing was cut. Ceil, floor, trunc and nearest give integers that are floats or come after the
largest (`IntegralThere`); those of f32 compute on an f64 of the same value (`Widens`), whose result is an f32 again (`Narrows`).
`LanesExact` says of lanes what the theorems above say of scalars, so the work is in the bytes: what is packed into lanes is read from them again (`LanesMade`), and a lane of a given vector is a number
of its width (`LaneNumber`); where a lane is taken from, one or two lanes of half or twice the width, lies in the vector (`HalfPlaces`). Then each family of instructions has a lemma that its lane is the value
asked for: `UnaryFloatNumber` and `FloatNumber` bring float lanes to the scalar instruction, NaNs apart; `SaturatedLane` and `FractionProduct` bound what saturates; a dot product is a recursive function that is unfolded
to its two or four terms (`DotTwo`, `DotFour`). Where the code adds the negated product to a lane, the property subtracts the product from it, hence `AddCommutes`. `LanesMoved`, `LanesTested` and `LanesComputed` sum this up, and one lemma
(`VectorLays`) goes through the ten actions.

**What is assumed.** `TypesAssumption`: fields have known types, an array one field, references name types that exist. `SubtypesAssumption`: declared
subtyping is reflexive and transitive and keeps kind, number of fields, packing and immutability, and an immutable field may be refined, a mutable one not. `RegAssumption`: locals
are nullable references. `SegmentsAssumption`: elements have the type of their segment. `BoundsAssumption`: a byte, an i31 and a word have at least one value. `ByteBitsAssumption`, `IndexStepAssumption`: at least one bit, at least one step.
`FormatAssumption`: the bits of a float are sign, exponent and fraction, one is a float, every f32 is an f64, and there are NaNs that are not the canonical one. `SamplesAssumption`: operands are values of their types. `AreasAssumption`: a memory or table has a size that is a
number of its index type, and at most 2^64 cells. `ProgramsAssumption`: instructions are the catalogue's (`HasOperation`, `HasVectorOperation`: which operation each type and lane shape has, and that lanes exist), name memories and tables that exist, and a program is one instruction, a store and a load after it, or
anything after the drop of a segment, which are the programs whose end the properties describe. TLC evaluates all of them in the runs.

**Only model-checked:** liveness (`LoopFreeEnds`, and `Answers`: that a comparison and a walk end),
which TLAPS cannot treat. The properties of `Codec` (`LebExact`, `SectionsExact`, `RoundTrip`): its readers and writers are recursive operators over data, and what such an operator computes for every
input would need an induction that none of the provers can instantiate.

## 5. Not modelled

* **Text lexer, S-expressions and numeric literals.** They turn characters into a tree and numbers; no state survives a call, and what could go wrong is in the
  characters, which a model would have to spell out. Of `numlit` the three range comparisons would remain.
* **Lowering of the text format.** One operation per syntactic form, over name tables; its result goes through the validator, which is modelled. Label
  scopes and the unfolding of folded instructions are what would be worth modelling next.
* **Constant expressions, globals, tags, linking of functions.** Initializers are evaluated once, in order, without effects on anything shared; `Store` and
  `Objects` start from the values they give. A global is a cell shared by pointer with no operation but get and set.
* **Module-level validation** beyond declared subtyping and what `Store`, `RefTypes` and `Objects` assume: independent checks of index ranges that note a diagnostic and go on.
* **Operand hints.** They change how operands of folded source are counted in dead code, hence which diagnostics appear.
* **Printer, diagnostics, API, command line, spec test harness.** Formatting, wording, file I/O and the sequential composition of the parts.
* `validate.go` 3460-4075 repeats by hand rules that the catalogue already decides before they are reached; the `map` does not claim those lines.

Next in line: label scopes and unfolding.
