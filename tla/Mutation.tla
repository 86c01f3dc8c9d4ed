------------------------------ MODULE Mutation ------------------------------
(***************************************************************************)
(* The mutators of the fuzzer (crates/stratamoto-ir/src/mutators,          *)
(* generators, crates/stratamoto-libafl/src/mutators.rs), stacked on one   *)
(* input: an input rewired, an operation rewritten, another corpus entry   *)
(* appended, a generated fragment inserted.  Each makes a candidate from a *)
(* copy of the input, and the input becomes the candidate when it is valid *)
(* and not too long.                                                       *)
(*                                                                         *)
(* Every random draw is a choice.  Indices start at 1 where the source's   *)
(* start at 0.                                                             *)
(***************************************************************************)
EXTENDS StaticValidity, Replay

CONSTANTS
  Corpus,           \* the corpus: each entry's program, and whether it was scheduled before
  DefinedFlags,     \* defined_flags: the bits each subprotocol defines
  CurrentVersion,   \* CURRENT_VERSION
  Shapes,           \* which optional fields a generated setup may set
  MaxInstructions,  \* MAX_INSTRUCTIONS
  MaxStacked        \* bound on the mutations stacked on one input

ASSUME CorpusAssumption ==
  /\ DOMAIN Corpus = 1..Len(Corpus)
  /\ \A id \in DOMAIN Corpus : /\ Corpus[id].program \in Seq(Instruction)
                                /\ Validates(Corpus[id].program)
                                /\ Corpus[id].scheduled \in BOOLEAN
ASSUME VersionAssumption ==
  CurrentVersion \in Versions /\ CurrentVersion + 1 \in Versions
ASSUME DefinedFlagsAssumption == DefinedFlags \in [Protocols -> SUBSET Flags]
ASSUME ShapesAssumption == Shapes \subseteq SUBSET {"endpoint", "device"}
ASSUME LimitsAssumption == MaxInstructions \in Nat /\ MaxStacked \in Nat

VARIABLES
  current,   \* the corpus entry being mutated
  input,     \* the program as mutated so far
  stacked,   \* how many mutations have been tried
  last       \* history: what the last one made, of what

mutation_vars == <<current, input, stacked, last>>

Instr(op, inputs) == [inputs |-> inputs, operation |-> op]

Nothing == [how |-> [mutator |-> "none"]]

MutationInit ==
  /\ current \in DOMAIN Corpus
  /\ input = Corpus[current].program
  /\ stacked = 0
  /\ last = Nothing

\* acceptable
Acceptable(p) == Len(p) <= MaxInstructions /\ Validates(p)

\* MutationResult::Skipped, with nothing made.
Skip == last' = Nothing /\ UNCHANGED input

\* A candidate c is made: kept, or dropped when it is not acceptable.
Offer(c, how) ==
  /\ last' = [before |-> input, candidate |-> c, how |-> how]
  /\ input' = IF Acceptable(c) THEN c ELSE input

-----------------------------------------------------------------------------
(* InputMutator: one input of one instruction becomes another variable of  *)
(* the type that is in scope there.                                        *)

\* Mutant: the replacement is drawn from what is in scope at the end.
ReplacementsAnywhere(p, k, v) == VisibleOfType(FromPrefix(p), FromPrefix(p).variables[v].var)

\* What get_random_variable draws from when the k-th instruction uses v.
Replacements(p, k, v) ==
  LET b == Builders(p)[k - 1] IN VisibleOfType(b, b.variables[v].var)

MutateInput ==
  LET consumers == {k \in DOMAIN input : input[k].inputs # << >>}
  IN \/ consumers = {} /\ Skip
     \/ \E k \in consumers : \E slot \in DOMAIN input[k].inputs :
          \E v \in Replacements(input, k, input[k].inputs[slot]) :
            IF v = input[k].inputs[slot] THEN Skip
            ELSE Offer([input EXCEPT ![k].inputs[slot] = v], [mutator |-> "input"])

-----------------------------------------------------------------------------
(* OperationMutator: one operation that carries data carries other data.   *)

\* other_index
OtherIndices(i, count) == (0..(count - 1)) \ {i}

\* mutate_operation: what the operation may become, always another.  Where the model does not
\* tell two values apart the operation may look the same.
Rewrites(op) ==
  CASE op.name = "LoadRole"       -> {LoadRole(i) : i \in OtherIndices(op.index, NumRoles)}
    [] op.name = "LoadConnection" -> {LoadConnection(i) :
                                        i \in OtherIndices(op.index, NumConnections)}
    [] op.name = "LoadVersion"    -> {LoadVersion(v) : v \in Versions \ {op.version}}
    [] op.name = "LoadFlags"      -> {LoadFlags(f) : f \in SUBSET Flags}
    [] op.name = "LoadStr"        -> {LoadStr(long) : long \in BOOLEAN}
    [] op.name \in {"LoadPort", "LoadBytes", "LoadDuration", "SendRawFrame"} -> {op}
    [] OTHER                      -> {}

\* The instructions are tried in random order until one can be rewritten.
MutateOperation ==
  LET rewritable == {k \in DOMAIN input : Rewrites(input[k].operation) # {}}
  IN \/ rewritable = {} /\ Skip
     \/ \E k \in rewritable : \E op \in Rewrites(input[k].operation) :
          Offer([input EXCEPT ![k].operation = op], [mutator |-> "operation"])

-----------------------------------------------------------------------------
(* ConcatMutator under IrSpliceMutator: another entry is appended.         *)

\* variable_count
VariableCount(p) == DefinedBefore(p, Len(p) + 1)

Spliced(p, other) ==
  LET offset == VariableCount(p)
  IN p \o [k \in DOMAIN other |->
             [other[k] EXCEPT !.inputs = [j \in DOMAIN @ |-> @[j] + offset]]]

\* Only an entry other than the current one, and one that has been minimized.
Splice ==
  \E id \in DOMAIN Corpus :
    IF id = current \/ ~Corpus[id].scheduled \/ Corpus[id].program = << >> THEN Skip
    ELSE Offer(Spliced(input, Corpus[id].program),
               [mutator |-> "splice", other |-> Corpus[id].program])

-----------------------------------------------------------------------------
(* The generators.  A fragment is the code to insert into a program whose  *)
(* builder is b, and the kind of fragment it is.                           *)

NextVariable(b) == Len(b.variables) + 1

Opened(b, role) ==
  LET n == NextVariable(b)
  IN [code |-> <<Instr(LoadRole(role), << >>), Instr(Plain("Connect"), <<n>>)>>,
      connection |-> n + 1, next |-> n + 2]

\* connection() with ConnectionChoice::Reuse, which the raw frame generator does too: one in
\* scope, a new one only if there is none.
Reused(b, role) ==
  LET open == VisibleOfType(b, <<"Connection">>)
  IN IF open = {} THEN {Opened(b, role)}
     ELSE {[code |-> << >>, connection |-> c, next |-> NextVariable(b)] : c \in open}

\* Mutant: a connection the program has is taken when there is one.
FreshIfNone(b, role) == Reused(b, role)

\* connection() with ConnectionChoice::Fresh.
Fresh(b, role) == {Opened(b, role)}

\* The variables setup() defines.
SetupDefines(shape) ==
  6 + (IF "endpoint" \in shape THEN 2 ELSE 0) + (IF "device" \in shape THEN 4 ELSE 0)

\* setup(): the code that builds and sends one SetupConnection on connection c, its first
\* variable numbered n.
Setup(n, c, p, min, max, flags, shape) ==
  LET m      == n + 3
      vendor == IF "endpoint" \in shape THEN n + 6 ELSE n + 4
      str    == Instr(LoadStr(FALSE), << >>)
  IN <<Instr(LoadVersion(min), << >>), Instr(LoadVersion(max), << >>),
       Instr(LoadFlags(flags), << >>), Instr(Plain("BeginBuildSetupConnection"), << >>),
       Instr(Plain("SetVersions"), <<m, n, n + 1>>), Instr(Plain("SetFlags"), <<m, n + 2>>)>>
     \o (IF "endpoint" \in shape
           THEN <<str, Instr(Plain("LoadPort"), << >>),
                  Instr(Plain("SetEndpoint"), <<m, n + 4, n + 5>>)>>
           ELSE << >>)
     \o (IF "device" \in shape
           THEN <<str, str, str, str,
                  Instr(Plain("SetDeviceInfo"),
                        <<m, vendor, vendor + 1, vendor + 2, vendor + 3>>)>>
           ELSE << >>)
     \o <<Instr(WithProtocol("EndBuildSetupConnection", p), <<m>>),
          Instr(WithProtocol("SendSetupConnection", p), <<c, n + SetupDefines(shape) - 2>>)>>

\* The roles a generator draws from.
Roles == 0..(Max({NumRoles, 1}) - 1)

\* SetupConnectionGenerator, as AnyRoleSetup makes it.
ConformingSetups(b) ==
  UNION {{[kind |-> "conforming",
           code |-> c.code \o Setup(c.next, c.connection, p, CurrentVersion, CurrentVersion,
                                    flags, shape)] :
            flags \in SUBSET DefinedFlags[p], shape \in Shapes, c \in UNION {Fresh(b, r) : r \in Roles}} :
         p \in Protocols}

\* The versions, the flags and what precedes the setup, for each SetupViolation and a
\* conforming choice of flags.
Violating(v, p, flags) ==
  CASE v = "EmptyVersionRange" -> {<<CurrentVersion + 1, CurrentVersion, flags>>}
    [] v = "UnknownVersion"    -> {<<u, u, flags>> : u \in Versions \ {CurrentVersion}}
    [] v = "UndefinedFlags"    -> {<<CurrentVersion, CurrentVersion, flags \cup f>> :
                                     f \in (SUBSET (Flags \ DefinedFlags[p])) \ {{}}}
    [] OTHER                   -> {<<CurrentVersion, CurrentVersion, flags>>}

SetupViolation ==
  {"EmptyVersionRange", "UnknownVersion", "UndefinedFlags", "AfterRawFrame", "SecondSetup"}

\* What comes before the setup proper, on the same connection, and its number of variables.
Preceding(v, n, c, p, flags, shape) ==
  CASE v = "AfterRawFrame" -> [defines |-> 1,
                               code |-> <<Instr(Plain("LoadBytes"), << >>),
                                          Instr(Plain("SendRawFrame"), <<c, n>>)>>]
    [] v = "SecondSetup"   -> [defines |-> SetupDefines(shape),
                               code |-> Setup(n, c, p, CurrentVersion, CurrentVersion, flags,
                                              shape)]
    [] OTHER               -> [defines |-> 0, code |-> << >>]

\* The setup that violates v, on connection c, after what precedes it: its versions and flags
\* are w, its shape is other.
AdversarialSetup(v, p, flags, shape, c, w, other) ==
  LET before == Preceding(v, c.next, c.connection, p, flags, shape)
  IN [kind |-> v,
      code |-> c.code \o before.code
                 \o Setup(c.next + before.defines, c.connection, p, w[1], w[2], w[3], other)]

\* AdversarialSetupGenerator, as AnyRoleAdversarialSetup makes it.
AdversarialSetups(b) ==
  UNION {UNION {{AdversarialSetup(v, p, flags, shape, c, w, other) :
                   w \in Violating(v, p, flags),
                   other \in IF v = "SecondSetup" THEN Shapes ELSE {shape}} :
                  flags \in SUBSET DefinedFlags[p], shape \in Shapes,
                  c \in UNION {Fresh(b, r) : r \in Roles}} : v \in SetupViolation, p \in Protocols}

\* RawFrameGenerator, as AnyRoleRawFrame makes it.
RawFrames(b) ==
  {[kind |-> "raw",
    code |-> c.code \o <<Instr(Plain("LoadBytes"), << >>),
                         Instr(Plain("SendRawFrame"), <<c.connection, c.next>>)>>] :
     c \in UNION {Reused(b, r) : r \in Roles}}

-----------------------------------------------------------------------------
(* IrGenerator: a fragment is inserted where no block is open.             *)

Points(p) == {q \in 0..Len(p) : Depth(p, q) = 0}

\* Mutant: the variable at the insertion point keeps its number.
MovedPastPoint(v, before, added) == IF v > before + 1 THEN v + added ELSE v

\* A variable defined past the insertion point moves up by what the fragment defines.
Moved(v, before, added) == IF v > before THEN v + added ELSE v

Inserted(p, q, code) ==
  LET before == VariableCount(SubSeq(p, 1, q))
      added  == VariableCount(code)
      rest   == SubSeq(p, q + 1, Len(p))
  IN SubSeq(p, 1, q) \o code
       \o [k \in DOMAIN rest |->
             [rest[k] EXCEPT !.inputs = [j \in DOMAIN @ |-> Moved(@[j], before, added)]]]

Fragments(generator, b) ==
  CASE generator = "setup"       -> ConformingSetups(b)
    [] generator = "adversarial" -> AdversarialSetups(b)
    [] generator = "raw_frame"   -> RawFrames(b)

\* generate returns an error as soon as the builder refuses one of its instructions.
Generate(generator) ==
  \E q \in Points(input) : \E prefix \in {SubSeq(input, 1, q)} :
    \E f \in Fragments(generator, FromPrefix(prefix)) :
      IF ~FromPrefix(prefix \o f.code).accepted THEN Skip
      ELSE Offer(Inserted(input, q, f.code),
                 [mutator |-> "generator", kind |-> f.kind, at |-> q, length |-> Len(f.code)])

InsertSetup       == Generate("setup")
InsertAdversarial == Generate("adversarial")
InsertRawFrame    == Generate("raw_frame")

-----------------------------------------------------------------------------

MutationNext ==
  /\ stacked < MaxStacked
  /\ stacked' = stacked + 1
  /\ UNCHANGED current
  /\ \/ MutateInput
     \/ MutateOperation
     \/ Splice
     \/ InsertSetup
     \/ InsertAdversarial
     \/ InsertRawFrame

MutationSpec == MutationInit /\ [][MutationNext]_mutation_vars

-----------------------------------------------------------------------------
(* Properties. *)

Made == last # Nothing

\* tests/mutation.rs:33-34, "anything it does produce has to be a program the builder would
\* have accepted": whatever is stacked on whatever, a candidate is a valid program before
\* acceptable looks at it, so that only its length can lose a mutation.
CandidatesAreValid == Made => Validates(last.candidate)

\* For every variable of p, the instruction that defines it and which of its variables it is.
Definers(p) ==
  FlattenSeq([k \in DOMAIN p |-> [n \in 1..Defines(p[k].operation) |-> <<k, n>>]])

\* p is found in c, its k-th instruction at place[k], with every operation the same and every
\* input coming from the same instruction's same variable.
Embedded(p, c, place) ==
  LET from == Definers(p)
      to   == Definers(c)
  IN \A k \in DOMAIN p :
       /\ c[place[k]].operation = p[k].operation
       /\ DOMAIN c[place[k]].inputs = DOMAIN p[k].inputs
       /\ \A j \in DOMAIN p[k].inputs :
            LET s == from[p[k].inputs[j]]
            IN to[c[place[k]].inputs[j]] = <<place[s[1]], s[2]>>

\* Inserting a fragment or appending an entry leaves what was there doing what it did: the
\* renumbering takes every input to the variable it named before (mutators.rs:189-198 of
\* stratamoto-libafl, concat.rs:32-40).  Validation would not see a renumbering that goes to
\* another variable of the same type.
DataflowKept ==
  Made =>
    /\ last.how.mutator = "generator" =>
         Embedded(last.before, last.candidate,
                  [k \in DOMAIN last.before |->
                     IF k <= last.how.at THEN k ELSE k + last.how.length])
    /\ last.how.mutator = "splice" =>
         /\ Embedded(last.before, last.candidate, [k \in DOMAIN last.before |-> k])
         /\ Embedded(last.how.other, last.candidate,
                     [k \in DOMAIN last.how.other |-> k + Len(last.before)])

\* What is wrong with the setup sent at s, read off the program: the message it sends is the
\* one built in the block its input comes from, its connection is the variable it names.
Wrong(c, s) ==
  LET definers == Definers(c)
      built    == definers[c[s].inputs[2]][1]
      message  == c[built].inputs[1]
      sets(op) == CHOOSE k \in 1..built : c[k].operation.name = op /\ c[k].inputs[1] = message
      loaded(op, j) == c[definers[c[sets(op)].inputs[j]][1]].operation
      min      == loaded("SetVersions", 2).version
      max      == loaded("SetVersions", 3).version
      flags    == loaded("SetFlags", 2).flags
      before(op) == \E k \in 1..(s - 1) :
                      c[k].operation.name = op /\ c[k].inputs[1] = c[s].inputs[1]
  IN {v \in SetupViolation :
        CASE v = "EmptyVersionRange" -> min > max
          [] v = "UnknownVersion"    -> min <= max /\ CurrentVersion \notin min..max
          [] v = "UndefinedFlags"    -> ~(flags \subseteq DefinedFlags[c[s].operation.protocol])
          [] v = "AfterRawFrame"     -> before("SendRawFrame")
          [] v = "SecondSetup"       -> before("SendSetupConnection")}

\* setup_connection.rs:131-132, "A setup that violates exactly one named constraint, and is
\* otherwise what a conforming client would send": wherever in whatever program a fragment is
\* inserted, its setup breaks the rule it was made to break and no other, and a conforming one
\* breaks none, which is what makes a server owe it an answer.
ViolatesExactlyOne ==
  Made /\ last.how.mutator = "generator" /\ last.how.kind # "raw" =>
    Wrong(last.candidate, last.how.at + last.how.length)
      = (IF last.how.kind = "conforming" THEN {} ELSE {last.how.kind})
=============================================================================
