---------------------------- MODULE CommandLine ----------------------------
(***************************************************************************)
(* The command lines WindowsExecutor builds (launch_elevated and           *)
(* script_command in daemon/src/adapters/windows_executor.rs), read back   *)
(* by what reads them: the argument parser of the started program, and     *)
(* cmd.exe.  Windows has no argument lists, only lines, so an argument     *)
(* that is quoted wrongly becomes another one, or two.                     *)
(*                                                                         *)
(* A line is a sequence of characters, one of each kind that a reader      *)
(* treats in its own way.                                                  *)
(***************************************************************************)
EXTENDS Executor, Sequences

LOCAL INSTANCE SequencesExt

CONSTANT
  MaxLength   \* bound of the model: characters of an argument

ASSUME LengthAssumption == MaxLength \in Nat

\* Backslash, double quote, space, comma, percent sign, ampersand, a letter.
Char == {"bs", "dq", "sp", "comma", "pct", "amp", "x"}

Times(c, n) == [i \in 1 .. n |-> c]

InQuotes(s) == <<"dq">> \o s \o <<"dq">>

-----------------------------------------------------------------------------
(* windows_executor.rs *)

\* One turn of the loop in quote_windows_argument.
QuoteChar(q, c) ==
  CASE c = "bs" -> [q EXCEPT !.backslashes = @ + 1]
    [] c = "dq" -> [quoted |-> q.quoted \o Times("bs", 2 * q.backslashes + 1) \o <<c>>,
                    backslashes |-> 0]
    [] OTHER    -> [quoted |-> q.quoted \o Times("bs", q.backslashes) \o <<c>>,
                    backslashes |-> 0]

\* Faulty variant: the backslashes before the closing quote are not doubled.
quote_windows_argument_bare(arg) ==
  LET q == FoldLeft(QuoteChar, [quoted |-> <<>>, backslashes |-> 0], arg)
  IN InQuotes(q.quoted \o Times("bs", q.backslashes))

quote_windows_argument(arg) ==
  LET q == FoldLeft(QuoteChar, [quoted |-> <<>>, backslashes |-> 0], arg)
  IN InQuotes(q.quoted \o Times("bs", 2 * q.backslashes))

\* launch_elevated: the quoted arguments, joined by spaces.
Parameters(args) ==
  FoldLeft(LAMBDA line, arg : line \o (IF line = <<>> THEN <<>> ELSE <<"sp">>)
                                   \o quote_windows_argument(arg),
           <<>>, args)

\* domain.rs: an allow list; of the characters here it has these.
is_safe_batch_literal(v) == v # <<>> /\ Range(v) \subseteq {"bs", "sp", "comma", "x"}

\* script_command for a batch file, behind "call": the words in quotes, or an
\* error before anything is started.
BatchWords(words) ==
  FoldLeft(LAMBDA line, w : line \o <<"sp">> \o InQuotes(w), <<>>, words)

BatchAccepted(words) == \A i \in DOMAIN words : is_safe_batch_literal(words[i])

-----------------------------------------------------------------------------
(* Windows *)

\* A reader's state: the words so far, the word it is in, whether it is in a
\* word and in quotes, and the backslashes it has not yet made up its mind about.
Start == [words |-> <<>>, word |-> <<>>, open |-> FALSE, quotes |-> "out", backslashes |-> 0]

\* A word ends here, if there is one.
Cut(s) ==
  IF s.open THEN [Start EXCEPT !.words = Append(s.words, s.word)] ELSE s

\* The backslashes were only backslashes.
Plain(s) == [s EXCEPT !.word = @ \o Times("bs", s.backslashes), !.backslashes = 0]

\* Add to the word.
Put(s, c) == [s EXCEPT !.word = Append(@, c), !.open = TRUE,
                       !.quotes = IF @ = "closed" THEN "out" ELSE @]

\* CommandLineToArgvW: an even number of backslashes before a quote stands for
\* half as many and the quote opens or closes; an odd number makes it literal;
\* a quote right behind a closing one is literal as well.
ArgvChar(s, c) ==
  CASE c = "bs" -> [s EXCEPT !.backslashes = @ + 1, !.open = TRUE,
                             !.quotes = IF @ = "closed" THEN "out" ELSE @]
    [] c = "dq" ->
         LET half == [s EXCEPT !.word = @ \o Times("bs", s.backslashes \div 2),
                               !.backslashes = 0, !.open = TRUE]
         IN IF s.backslashes % 2 = 1 THEN Put(half, c)
            ELSE IF s.quotes = "in" THEN [half EXCEPT !.quotes = "closed"]
            ELSE [half EXCEPT !.quotes = "in",
                              !.word = IF s.quotes = "closed" THEN Append(@, c) ELSE @]
    [] OTHER -> IF c = "sp" /\ s.quotes # "in" THEN Cut(Plain(s)) ELSE Put(Plain(s), c)

Argv(line) == Cut(Plain(FoldLeft(ArgvChar, Start, line))).words

\* cmd.exe: a quote only switches, spaces and commas outside quotes separate
\* words, an ampersand there ends the command, and a percent sign may start a
\* variable anywhere; such a line is not modelled any further.
CmdChar(s, c) ==
  CASE c = "dq" -> [s EXCEPT !.open = TRUE, !.quotes = IF @ = "in" THEN "out" ELSE "in"]
    [] c \in {"sp", "comma"} /\ s.quotes = "out" -> Cut(s)
    [] c = "pct" \/ (c = "amp" /\ s.quotes = "out") -> Put(s, "expanded")
    [] OTHER -> Put(s, c)

CmdWords(line) == Cut(FoldLeft(CmdChar, Start, line)).words

-----------------------------------------------------------------------------
(* Properties *)

Arguments(chars, n) == UNION { [1 .. m -> chars] : m \in 0 .. n }

Lists(chars) == { <<a>> : a \in Arguments(chars, MaxLength) }
                  \cup (Arguments(chars, MaxLength) \X Arguments(chars, MaxLength))

ElevatedKept == \A args \in Lists({"bs", "dq", "sp", "x"}) : Argv(Parameters(args)) = args

BatchKept ==
  \A words \in Lists(Char) : BatchAccepted(words) => CmdWords(BatchWords(words)) = words

\* The test elevated_argument_quoting_preserves_windows_argument_boundaries, for
\* every argument list: an elevated program that runs was given exactly the
\* arguments of its action, whatever quotes and backslashes are in them; and a
\* batch file that the executor accepted was given exactly its words.
ArgumentsKept ==
  /\ (\E j \in jobs : j.kind = "elevated") => ElevatedKept
  /\ (\E j \in jobs : j.kind = "script") => BatchKept

=============================================================================
