------------------------------ MODULE Bencode ------------------------------
(***************************************************************************)
(* utils/BencodeParser.cpp.  The input is a sequence of numbers: a byte,   *)
(* or from 256 on a name of dictionaries, which counts as one byte.        *)
(*                                                                         *)
(* The parser keeps one flat info_dict for all dictionaries, nested or     *)
(* not, here the sequence of its assignments, of which the last one to a   *)
(* name counts; a value that is a list or a dictionary is the empty string *)
(* there.  What the C++ functions change through ParseState& is returned,  *)
(* with the string they return as `value'; an exception is ok = FALSE, and *)
(* ends all of them.                                                       *)
(***************************************************************************)
EXTENDS Sha1, FiniteSetsExt

CONSTANT HashSize  \* kHashSize, the bytes of a piece's hash

ASSUME BencodeAssumption == HashSize \in Nat \ {0}

Digit == 48 .. 57
Colon == 58
Dict == 100
End == 101
Integer == 105
List == 108

(* The names the program looks for.                                         *)
InfoKey == 256
AnnounceKey == 257
CommentKey == 258
PieceLengthKey == 259
LengthKey == 260
NameKey == 261
PiecesKey == 262
FailureReasonKey == 263
PeersKey == 264

Text == Seq(Nat)

(* info_section is what info_hash is the hash of: from one position to      *)
(* before the other.  At first it is empty, and there is no hash.           *)
ParseState ==
  [index : Nat \ {0}, info_dict : Seq(Text \X Text), info_section : Int \X Int,
   value : Text, ok : BOOLEAN]

NewState == [index |-> 1, info_dict |-> <<>>, info_section |-> <<1, 1>>, value |-> <<>>,
             ok |-> TRUE]

Section(text, state) == SubSeq(text, state.info_section[1], state.info_section[2] - 1)

Throw(state) == [state EXCEPT !.ok = FALSE]

ReadFixedAmount(text, state, amount) ==
  IF state.index - 1 + amount > Len(text)
  THEN Throw(state)
  ELSE [state EXCEPT !.value = SubSeq(text, state.index, state.index + amount - 1),
                     !.index = state.index + amount]

ReadUntilDelimiter(text, state, delimiter) ==
  LET found == {k \in state.index .. Len(text) : text[k] = delimiter}
  IN IF found = {}
     THEN Throw(state)
     ELSE [state EXCEPT !.value = SubSeq(text, state.index, Min(found) - 1),
                        !.index = Min(found) + 1]

(* std::stoull takes the digits a string begins with, and throws without.   *)
(* (Not here: it skips blanks and a sign before them, and throws from 2^64  *)
(* on.)                                                                     *)
StartsWithDigit(string) == string # <<>> /\ string[1] \in Digit

LeadingDigits(string) ==
  SubSeq(string, 1, Max({n \in 0 .. Len(string) : \A k \in 1 .. n : string[k] \in Digit}))

stoull(string) ==
  FoldLeft(LAMBDA number, digit : number * 10 + digit - 48, 0, LeadingDigits(string))

-----------------------------------------------------------------------------
(* What a turn of ProcessDict's loop does to its locals: a key when there   *)
(* is none, or else the value for it.                                       *)
Locals == [current_key : Text, start_index : Int, end_index : Int, found_info : BOOLEAN]

NewLocals == [current_key |-> <<>>, start_index |-> -1, end_index |-> -1,
              found_info |-> FALSE]

TakeKey(locals, state) ==
  IF state.value = <<InfoKey>>
  THEN [locals EXCEPT !.current_key = <<InfoKey>>, !.start_index = state.index,
                      !.found_info = TRUE]
  ELSE [locals EXCEPT !.current_key = state.value]

(* A mutant: every value of the dictionary counts as the one of `info'.     *)
TakeEveryValue(locals, state) ==
  [locals EXCEPT !.current_key = <<>>, !.end_index = state.index]

TakeValue(locals, state) ==
  [locals EXCEPT !.current_key = <<>>, !.found_info = FALSE,
                 !.end_index = IF locals.found_info THEN state.index ELSE @]

SetInDict(state, key) ==
  [state EXCEPT !.info_dict = Append(@, <<key, state.value>>)]

AtEnd(text, state) == state.index > Len(text)

(* The end of a dictionary or a list, where Process returns "".             *)
Close(text, state) ==
  IF AtEnd(text, state)
  THEN Throw(state)
  ELSE [state EXCEPT !.index = @ + 1, !.value = <<>>]

HashInfo(state, locals) ==
  IF ~state.ok \/ locals.start_index = -1 \/ locals.end_index = -1
  THEN state
  ELSE [state EXCEPT !.info_section = <<locals.start_index, locals.end_index>>]

(* The three functions call each other: `parse' takes a call of one of them *)
(* to the state after it.                                                   *)
Call ==
  [function : {"Process", "ProcessDict", "ProcessList"}, text : Text, state : ParseState,
   locals : Locals]

CallOf(function, text, state, locals) ==
  [function |-> function, text |-> text, state |-> state, locals |-> locals]

Process(parse, text, state) ==
  LET begun == [state EXCEPT !.index = @ + 1]
      length == ReadUntilDelimiter(text, state, Colon)
  IN IF ~state.ok \/ AtEnd(text, state) THEN Throw(state)
     ELSE CASE text[state.index] \in Digit   ->
                 IF length.ok
                 THEN ReadFixedAmount(text, length, stoull(length.value))
                 ELSE length
            [] text[state.index] = Integer -> ReadUntilDelimiter(text, begun, End)
            [] text[state.index] = Dict    -> parse[CallOf("ProcessDict", text, begun, NewLocals)]
            [] text[state.index] = List    -> parse[CallOf("ProcessList", text, begun, NewLocals)]
            [] OTHER                       -> Throw(state)

LeavesLoop(text, state) ==
  ~state.ok \/ AtEnd(text, state) \/ text[state.index] = End

(* What Process has read is not empty, so that the loops come to an end.    *)
ReadOn(state, next) == IF next.index > state.index THEN next ELSE Throw(next)

ProcessDict(parse, text, state, locals) ==
  LET next == ReadOn(state, parse[CallOf("Process", text, state, NewLocals)])
  IN IF LeavesLoop(text, state) THEN HashInfo(Close(text, state), locals)
     ELSE IF ~next.ok THEN next
     ELSE IF locals.current_key = <<>>
     THEN parse[CallOf("ProcessDict", text, next, TakeKey(locals, next))]
     ELSE parse[CallOf("ProcessDict", text, SetInDict(next, locals.current_key),
                       TakeValue(locals, next))]

ProcessList(parse, text, state) ==
  LET next == ReadOn(state, parse[CallOf("Process", text, state, NewLocals)])
  IN IF LeavesLoop(text, state) THEN Close(text, state)
     ELSE IF ~next.ok THEN next
     ELSE parse[CallOf("ProcessList", text, next, NewLocals)]

ParserBody(parse, call) ==
  CASE call.function = "Process"     -> Process(parse, call.text, call.state)
    [] call.function = "ProcessDict" -> ProcessDict(parse, call.text, call.state, call.locals)
    [] call.function = "ProcessList" -> ProcessList(parse, call.text, call.state)

Parser[call \in Call] == ParserBody(Parser, call)

(* info_dict[key], when there is such a name.                               *)
Assigned(info_dict, key) == {k \in DOMAIN info_dict : info_dict[k][1] = <<key>>}

Lookup(info_dict, key, default) ==
  IF Assigned(info_dict, key) = {} THEN default
  ELSE info_dict[Max(Assigned(info_dict, key))][2]

(* Hashes of the pieces; what is left over at the end is not one.           *)
ExtractPieceHashes(info_dict) ==
  LET data == Lookup(info_dict, PiecesKey, <<>>)
  IN [k \in 1 .. Len(data) \div HashSize |->
        SubSeq(data, (k - 1) * HashSize + 1, k * HashSize)]

(* ParseString and ParseFile.                                               *)
ParseString(text) == Parser[CallOf("Process", text, NewState, NewLocals)]
=============================================================================
