---------------------------- MODULE DataLogger ----------------------------
(***************************************************************************)
(* The line logger of common/data_logger.{h,cpp}.  Items are declared once *)
(* and get consecutive columns; then, per control cycle, a line is started *)
(* its items are recorded, and the line is written.  What a column holds   *)
(* is abstracted to who wrote it and on which line.  A thrown exception    *)
(* ends the program: no demo catches it.                                   *)
(***************************************************************************)
EXTENDS Integers, SequencesExt

CONSTANTS
    Names,     \* item names
    MaxLen,    \* bound of the model: columns of an item
    MaxLines   \* bound of the model: lines

ASSUME LoggerAssumption == MaxLen \in Nat \ {0} /\ MaxLines \in Nat

VARIABLES
    phase,        \* where the caller is in the protocol
    recItem,      \* recItemName, recItemLen and recItemStartCol
    colCout,      \* columns declared so far
    recValue,     \* the columns of the line, numbered from 0 in the code
    isItemDataIn, \* which items have been recorded
    line,         \* lines started so far
    written       \* the columns last written to the file

loggerVars == <<phase, recItem, colCout, recValue, isItemDataIn, line, written>>

Zero == [name |-> "zero", line |-> 0]
Declared == {recItem[i].name : i \in DOMAIN recItem}

(* std::vector::resize: existing elements keep their values.               *)
Resize(s, n, value) == [i \in 1 .. n |-> IF i <= Len(s) THEN s[i] ELSE value]

LoggerInit ==
    /\ phase = "declare"
    /\ recItem = <<>> /\ colCout = 0
    /\ recValue = <<>> /\ isItemDataIn = <<>>
    /\ line = 0 /\ written = <<>>

Throw ==
    /\ phase' = "thrown"
    /\ UNCHANGED <<recItem, colCout, recValue, isItemDataIn, line, written>>

(* The operators named ...Defect are the definition that follows them with *)
(* a plausible bug; they show that the properties below can fail.          *)
AddItermOverlapDefect(name, len) ==
    /\ phase = "declare"
    /\ name \notin Declared
    /\ recItem' = Append(recItem, [name |-> name, len |-> len, start |-> colCout])
    /\ colCout' = colCout + len - 1
    /\ UNCHANGED <<phase, recValue, isItemDataIn, line, written>>

AddIterm(name, len) ==
    /\ phase = "declare"
    /\ name \notin Declared
    /\ recItem' = Append(recItem, [name |-> name, len |-> len, start |-> colCout])
    /\ colCout' = colCout + len
    /\ UNCHANGED <<phase, recValue, isItemDataIn, line, written>>

AddItermTwice(name) == phase = "declare" /\ name \in Declared /\ Throw

Clear ==
    /\ recValue' = Resize(recValue, colCout, Zero)
    /\ isItemDataIn' = Resize(isItemDataIn, Len(recItem), FALSE)

FinishItermAdding ==
    /\ phase = "declare"
    /\ Clear
    /\ phase' = "ready"
    /\ UNCHANGED <<recItem, colCout, line, written>>

StartNewLine ==
    /\ phase = "ready" /\ line < MaxLines
    /\ Clear
    /\ line' = line + 1
    /\ phase' = "recording"
    /\ UNCHANGED <<recItem, colCout, written>>

(* Column c of the code, numbered from 0, is element c + 1 of recValue.     *)
Columns(i) == recItem[i].start + 1 .. recItem[i].start + recItem[i].len

RecItermData(i) ==
    /\ phase = "recording"
    /\ recValue' = [c \in DOMAIN recValue |->
            IF c \in Columns(i)
            THEN [name |-> recItem[i].name, line |-> line]
            ELSE recValue[c]]
    /\ isItemDataIn' = [isItemDataIn EXCEPT ![i] = TRUE]
    /\ UNCHANGED <<phase, recItem, colCout, line, written>>

RecUndeclared == phase = "recording" /\ Names \ Declared # {} /\ Throw

FinishLineUncheckedDefect ==
    /\ phase = "recording"
    /\ written' = recValue
    /\ phase' = "ready"
    /\ UNCHANGED <<recItem, colCout, recValue, isItemDataIn, line>>

FinishLine ==
    /\ phase = "recording"
    /\ \A i \in DOMAIN isItemDataIn : isItemDataIn[i]
    /\ written' = recValue
    /\ phase' = "ready"
    /\ UNCHANGED <<recItem, colCout, recValue, isItemDataIn, line>>

FinishIncompleteLine ==
    /\ phase = "recording"
    /\ \E i \in DOMAIN isItemDataIn : ~isItemDataIn[i]
    /\ Throw

LoggerNext ==
    \/ \E name \in Names, len \in 1 .. MaxLen : AddIterm(name, len)
    \/ \E name \in Names : AddItermTwice(name)
    \/ FinishItermAdding
    \/ StartNewLine
    \/ \E i \in DOMAIN recItem : RecItermData(i)
    \/ RecUndeclared
    \/ FinishLine
    \/ FinishIncompleteLine

LoggerSpec == LoggerInit /\ [][LoggerNext]_loggerVars

-----------------------------------------------------------------------------
ItemsAt(c) == {i \in DOMAIN recItem : c \in Columns(i)}

(* The items share the columns without gap or overlap, and every value in  *)
(* the line sits in a column of its own item; so the column ranges that    *)
(* finishItermAdding writes to the Matlab script extract the right data.   *)
ColumnsBelongToItems ==
    /\ \A c \in 1 .. colCout : Cardinality(ItemsAt(c)) = 1
    /\ \A c \in DOMAIN recValue :
          recValue[c] # Zero =>
              \E i \in ItemsAt(c) : recValue[c].name = recItem[i].name

(* No line reaches the file with a column that was never recorded at all.  *)
WrittenLineIsFull == \A c \in DOMAIN written : written[c] # Zero

(* finishLine throws "... has not been recorded values!!!!!" so that every *)
(* line that is written has had each of its items recorded on that line.   *)
WrittenLineIsFresh ==
    [][written' # written => \A c \in DOMAIN written' : written'[c].line = line]_loggerVars
=============================================================================
