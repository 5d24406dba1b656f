------------------------------ MODULE LogPages ------------------------------
(***************************************************************************)
(* Paging backwards through Sunshine's log (src/adapter.rs, logs and       *)
(* log_page).  Sunshine serves the whole file; the adapter keeps its last  *)
(* window, withholds lines that may carry a secret, and hands out pages    *)
(* from the end.  The pages before the last come from the kept window, so  *)
(* that what Sunshine appends meanwhile cannot shift them.                 *)
(*                                                                         *)
(* Someone reads the log page by page, with whatever limits.  Others read  *)
(* it as well, and Sunshine writes to it and begins it anew.               *)
(*                                                                         *)
(* Text is a sequence of bytes of these kinds; "head" and "tail" are the   *)
(* two bytes of one character.  The SHA-256 of a text stands for the text. *)
(* A log that is not UTF-8, cannot be read or exceeds 64 MiB is an error   *)
(* that changes nothing, and is left out.                                  *)
(***************************************************************************)
EXTENDS Naturals, SequencesExt

CONSTANTS
    LogLines,   \* what Sunshine writes at once: a line, or part of one
    LogLength,  \* bound on the bytes of a log
    Window,     \* 1 MiB
    PageLimits  \* limits the Manager may ask for

Bytes == {"plain", "head", "tail", "marker", "secret", "newline", "withheld"}

(* UTF-8: the second byte of a character comes after its first.            *)
WellCoded(text) ==
    \A i \in DOMAIN text : text[i] = "tail" => i > 1 /\ text[i - 1] = "head"

(* What log_page relies on: the line of a secret has a word that marks it. *)
Marked(text) ==
    \A i \in DOMAIN text : text[i] = "secret" =>
        \E j \in DOMAIN text :
            /\ text[j] = "marker"
            /\ \A k \in DOMAIN text :
                  text[k] = "newline" => ~(i < k /\ k < j) /\ ~(j < k /\ k < i)

ASSUME LogAssumption ==
    /\ LogLines \subseteq Seq(Bytes)
    /\ \A line \in LogLines : WellCoded(line) /\ Marked(line)
    /\ {LogLength, Window} \union PageLimits \subseteq Nat
    /\ Window > 0

VARIABLES
    log,    \* Sunshine's log file
    kept,   \* log_snapshot: the retained window of the last read, or <<>>
    reader  \* history: what someone has read, back to an offset of a text

logVars == <<log, kept, reader>>

(* Where lines end; the last one may do so without a newline. *)
Ends(text) == {i \in DOMAIN text : text[i] = "newline" \/ i = Len(text)}

LineStart(text, end) == 1 + Max({0} \union {i \in Ends(text) : i < end})

Line(text, end) == SubSeq(text, LineStart(text, end), end)

(* Mutated form: the window is served as it was cut. *)
CutAnywhere(text) == SubSeq(text, Len(text) - Window + 1, Len(text))

(* The window without its first line, of which a part is missing.          *)
Cut(text) ==
    LET window == SubSeq(text, Len(text) - Window + 1, Len(text))
    IN SubSeq(window, Min(Ends(window)) + 1, Len(window))

Retained(text) == IF Len(text) > Window THEN Cut(text) ELSE text

Sensitive(line) == \E i \in DOMAIN line : line[i] = "marker"

Shown(line) == IF Sensitive(line) THEN <<"withheld", "newline">> ELSE line

(* Every byte that ends a line puts out the line.                          *)
Redacted(text) ==
    FlattenSeq([i \in DOMAIN text |->
        IF i \in Ends(text) THEN Shown(Line(text, i)) ELSE <<>>])

(* Mutated form: a page may begin and end anywhere. *)
AnyOffset(text, offset) == TRUE

(* is_char_boundary *)
Boundary(text, offset) == offset = Len(text) \/ text[offset + 1] # "tail"

(* The boundary at or before end, and the first one from start on. *)
RoundedDown(text, end) ==
    CHOOSE i \in 0 .. end :
        /\ i = 0 \/ Boundary(text, i)
        /\ \A j \in i + 1 .. end : ~Boundary(text, j)

RoundedUp(text, start, end) ==
    CHOOSE i \in start .. end :
        /\ i = end \/ Boundary(text, i)
        /\ \A j \in start .. i - 1 : ~Boundary(text, j)

(* Mutated form: whatever the revision, an offset within the text will do. *)
KnownOffset(text, cursor) == cursor.before <= Len(text)

Current(text, cursor) == cursor.revision = text /\ cursor.before <= Len(text)

(* log_page, given where the page ends. *)
Page(text, limit, before) ==
    LET end == RoundedDown(text, before)
        start == RoundedUp(text, IF end > limit THEN end - limit ELSE 0, end)
    IN [start |-> start, text |-> SubSeq(text, start + 1, end)]

(***************************************************************************)
(* logs                                                                    *)
(***************************************************************************)

Nothing == [revision |-> <<>>, before |-> 0, text |-> <<>>]

(* The log is fetched, and its window kept; another reader's page is not   *)
(* followed here.                                                          *)
ReadLatest(limit) ==
    LET text == Redacted(Retained(log))
        page == Page(text, limit, Len(text)) IN
    /\ kept' = <<Retained(log)>>
    /\ reader' \in {reader, [revision |-> text, before |-> page.start, text |-> page.text]}
    /\ UNCHANGED log

(* The page before a cursor, from the kept window; a conflict, after which *)
(* the reader has to begin again, leaves everything as it is.              *)
ReadOlder(limit) ==
    /\ reader.before > 0
    /\ kept # <<>>
    /\ LET text == Redacted(kept[1])
           page == Page(text, limit, reader.before) IN
       /\ Current(text, reader)
       /\ reader' = [reader EXCEPT !.before = page.start, !.text = page.text \o @]
    /\ UNCHANGED <<log, kept>>

(* 120 seconds are over, or the process is started again. *)
Forget ==
    /\ kept' = <<>>
    /\ UNCHANGED <<log, reader>>

(* Sunshine writes a line, or begins a new file (external). *)
Write(line) ==
    /\ log' \in {log \o line, line}
    /\ Len(log') <= LogLength
    /\ UNCHANGED <<kept, reader>>

LogInit == log = <<>> /\ kept = <<>> /\ reader = Nothing

LogNext ==
    \/ \E limit \in PageLimits : ReadLatest(limit) \/ ReadOlder(limit)
    \/ Forget
    \/ \E line \in LogLines : Write(line)

LogSpec == LogInit /\ [][LogNext]_logVars

(***************************************************************************)
(* Properties                                                              *)
(***************************************************************************)

(* Whoever follows the cursors has, at any time, exactly the end of one    *)
(* version of the log: no gap, no overlap, no broken character, and no     *)
(* line of a log that was appended to, replaced or read by someone else in *)
(* between; and the next page gets further, if a character fits into it.   *)
PagesAreContiguous ==
    /\ reader.text = SubSeq(reader.revision, reader.before + 1, Len(reader.revision))
    /\ reader.text # <<>> => Head(reader.text) # "tail"
    /\ reader.before > 0 =>
          \A limit \in PageLimits : limit > 1 =>
              Page(reader.revision, limit, reader.before).start < reader.before

(* No byte of a line that may carry a secret leaves the computer, wherever *)
(* the window cuts the log: not even when the cut took the word that gives *)
(* the line away.                                                          *)
SecretsAreWithheld ==
    \A i \in DOMAIN reader.text : reader.text[i] # "secret"
=============================================================================
