-------------------------------- MODULE Files --------------------------------
(***************************************************************************)
(* Reading and writing files (fileio.c, socket.c).  A file is non-blocking *)
(* and its escapes are retried: one that finds the file not ready keeps    *)
(* what it has so far as the client data of its process, attaches the      *)
(* process to the file and suspends it; trigger_io resumes the processes   *)
(* attached to the files that are ready, and each starts its escape again. *)
(* What an input file holds is its Script of character codes, which        *)
(* arrives bit by bit and may end; a character is known as <<file, place>>.*)
(* An output file takes up to Room codes ahead of whoever reads them.      *)
(***************************************************************************)
EXTENDS Integers, Sequences, SequencesExt, FiniteSets

CONSTANTS
  Proc, File, NoCall,
  Script,      \* [File -> Seq(code)]: what is there to be read
  Ending,      \* [File -> {"eof", "err", "none"}]: how it ends
  Direction,   \* [File -> {"in", "out", "both"}]
  Room,        \* the codes an output file takes ahead of its reader
  Programs,    \* a set of [Proc -> Seq(call)]: the calls each process makes
  Careful      \* whether programs see to what the engine does not (and no collection
               \* moves the text of a symbol that is being written)

\* The calls of programs: q is the process to be interrupted, valid whether the
\* arguments are of the right kind.
Call == [op : STRING, f : File, n : Nat, q : Proc, valid : BOOLEAN]

ASSUME FilesAssumption ==
  /\ Script \in [File -> Seq(Nat)]
  /\ Ending \in [File -> {"eof", "err", "none"}]
  /\ Direction \in [File -> {"in", "out", "both"}]
  /\ Room \in Nat
  /\ NoCall \notin Call /\ NoCall \notin Proc
  /\ Programs \subseteq [Proc -> Seq(Call)]
  /\ Careful \in BOOLEAN

VARIABLES
  program, made,               \* what the processes do, and how far they are
  refs,                        \* [File -> references], -1 for a file not yet open
  arrived, taken,              \* [File -> places] of the input
  unsent, written,             \* [File -> the codes its reader has not seen], all codes written
  reached,                     \* [File -> whether the connection is there]
  state, call, client,         \* of a process: waiting or not, its escape, ps_client
  attachments,                 \* the list of attachments, latest first
  spinning,                    \* the process that loops in m_flush
  answer, delivered, dropped   \* history: the last answer; the places answered, and given up

procVars == <<program, made, call, client, state, answer>>
inVars == <<arrived, taken, delivered, dropped>>
outVars == <<unsent, written>>
waitVars == <<attachments, spinning>>
vars == <<procVars, inVars, outVars, refs, reached, waitVars>>

NoClient == <<"none">>
NEW_LINE == 10
trmString == 6
Tag(code) == code \div 16
Letters == 97 .. 122
Blanks == {NEW_LINE, 32}

-----------------------------------------------------------------------------
(* The input of a file as its escapes see it.                              *)

Code(x) == Script[x[1]][x[2]]
Avail(f) == [k \in 1 .. (IF arrived[f] > Len(Script[f]) THEN Len(Script[f]) ELSE arrived[f]) - taken[f] |-> <<f, taken[f] + k>>]
End(f) == IF arrived[f] > Len(Script[f]) THEN Ending[f] ELSE "wait"

(* isInReady and isOutReady: would select() find something to be done?     *)
InReady(f) == Avail(f) # <<>> \/ End(f) # "wait"
OutReady(f) == reached[f] /\ unsent[f] < Room

isReading(f) == Direction[f] \in {"in", "both"}
isWriting(f) == Direction[f] \in {"out", "both"}

-----------------------------------------------------------------------------
(* Attachments.  An attachment of the same file and process gets the new   *)
(* mode; the others are not looked at.                                     *)

Concerns(a, f, p) == a.f = f /\ a.p = p

\* A slip: an attachment that is there is taken as it is.
AttachAsIs(as, f, p, mode) ==
  IF \E k \in DOMAIN as : Concerns(as[k], f, p) THEN as ELSE <<[f |-> f, p |-> p, mode |-> mode]>> \o as

Attach(as, f, p, mode) ==
  IF \E k \in DOMAIN as : Concerns(as[k], f, p)
  THEN [k \in DOMAIN as |-> IF Concerns(as[k], f, p) THEN [as[k] EXCEPT !.mode = mode] ELSE as[k]]
  ELSE <<[f |-> f, p |-> p, mode |-> mode]>> \o as

Detach(as, f, p) ==
  LET k == SelectInSeq(as, LAMBDA a : Concerns(a, f, p))
  IN IF k = 0 THEN as ELSE RemoveAt(as, k)

(* attachProcessToFile: the escape is to be tried again, p waits for it.   *)
Suspend(p, c, as, mode) ==
  /\ attachments' = Attach(as, c.f, p, mode)
  /\ state' = [state EXCEPT ![p] = "wait_io"]
  /\ call' = [call EXCEPT ![p] = c]
  /\ UNCHANGED <<program, made, answer, spinning>>

Answer(p, c, res, val) ==
  /\ answer' = [answer EXCEPT ![p] = [call |-> c, res |-> res, val |-> val]]
  /\ call' = [call EXCEPT ![p] = NoCall]
  /\ made' = [made EXCEPT ![p] = @ + 1]
  /\ spinning' = NoCall
  /\ UNCHANGED <<program, state>>

(* The escape p is to execute: the one it was suspended in, or the next of *)
(* its program.  An escape that finds client data of another kind takes it *)
(* for its own, one with a closed file uses memory that is free; what      *)
(* follows is not defined, and the process goes no further here.           *)
TextReads == {"inbytes", "inchars", "inline", "intext"}
Kinds(op) ==
  CASE op \in TextReads -> {"text"} [] op \in {"outch", "outchar", "outbytes"} -> {"off"}
    [] op = "decode" -> {"dec"} [] op = "connect" -> {"sock"} [] OTHER -> {"text", "off", "dec", "sock"}

Next1(p) == program[p][made[p] + 1]
Turn(p) ==
  IF state[p] # "runnable" \/ spinning \notin {NoCall, p} THEN {}
  ELSE {c \in IF call[p] # NoCall THEN {call[p]} ELSE IF made[p] < Len(program[p]) THEN {Next1(p)} ELSE {} :
          /\ c.op \in {"fopen", "connect", "interrupt"} \/ refs[c.f] > 0
          /\ client[p] = NoClient \/ client[p][1] \in Kinds(c.op)
          /\ Careful /\ call[p] = NoCall /\ Kinds(c.op) # Kinds("eof") => client[p] = NoClient}

(* What p has read and not answered yet.                                   *)
Holds(p) == CASE client[p][1] = "text" -> client[p][2] [] client[p][1] = "dec" -> client[p][2].body [] OTHER -> <<>>
Begun(p) == IF client[p] = NoClient THEN <<>> ELSE client[p][2]
ClientOf(p, cl) == client' = [client EXCEPT ![p] = cl]

(* The arguments of an escape are looked at before anything is done.       *)
Accepted(c) ==
  /\ c.valid
  /\ c.op \in TextReads \cup {"eof", "inascii", "inchar", "binline", "read", "decode"} => isReading(c.f)
  /\ c.op \in {"outch", "outchar", "outbytes", "encode", "flush"} => isWriting(c.f)
  /\ c.op = "ready" => isReading(c.f) \/ isWriting(c.f)
  /\ c.op \in {"inbytes", "inchars"} => c.n > 0

Refuse(p, c) ==
  /\ Answer(p, c, "einval", <<>>)
  /\ UNCHANGED <<client, inVars, outVars, refs, reached, attachments>>

Smaller(a, b) == IF a < b THEN a ELSE b
Start(seq, n) == SubSeq(seq, 1, Smaller(n, Len(seq)))
AfterFirst(seq, n) == SubSeq(seq, n + 1, Len(seq))
Run(text, S) ==
  LET k == SelectInSeq(text, LAMBDA x : Code(x) \notin S)
  IN IF k = 0 THEN text ELSE SubSeq(text, 1, k - 1)

(* p reads `used' of file c.f and is done with it, or fails.               *)
Taken(f, used) == taken' = [taken EXCEPT ![f] = @ + Len(used)]
Given(used, val) ==
  /\ delivered' = delivered \cup (ToSet(val) \ {x \in ToSet(val) : x[2] = 0})
  /\ dropped' = dropped \cup (ToSet(used) \ ToSet(val))
  /\ UNCHANGED arrived
ReadEnds(p, c, used, res, val) ==
  /\ Answer(p, c, res, val)
  /\ attachments' = Detach(attachments, c.f, p)
  /\ Taken(c.f, used) /\ Given(used \o Holds(p), val)
  /\ UNCHANGED <<outVars, refs, reached>>

-----------------------------------------------------------------------------
(* Reading text.                                                           *)

\* A slip: a read makes do with what there is.
AtEndAtOnce(f, got) == IF End(f) = "err" THEN "eio" ELSE IF got = <<>> THEN "eeof" ELSE "ok"

(* The end of a read that wants more than there is: at the end of the file *)
(* what there is must do.                                                  *)
AtEnd(f, got) ==
  CASE End(f) = "wait" -> "wait" [] End(f) = "err" -> "eio"
    [] End(f) = "eof" -> IF got = <<>> THEN "eeof" ELSE "ok"

\* A slip: what was read before the wait is not kept.
KeptNot(got) == NoClient
Kept(got) == <<"text", got>>

Collect(p, c, used, got, res) ==
  IF res = "wait"
  THEN /\ Suspend(p, c, Detach(attachments, c.f, p), "input")
       /\ ClientOf(p, Kept(got))
       /\ Taken(c.f, used)
       /\ UNCHANGED <<arrived, delivered, dropped, outVars, refs, reached>>
  ELSE /\ ReadEnds(p, c, used, res, IF res = "ok" THEN got ELSE <<>>)
       /\ ClientOf(p, NoClient)

Inbytes(p, c) ==
  /\ c.op \in {"inbytes", "inchars"}
  /\ LET want == c.n - Len(Begun(p))
         used == Start(Avail(c.f), IF want < 0 THEN 0 ELSE want)
         got == Begun(p) \o used
     IN Collect(p, c, used, got, IF Len(got) >= c.n THEN "ok" ELSE AtEnd(c.f, got))

Inline(p, c) ==
  /\ c.op = "inline"
  /\ LET line == Run(Avail(c.f), Nat \ {NEW_LINE})
         whole == Len(line) < Len(Avail(c.f))
         got == Begun(p) \o line
     IN Collect(p, c, Start(Avail(c.f), Len(line) + 1), got, IF whole THEN "ok" ELSE AtEnd(c.f, got))

(* All there is, when there is something.                                  *)
Intext(p, c) ==
  /\ c.op = "intext"
  /\ LET got == Begun(p) \o Avail(c.f)
     IN Collect(p, c, Avail(c.f), got,
                IF ~InReady(c.f) THEN "wait" ELSE IF End(c.f) = "wait" THEN "ok" ELSE AtEnd(c.f, got))

NotReady(p, c) ==
  /\ Suspend(p, c, attachments, "input")
  /\ UNCHANGED <<client, inVars, outVars, refs, reached>>

(* m_inascii and m_inchar find every end to be the end of the file.        *)
Inchar(p, c) ==
  /\ c.op \in {"inascii", "inchar"}
  /\ \/ /\ ~InReady(c.f)
        /\ Suspend(p, c, Detach(attachments, c.f, p), "input")
        /\ UNCHANGED <<client, inVars, outVars, refs, reached>>
     \/ /\ InReady(c.f)
        /\ LET ch == Start(Avail(c.f), 1)
           IN ReadEnds(p, c, ch, IF ch = <<>> THEN "eeof" ELSE "ok", ch)
        /\ UNCHANGED client

Eof(p, c) ==
  /\ c.op = "eof"
  /\ \/ ~InReady(c.f) /\ NotReady(p, c)
     \/ /\ InReady(c.f)
        /\ ReadEnds(p, c, <<>>, IF Avail(c.f) = <<>> /\ End(c.f) = "eof" THEN "true" ELSE "false", <<>>)
        /\ UNCHANGED client

Ready(p, c) ==
  /\ c.op = "ready"
  /\ Answer(p, c, IF IF isReading(c.f) THEN InReady(c.f) ELSE OutReady(c.f) THEN "true" ELSE "false", <<>>)
  /\ UNCHANGED <<client, inVars, outVars, refs, reached, attachments>>

(* balRead: `open' are the closing brackets awaited, the innermost first;   *)
(* `quoted' is whether a quotation is open.                                *)
Opening == {40, 91, 123}
Closing(code) == IF code = 40 THEN 41 ELSE code + 2
Quote == 34
BalStart == [open |-> <<NEW_LINE>>, quoted |-> FALSE, res |-> "eof"]
BalStep(s, ch) ==
  IF s.quoted
  THEN IF ch = Quote THEN [s EXCEPT !.quoted = FALSE]
       ELSE IF ch = NEW_LINE THEN [s EXCEPT !.res = "efail"] ELSE s
  ELSE IF ch = Head(s.open)
  THEN IF Len(s.open) = 1 THEN [s EXCEPT !.res = "ok"] ELSE [s EXCEPT !.open = Tail(@)]
  ELSE IF ch \in Opening THEN [s EXCEPT !.open = <<Closing(ch)>> \o @]
  ELSE IF ch = Quote THEN [s EXCEPT !.quoted = TRUE]
  ELSE IF ch \in {Closing(b) : b \in Opening} THEN [s EXCEPT !.res = "efail"]
  ELSE s

BalAfter(text) ==
  LET after[k \in 0 .. Len(text)] ==
        IF k = 0 THEN BalStart
        ELSE IF after[k - 1].res = "eof" THEN BalStep(after[k - 1], Code(text[k])) ELSE after[k - 1]
  IN after

(* It reads up to the character that decides, or all there is: text that   *)
(* has not arrived is taken for the end of the file, and each bracket      *)
(* still awaited is then closed by one that was not read.                  *)
BalRead(f, text) ==
  LET after == BalAfter(text)
      decided == {k \in 1 .. Len(text) : after[k].res # "eof"}
      n == IF decided = {} THEN Len(text) ELSE CHOOSE k \in decided : \A m \in decided : k <= m
      unread == [k \in 1 .. Len(after[n].open) - 1 |-> <<f, 0>>]
  IN [n |-> n, res |-> after[n].res,
      out |-> IF after[n].res = "eof" THEN text \o unread ELSE SubSeq(text, 1, n - 1)]

Binline(p, c) ==
  /\ c.op = "binline"
  /\ \/ ~InReady(c.f) /\ NotReady(p, c)
     \/ /\ InReady(c.f)
        /\ LET bal == BalRead(c.f, Avail(c.f))
               res == IF bal.res = "eof" THEN IF bal.out = <<>> THEN "eeof" ELSE "ok" ELSE bal.res
           IN ReadEnds(p, c, Start(Avail(c.f), bal.n), res, IF res = "ok" THEN bal.out ELSE <<>>)
        /\ UNCHANGED client

(* m_read reads a word and the code after it; blanks alone, also at the    *)
(* end of the file, suspend it.                                            *)
ReadTerm(p, c) ==
  /\ c.op = "read"
  /\ LET blanks == Run(Avail(c.f), Blanks)
         rest == AfterFirst(Avail(c.f), Len(blanks))
         word == Run(rest, Letters)
     IN IF rest = <<>>
        THEN /\ Suspend(p, c, attachments, "input")
             /\ Taken(c.f, blanks) /\ Given(blanks, <<>>)
             /\ UNCHANGED <<client, outVars, refs, reached>>
        ELSE /\ ReadEnds(p, c, blanks \o Start(rest, Len(word) + 1), IF word = <<>> THEN "efail" ELSE "ok", word)
             /\ UNCHANGED client

(* A coded term: a tag with the number of length bytes, these, and the     *)
(* bytes.  When it is resumed, m_decode reads bytes, whether or not it has *)
(* seen the whole length.                                                  *)
Length(text) ==
  LET count[k \in 0 .. Len(text)] == IF k = 0 THEN 0 ELSE 256 * count[k - 1] + Code(text[k])
  IN count[Len(text)]
Decode(p, c) ==
  /\ c.op = "decode"
  /\ LET text == Avail(c.f)
         fresh == client[p] = NoClient
         coded == text # <<>> /\ Tag(Code(text[1])) = trmString
         lens == IF fresh THEN SubSeq(text, 2, Smaller(1 + (Code(text[1]) % 16), Len(text))) ELSE <<>>
         short == fresh /\ Len(lens) < Code(text[1]) % 16
         msg == IF fresh THEN [count |-> Length(lens), body |-> <<>>] ELSE Begun(p)
         head == IF fresh THEN 1 + Len(lens) ELSE 0
         more == IF short THEN <<>> ELSE Start(AfterFirst(text, head), msg.count - Len(msg.body))
         body == msg.body \o more
         used == Start(text, head + Len(more))
     IN \/ ~InReady(c.f) /\ NotReady(p, c)
        \/ /\ InReady(c.f) /\ fresh /\ ~coded
           /\ ReadEnds(p, c, Start(text, 1), "einval", <<>>)
           /\ UNCHANGED client
        \/ /\ InReady(c.f) /\ (fresh => coded)
           /\ ~short /\ Len(body) = msg.count
           /\ ReadEnds(p, c, used, "ok", body)
           /\ ClientOf(p, NoClient)
        \/ /\ InReady(c.f) /\ (fresh => coded)
           /\ short \/ Len(body) < msg.count
           /\ IF End(c.f) = "wait"
              THEN /\ Suspend(p, c, Detach(attachments, c.f, p), "input")
                   /\ ClientOf(p, <<"dec", [count |-> msg.count, body |-> body]>>)
                   /\ Taken(c.f, used) /\ Given(Start(text, head), <<>>)
                   /\ UNCHANGED <<outVars, refs, reached>>
              ELSE /\ ReadEnds(p, c, used, IF End(c.f) = "eof" THEN "eeof" ELSE "efail", <<>>)
                   /\ ClientOf(p, NoClient)

-----------------------------------------------------------------------------
(* Writing.  The k-th code of a call is known as <<process, call, k>>.     *)

CodesOf(p, from, to) == [k \in 1 .. to - from |-> <<p, made[p] + 1, from + k>>]
Put(p, f, from, to) ==
  /\ unsent' = [unsent EXCEPT ![f] = @ + to - from]
  /\ written' = [written EXCEPT ![f] = @ \o CodesOf(p, from, to)]

\* A slip: the code that the file did not take is counted as written.
OffsetNext(off) == <<"off", off + 1>>
Offset(off) == IF off = 0 THEN NoClient ELSE <<"off", off>>

(* How far the text is written when p tries again.  m_outch keeps no offset *)
(* but a pointer into the symbol: if a collection has moved the symbol, the *)
(* pointer leads to some other text, which may end anywhere.               *)
Begins(p, c) ==
  IF c.op = "outch" /\ call[p] # NoCall /\ ~Careful THEN 0 .. c.n
  ELSE {IF client[p] = NoClient THEN 0 ELSE client[p][2]}

WriteFrom(p, c, off) ==
  LET broken == End(c.f) = "err"
      upto == IF broken THEN off ELSE off + Smaller(c.n - off, Room - unsent[c.f])
      as == Detach(attachments, c.f, p)
  IN /\ Put(p, c.f, off, upto)
     /\ \/ /\ upto >= c.n
           /\ Answer(p, c, "ok", <<>>) /\ ClientOf(p, NoClient) /\ attachments' = as
        \/ /\ upto < c.n /\ ~broken
           /\ Suspend(p, c, as, "output") /\ ClientOf(p, Offset(upto))
        \/ /\ upto < c.n /\ broken
           /\ Answer(p, c, "eio", <<>>) /\ ClientOf(p, NoClient) /\ attachments' = as
     /\ UNCHANGED <<inVars, refs, reached>>

Outchar(p, c) ==
  /\ c.op \in {"outch", "outchar", "outbytes"}
  /\ \E off \in Begins(p, c) : WriteFrom(p, c, off)

(* m_encode does not wait: of a term that does not fit, a part is written. *)
Encode(p, c) ==
  /\ c.op = "encode"
  /\ LET size == c.n + 2
         fits == IF End(c.f) = "err" THEN 0 ELSE Smaller(size, Room - unsent[c.f])
     IN /\ Put(p, c.f, 0, fits)
        /\ Answer(p, c, IF fits = size THEN "ok" ELSE "efail", <<>>)
        /\ attachments' = Detach(attachments, c.f, p)
        /\ UNCHANGED <<client, inVars, refs, reached>>

(* m_flush tries again until all is written; meanwhile no process runs.    *)
Flush(p, c) ==
  /\ c.op = "flush"
  /\ \/ /\ unsent[c.f] = 0 \/ End(c.f) = "err"
        /\ Answer(p, c, IF unsent[c.f] = 0 THEN "ok" ELSE "eio", <<>>)
     \/ /\ unsent[c.f] > 0 /\ End(c.f) # "err" /\ spinning = NoCall
        /\ spinning' = p
        /\ UNCHANGED <<program, made, call, state, answer>>
  /\ UNCHANGED <<client, inVars, outVars, refs, reached, attachments>>

Ftell(p, c) ==
  /\ c.op = "ftell"
  /\ Answer(p, c, "ok", <<IF isReading(c.f) THEN taken[c.f] ELSE Len(written[c.f])>>)
  /\ UNCHANGED <<client, inVars, outVars, refs, reached, attachments>>

-----------------------------------------------------------------------------
(* Opening and closing.                                                    *)

(* m_fopen, m_openURL, m_createURL.                                        *)
Fopen(p, c) ==
  /\ c.op = "fopen"
  /\ \E ok \in BOOLEAN :
       /\ refs[c.f] = -1
       /\ refs' = IF ok THEN [refs EXCEPT ![c.f] = 1] ELSE refs
       /\ Answer(p, c, IF ok THEN "ok" ELSE "efail", <<>>)
       /\ UNCHANGED <<client, inVars, outVars, reached, attachments>>

Dupfile(p, c) ==
  /\ c.op = "dupfile"
  /\ refs' = [refs EXCEPT ![c.f] = @ + 1]
  /\ Answer(p, c, "ok", <<>>)
  /\ UNCHANGED <<client, inVars, outVars, reached, attachments>>

(* A careful program closes a file when nobody waits for it.               *)
Fclose(p, c) ==
  /\ c.op = "fclose"
  /\ Careful /\ refs[c.f] = 1 => \A k \in DOMAIN attachments : attachments[k].f = c.f => attachments[k].p = p
  /\ refs' = [refs EXCEPT ![c.f] = @ - 1]
  /\ Answer(p, c, "ok", <<>>)
  /\ attachments' = Detach(attachments, c.f, p)
  /\ UNCHANGED <<client, inVars, outVars, reached>>

(* m_connect goes on with the socket of its client data, which it leaves   *)
(* behind, like its attachment, when the connection is there.              *)
Connect(p, c) ==
  /\ c.op = "connect"
  /\ LET f == IF client[p] = NoClient THEN c.f ELSE client[p][2]
     IN /\ \/ /\ End(f) = "err"
              /\ Answer(p, c, "efail", <<>>)
              /\ UNCHANGED <<client, refs, attachments>>
           \/ /\ End(f) # "err" /\ reached[f]
              /\ Answer(p, c, "ok", <<>>)
              /\ refs' = [refs EXCEPT ![f] = 1]
              /\ UNCHANGED <<client, attachments>>
           \/ /\ End(f) # "err" /\ ~reached[f]
              /\ Suspend(p, [c EXCEPT !.f = f], attachments, "output")
              /\ ClientOf(p, <<"sock", f>>)
              /\ UNCHANGED refs
        /\ UNCHANGED <<inVars, outVars, reached>>

(* The input of a listening socket is the connections that are asked for.  *)
Accept(p, c) ==
  /\ c.op = "accept"
  /\ \/ Avail(c.f) # <<>> /\ ReadEnds(p, c, Start(Avail(c.f), 1), "ok", Start(Avail(c.f), 1)) /\ UNCHANGED client
     \/ Avail(c.f) = <<>> /\ End(c.f) = "wait" /\ NotReady(p, c)
     \/ /\ Avail(c.f) = <<>> /\ End(c.f) # "wait"
        /\ Answer(p, c, "enet", <<>>)
        /\ UNCHANGED <<client, inVars, outVars, refs, reached, attachments>>

(* m_interrupt: the other process goes on in its error handler.  Its       *)
(* client data and attachments stay.                                       *)
Interrupt(p, c) ==
  /\ c.op = "interrupt"
  /\ Careful => client[c.q] = NoClient
  /\ answer' = [answer EXCEPT ![p] = [call |-> c, res |-> "ok", val |-> <<>>],
                              ![c.q] = IF call[c.q] = NoCall THEN @ ELSE [call |-> call[c.q], res |-> "error", val |-> <<>>]]
  /\ made' = [made EXCEPT ![p] = @ + 1, ![c.q] = IF call[c.q] = NoCall THEN @ ELSE @ + 1]
  /\ call' = [call EXCEPT ![p] = NoCall, ![c.q] = NoCall]
  /\ state' = [state EXCEPT ![c.q] = "runnable"]
  /\ UNCHANGED <<program, client, inVars, outVars, refs, reached, waitVars>>

-----------------------------------------------------------------------------
(* The event loop: set_in_fdset and set_out_fdset say what to look for,    *)
(* trigger_io resumes whoever waits and is attached to what was found.     *)

inFds == {a.f : a \in {b \in ToSet(attachments) : b.mode = "input" /\ state[b.p] = "wait_io"}}
outFds == {a.f : a \in {b \in ToSet(attachments) : b.mode = "output" /\ (~OutReady(b.f) \/ state[b.p] = "wait_io")}}

(* What select() finds: a file whose other end is gone can be written to.  *)
Found == [input |-> {f \in inFds : InReady(f)}, output |-> {f \in outFds : OutReady(f) \/ End(f) = "err"}]

Triggered == {a.p : a \in {b \in ToSet(attachments) : b.f \in Found[b.mode]}}

trigger_io ==
  /\ spinning = NoCall
  /\ \E p \in Triggered : state[p] = "wait_io"
  /\ state' = [p \in Proc |-> IF p \in Triggered THEN "runnable" ELSE state[p]]
  /\ UNCHANGED <<program, made, call, client, answer, inVars, outVars, refs, reached, waitVars>>

(* What nobody reads has arrived before.                                   *)
Used == {c.f : c \in UNION {ToSet(program[p]) : p \in Proc}}

(* Outside: more of a file arrives, or its end; what was written is read;  *)
(* a connection is made.  A careful peer sends the tag and the length      *)
(* bytes of a coded term at once: it never stops behind place n inside     *)
(* what may be the head of one.                                            *)
HeadSize(f, t) == Script[f][t] % 16
InHead(f, n) == \E t \in 1 .. n : Tag(Script[f][t]) = trmString /\ n < t + HeadSize(f, t)
Arrive(f) ==
  /\ f \in Used
  /\ Direction[f] = "out" => Ending[f] = "err"
  /\ \E n \in arrived[f] + 1 .. Len(Script[f]) + (IF Ending[f] = "none" THEN 0 ELSE 1) :
       /\ Careful /\ n \in DOMAIN Script[f] => ~InHead(f, n)
       /\ \A m \in arrived[f] + 1 .. n - 1 : m \in DOMAIN Script[f] => InHead(f, m)
       /\ arrived' = [arrived EXCEPT ![f] = n]
  /\ UNCHANGED <<procVars, taken, delivered, dropped, outVars, refs, reached, waitVars>>

Drain(f) ==
  /\ unsent[f] > 0
  /\ unsent' = [unsent EXCEPT ![f] = @ - 1]
  /\ UNCHANGED <<procVars, inVars, written, refs, reached, waitVars>>

Reach(f) ==
  /\ ~reached[f]
  /\ reached' = [reached EXCEPT ![f] = TRUE]
  /\ UNCHANGED <<procVars, inVars, outVars, refs, waitVars>>

-----------------------------------------------------------------------------
Init ==
  /\ program \in Programs
  /\ made = [p \in Proc |-> 0]
  /\ state = [p \in Proc |-> "runnable"]
  /\ call = [p \in Proc |-> NoCall]
  /\ client = [p \in Proc |-> NoClient]
  /\ answer = [p \in Proc |-> NoCall]
  /\ LET later == {c.f : c \in {d \in UNION {ToSet(program[p]) : p \in Proc} : d.op \in {"fopen", "connect"}}}
         connected == {c.f : c \in {d \in UNION {ToSet(program[p]) : p \in Proc} : d.op = "connect"}}
     IN /\ refs = [f \in File |-> IF f \in later THEN -1 ELSE 1]
        /\ reached = [f \in File |-> f \notin connected]
  /\ arrived = [f \in File |-> IF f \in Used THEN 0 ELSE Len(Script[f])] /\ taken = [f \in File |-> 0]
  /\ unsent = [f \in File |-> 0] /\ written = [f \in File |-> <<>>]
  /\ attachments = <<>> /\ spinning = NoCall
  /\ delivered = {} /\ dropped = {}

Escape(p) ==
  \E c \in Turn(p) :
    \/ ~Accepted(c) /\ Refuse(p, c)
    \/ /\ Accepted(c)
       /\ \/ Inbytes(p, c) \/ Inline(p, c) \/ Intext(p, c) \/ Inchar(p, c) \/ Eof(p, c) \/ Ready(p, c) \/ Binline(p, c)
          \/ ReadTerm(p, c) \/ Decode(p, c) \/ Outchar(p, c) \/ Encode(p, c) \/ Flush(p, c) \/ Ftell(p, c)
          \/ Fopen(p, c) \/ Dupfile(p, c) \/ Fclose(p, c) \/ Connect(p, c) \/ Accept(p, c) \/ Interrupt(p, c)

Outside(f) == Arrive(f) \/ Drain(f) \/ Reach(f)

Next == (\E p \in Proc : Escape(p)) \/ trigger_io \/ (\E f \in File : Outside(f))

Spec == Init /\ [][Next]_vars

-----------------------------------------------------------------------------
Reads == TextReads \cup {"inascii", "inchar", "binline", "read", "decode", "accept"}
Writes == {"outch", "outchar", "outbytes"}

(***************************************************************************)
(* No character of a file gets lost or is read twice, however often the    *)
(* reads are suspended, and whoever reads: each one that was taken from    *)
(* the file was answered to one call, is held for one process that waits,  *)
(* or was passed over by an escape that had finished.                      *)
(***************************************************************************)
TextKept ==
  LET held(p) == ToSet(Holds(p))
  IN /\ UNION {{f} \X (1 .. taken[f]) : f \in File} = delivered \cup dropped \cup UNION {held(p) : p \in Proc}
     /\ delivered \cap dropped = {}
     /\ \A p \in Proc : held(p) \cap (delivered \cup dropped) = {}
     /\ \A p, q \in Proc : p # q => held(p) \cap held(q) = {}

(***************************************************************************)
(* A read answers what its file holds: its characters in their order and   *)
(* as many as it asked for, a line up to its end, a coded term with as     *)
(* many bytes as its length bytes say; less only at the end of the file.   *)
(* No character is missing from the middle, and the bytes of a term are    *)
(* those behind its length (this only where nobody else reads the file).   *)
(***************************************************************************)
SoleReader(p, f) == \A q \in Proc \ {p} : \A c \in ToSet(program[q]) : c.op \in Reads => c.f # f
Ended(f) == End(f) # "wait"
InOrder(text) == \A k \in 1 .. Len(text) - 1 : text[k + 1][1] = text[k][1] /\ text[k + 1][2] > text[k][2]
Unbroken(text) == \A k \in 1 .. Len(text) - 1 : text[k + 1] = <<text[k][1], text[k][2] + 1>>
LengthBytes(f, t) == [k \in 1 .. HeadSize(f, t) |-> <<f, t + k>>]
AnsweredWhole(p, c, val) ==
  /\ val # <<>> => val[1][1] = c.f
  /\ InOrder(val)
  /\ SoleReader(p, c.f) => Unbroken(val)
  /\ c.op \in {"inchars", "inbytes"} => Len(val) = c.n \/ Ended(c.f)
  /\ c.op = "inline" =>
       /\ \A x \in ToSet(val) : Code(x) # NEW_LINE
       /\ Ended(c.f) \/ \E x \in dropped : Code(x) = NEW_LINE /\ \A y \in ToSet(val) : x[1] = c.f /\ x[2] > y[2]
  /\ c.op = "decode" => \E t \in DOMAIN Script[c.f] :
       /\ Tag(Script[c.f][t]) = trmString /\ Len(val) = Length(LengthBytes(c.f, t))
       /\ SoleReader(p, c.f) => \A k \in 1 .. Len(val) : val[k] = <<c.f, t + HeadSize(c.f, t) + k>>
AnswersWhole ==
  \A p \in Proc : answer[p] # NoCall /\ answer[p].call.op \in Reads \ {"binline"} /\ answer[p].res = "ok" =>
    AnsweredWhole(p, answer[p].call, answer[p].val)

(***************************************************************************)
(* What a call writes reaches the file in its order, each code once, and   *)
(* all of it before the call is answered.                                  *)
(***************************************************************************)
PlacesOf(p, j, f) == {k \in DOMAIN written[f] : written[f][k][1] = p /\ written[f][k][2] = j}
NumbersOf(p, j, f) == {written[f][k][3] : k \in PlacesOf(p, j, f)}
WrittenOnce ==
  \A p \in Proc, f \in File : \A j \in DOMAIN program[p] :
    LET c == program[p][j]
    IN c.op \in Writes /\ c.f = f =>
         /\ \A k, m \in PlacesOf(p, j, f) : k < m => written[f][k][3] < written[f][m][3]
         /\ \E n \in 0 .. c.n : NumbersOf(p, j, f) = 1 .. n
         /\ answer[p] # NoCall /\ made[p] = j /\ answer[p].res = "ok" => NumbersOf(p, j, f) = 1 .. c.n

(***************************************************************************)
(* Suspending and executing again loses and doubles nothing, either way.   *)
(***************************************************************************)
EachCharacterOnce == TextKept /\ WrittenOnce

(***************************************************************************)
(* No wake-up is lost: when a file is ready for what a process waits for,  *)
(* whatever else the process waited for before and left an attachment of,  *)
(* and whoever else waits, the event loop finds the process.               *)
(***************************************************************************)
ReadyResumes ==
  \A p \in Proc : state[p] = "wait_io" =>
    LET f == call[p].f
        ready == IF call[p].op \in Writes \cup {"connect"} THEN OutReady(f) \/ End(f) = "err" ELSE InReady(f)
    IN ready => p \in Triggered
=============================================================================
