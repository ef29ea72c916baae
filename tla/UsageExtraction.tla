--------------------------- MODULE UsageExtraction --------------------------
(***************************************************************************)
(* How the gateway reads the usage out of a response it is passing on      *)
(* (sse-parser.ts).  A response is a record                                *)
(*   kind      "stream" (text/event-stream), "body" or "image" (a body of  *)
(*             an image endpoint);                                         *)
(*   endpoint  the endpoint called;                                        *)
(*   events    the events of a stream, or the one object of a body;        *)
(*   ended     the last line of a stream has its newline;                  *)
(*   tokens    the text of an image body, see Text.                        *)
(* An event has a type, the usage at its top (outer) and inside its        *)
(* message or response (inner), each Absent when it is not there, whether  *)
(* the word usage occurs in it at all (mentionsUsage), and the number of   *)
(* items of its data array (items): 0 for no array, Unscannable for one    *)
(* that is there twice or is no array, or whose items, of an image, are    *)
(* not all objects with a url or a picture.                                *)
(***************************************************************************)
EXTENDS Metering, Sequences, SequencesExt

Unscannable == -1

CONSTANTS
    Absent,     \* no usage object
    MaxBuffer   \* PARSE_BUFFER_MAX, in bytes

(* A line of a stream is four bytes, so that chunks can end inside it; the *)
(* object of a body is four bytes as well.                                 *)
Newline == <<0, 0>>
Line(k) == [i \in 1..4 |-> <<k, i>>]

(* An image body: strings, each a sequence of characters between quotes,   *)
(* and single characters.  "Q" is a quote, "B" a backslash and "K" stands  *)
(* for the whole word b64_json.                                            *)
TextOf(token) == IF token.string THEN <<"Q">> \o token.chars \o <<"Q">> ELSE token.chars
Text(tokens)  == FlattenSeq([i \in DOMAIN tokens |-> TextOf(tokens[i])])

BytesOf(resp) ==
    CASE resp.kind = "image"  -> Text(resp.tokens)
      [] resp.kind = "body"   -> Line(1)
      [] resp.kind = "stream" ->
           FlattenSeq([k \in DOMAIN resp.events |->
                         IF k = Len(resp.events) /\ ~resp.ended
                         THEN Line(k) ELSE Line(k) \o <<Newline>>])

(*   carry       of a stream the line begun, of a body what is kept of it  *)
(*   mode        of an image body: outside of strings, in a string, after  *)
(*               the key b64_json, after its colon, or skipping its value  *)
(*   seen        what the string is so far: nothing, the key, or other     *)
NewExtractor == [consumed |-> 0, overflowed |-> FALSE, carry |-> <<>>,
                 usage |-> Absent, complete |-> FALSE,
                 mode |-> "outside", escaped |-> FALSE, seen |-> "nothing"]

----------------------------------------------------------------------------
(* A stream: a line is read when its newline arrives.                      *)

(* Later usage objects override the fields of earlier ones.                *)
MergeUsage(old, new) ==
    IF new = Absent THEN old
    ELSE IF old = Absent THEN new
    ELSE [part \in DOMAIN old \cup DOMAIN new |->
            IF part \notin DOMAIN new THEN old[part]
            ELSE IF part = Top /\ part \in DOMAIN old THEN new[Top] @@ old[Top]
            ELSE new[part]]

(* What an endpoint's event says: the usage it brings and whether it is    *)
(* the one that completes it.                                              *)
UsageOfEvent(endpoint, e, old) ==
    CASE endpoint = "responses" -> MergeUsage(old, IF e.inner # Absent THEN e.inner ELSE e.outer)
      [] endpoint = "messages"  -> MergeUsage(MergeUsage(old, e.inner), e.outer)
      [] OTHER                  -> MergeUsage(old, e.outer)
Completes(endpoint, e) ==
    CASE endpoint = "responses" -> e.type = "response.completed"
      [] endpoint = "messages"  -> e.type = "message_delta" /\ e.outer # Absent
      [] OTHER                  -> e.outer # Absent

StreamEndpoints == {"chat_completions", "embeddings", "responses", "messages"}

(* A line that is no event, or one that does not mention usage, is skipped.*)
ProcessLine(resp, ext, line) ==
    IF line = <<>> \/ resp.endpoint \notin StreamEndpoints THEN ext
    ELSE LET e == resp.events[line[1][1]]
         IN  IF line # Line(line[1][1]) \/ ~e.mentionsUsage THEN ext
             ELSE [ext EXCEPT !.usage = UsageOfEvent(resp.endpoint, e, @),
                              !.complete = @ \/ Completes(resp.endpoint, e)]

FeedStream(resp, ext, byte) ==
    IF byte = Newline THEN [ProcessLine(resp, ext, ext.carry) EXCEPT !.carry = <<>>]
    ELSE [ext EXCEPT !.carry = Append(@, byte)]

----------------------------------------------------------------------------
(* An image body: what stands between the quotes of a b64_json value is    *)
(* dropped, byte by byte.                                                  *)

InString(ext, c) ==
    CASE ext.escaped -> [ext EXCEPT !.escaped = FALSE, !.seen = "other"]
      [] ~ext.escaped /\ c = "B" -> [ext EXCEPT !.escaped = TRUE, !.seen = "other"]
      [] ~ext.escaped /\ c = "Q" ->
           [ext EXCEPT !.mode = IF ext.seen = "key" THEN "key" ELSE "outside"]
      [] OTHER -> [ext EXCEPT !.seen = IF c = "K" /\ @ = "nothing" THEN "key" ELSE "other"]

\* An escaped quote ends the value.
SkipToQuote(ext, c) ==
    IF c = "Q" THEN [ext EXCEPT !.mode = "outside", !.carry = Append(@, c)] ELSE ext

Skip(ext, c) ==
    CASE ext.escaped -> [ext EXCEPT !.escaped = FALSE]
      [] ~ext.escaped /\ c = "B" -> [ext EXCEPT !.escaped = TRUE]
      [] ~ext.escaped /\ c = "Q" -> [ext EXCEPT !.mode = "outside", !.carry = Append(@, c)]
      [] OTHER -> ext

Enter(ext, mode) == [ext EXCEPT !.mode = mode, !.escaped = FALSE, !.seen = "nothing"]

OutsideString(ext, c) ==
    CASE c = "Q" -> Enter(ext, IF ext.mode = "colon" THEN "skipping" ELSE "string")
      [] c = " " -> ext
      [] c = ":" /\ ext.mode = "key" -> Enter(ext, "colon")
      [] OTHER   -> Enter(ext, "outside")

FeedImage(ext, c) ==
    LET kept == [ext EXCEPT !.carry = Append(@, c)]
    IN  CASE ext.mode = "skipping" -> Skip(ext, c)
          [] ext.mode = "string"   -> InString(kept, c)
          [] OTHER                 -> OutsideString(kept, c)

----------------------------------------------------------------------------
(* push: a chunk, byte by byte.  An image counts what it keeps, the others *)
(* what arrives.                                                           *)

Feed(resp, ext, byte) ==
    CASE resp.kind = "stream" -> FeedStream(resp, ext, byte)
      [] resp.kind = "image"  -> FeedImage(ext, byte)
      [] OTHER                -> [ext EXCEPT !.carry = Append(@, byte)]

Overflow(ext) == [NewExtractor EXCEPT !.consumed = ext.consumed, !.overflowed = TRUE]

Push(resp, ext, chunk) ==
    LET fed   == FoldLeft(LAMBDA e, b : Feed(resp, e, b), ext, chunk)
        total == IF resp.kind = "image" THEN Len(fed.carry) ELSE ext.consumed + Len(chunk)
    IN  IF ext.overflowed THEN ext
        ELSE IF total > MaxBuffer THEN Overflow(ext)
        ELSE [fed EXCEPT !.consumed = total]

----------------------------------------------------------------------------
(* finish: the answer.                                                     *)

Nothing == [usage |-> Absent, complete |-> FALSE, units |-> 0]

(* The text of an image body without its pictures.                         *)
IsKey(token)   == token.string /\ token.chars = <<"K">>
IsSpace(token) == ~token.string /\ token.chars = <<" ">>
IsColon(token) == ~token.string /\ token.chars = <<":">>
LastBefore(tokens, i) == {j \in 1..(i - 1) : \A k \in j..(i - 1) : k = j \/ IsSpace(tokens[k])}
PictureAt(tokens, i) ==
    /\ tokens[i].string
    /\ \E j \in LastBefore(tokens, i) :
        /\ IsColon(tokens[j])
        /\ \E k \in LastBefore(tokens, j) : IsKey(tokens[k])
WithoutPictures(tokens) ==
    [i \in DOMAIN tokens |-> IF PictureAt(tokens, i) THEN [tokens[i] EXCEPT !.chars = <<>>]
                             ELSE tokens[i]]

(* The text of a JSON object: escapes and quotes in a string are paired,   *)
(* no quote stands outside of one, and no colon follows a value.           *)
WellFormed(tokens) ==
    \A i \in DOMAIN tokens :
        LET chars == tokens[i].chars
        IN  IF ~tokens[i].string THEN Len(chars) = 1 /\ chars[1] # "Q"
            ELSE /\ \E escaped \in [0..Len(chars) -> BOOLEAN] :
                       /\ ~escaped[0] /\ ~escaped[Len(chars)]
                       /\ \A n \in 1..Len(chars) :
                            /\ escaped[n] = (~escaped[n - 1] /\ chars[n] = "B")
                            /\ chars[n] = "Q" => escaped[n - 1]
                 /\ (\E j \in LastBefore(tokens, i) : IsColon(tokens[j])) =>
                        \A j \in DOMAIN tokens :
                            i \in LastBefore(tokens, j) => ~IsColon(tokens[j])

(* What is left parses as the object that was sent when it is all there;   *)
(* anything shorter is not balanced.                                       *)
Parses(resp, text) ==
    text = IF resp.kind = "image" THEN Text(WithoutPictures(resp.tokens)) ELSE Line(1)

(* Exactly one usage object may be found.                                  *)
ExtractBodyUsage(resp, text) ==
    LET e     == resp.events[1]
        found == {u \in IF resp.endpoint = "responses" THEN {e.outer, e.inner}
                         ELSE {e.outer} : u # Absent}
        both  == resp.endpoint = "responses" /\ e.outer # Absent /\ e.inner # Absent
    IN  IF ~Parses(resp, text) \/ e.items = Unscannable THEN Nothing
        ELSE IF found = {} \/ both THEN [Nothing EXCEPT !.units = e.items]
        ELSE [usage |-> CHOOSE u \in found : TRUE, complete |-> TRUE, units |-> e.items]

Finish(resp, ext) ==
    IF ext.overflowed \/ ext.mode \in {"string", "skipping"} THEN Nothing
    ELSE IF resp.kind = "stream"
    THEN LET last == ProcessLine(resp, ext, ext.carry)
         IN  [usage |-> last.usage, complete |-> last.complete, units |-> 0]
    ELSE ExtractBodyUsage(resp, ext.carry)
=============================================================================
