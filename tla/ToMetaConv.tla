----------------------------- MODULE ToMetaConv -----------------------------
(***************************************************************************)
(* Messages to Meta: ToMeta of pkg/msgconv/from-matrix.go with the upload  *)
(* of files and the mentions, and the mentions of messages from Meta       *)
(* (MetaToMatrixText of pkg/msgconv/mentions.go, MentionData of            *)
(* pkg/messagix/socket/threads.go).                                        *)
(*                                                                         *)
(* A text is a sequence of characters and pills.  A character is a record  *)
(* of its length in bytes (UTF-8, how Go indexes strings) and in UTF-16    *)
(* units (how Meta counts); a pill is a user, whose name is a text.        *)
(***************************************************************************)
EXTENDS Integers, Sequences, SequencesExt, FiniteSets

(* Characters of one, two and four bytes, and pills of known users.        *)
Ascii == [bytes |-> 1, units |-> 1]
Accented == [bytes |-> 2, units |-> 1]
Emoticon == [bytes |-> 4, units |-> 2]

Size(text, field(_)) ==
  FoldLeft(LAMBDA n, c : n + field(c), 0, text)
Bytes(text) == Size(text, LAMBDA c : c.bytes)
Units(text) == Size(text, LAMBDA c : c.units)

-----------------------------------------------------------------------------
(* parseFormattedBody: every pill has left a locator, which is looked up   *)
(* and replaced by @ and the name, one after the other; its place is taken *)
(* as Go gives it, in bytes.                                               *)
IsPill(x) == "user" \in DOMAIN x

MentionText(pill) == <<Ascii>> \o pill.name

Expand(body) ==
  FoldLeft(LAMBDA text, x : text \o (IF IsPill(x) THEN MentionText(x)
                                     ELSE <<x>>), <<>>, body)

MutParseFormattedBody(body) ==
  [text |-> Expand(body),
   mentions |->
     FoldLeft(LAMBDA out, i :
                IF ~IsPill(body[i]) THEN out
                ELSE Append(out, [id |-> body[i].user, type |-> "p",
                       offset |-> Bytes(Expand(SubSeq(body, 1, i - 1))),
                       length |-> Bytes(body[i].name)]),
              <<>>, [i \in 1..Len(body) |-> i])]

parseFormattedBody(body) ==
  [text |-> Expand(body),
   mentions |->
     FoldLeft(LAMBDA out, i :
                IF ~IsPill(body[i]) THEN out
                ELSE Append(out, [id |-> body[i].user, type |-> "p",
                       offset |-> Bytes(Expand(SubSeq(body, 1, i - 1))),
                       length |-> Bytes(MentionText(body[i]))]),
              <<>>, [i \in 1..Len(body) |-> i])]

(* Parse sorts what it gets by offset.                                     *)
Parse(mentions) == SortSeq(mentions, LAMBDA m, n : m.offset < n.offset)

(* MetaToMatrixText: the spans, in units, that become links.  A mention    *)
(* that begins before the end of the last one or beyond the text, that is  *)
(* not of a person or whose user cannot be found is text.                  *)
MutMetaToMatrixText(size, mentions, known) ==
  FoldLeft(LAMBDA spans, m :
             IF \/ m.offset < 0 \/ m.offset >= size
                \/ m.type # "p" \/ m.id \notin known
             THEN spans
             ELSE Append(spans, [user |-> m.id, from |-> m.offset,
                    to |-> IF m.offset + m.length > size THEN size
                           ELSE m.offset + m.length]),
           <<>>, Parse(mentions))

MetaToMatrixText(size, mentions, known) ==
  FoldLeft(LAMBDA spans, m :
             LET prevEnd == IF spans = <<>> THEN 0 ELSE Last(spans).to
             IN IF \/ m.offset < prevEnd \/ m.offset >= size
                   \/ m.type # "p" \/ m.id \notin known
                THEN spans
                ELSE Append(spans, [user |-> m.id, from |-> m.offset,
                       to |-> IF m.offset + m.length > size THEN size
                              ELSE m.offset + m.length]),
           <<>>, Parse(mentions))

-----------------------------------------------------------------------------
(* ToMeta: the thread, the reply and the content of the task that sends    *)
(* the message, and the task that marks its thread as read, which is       *)
(* always for the sync group 1.                                            *)

(* In a community a message in a thread goes to the subthread that was     *)
(* stored for the thread's root; if it is not known, to the channel.       *)
ThreadOf(m) ==
  IF m.community /\ m.root /\ m.subthread # 0 THEN m.subthread ELSE m.thread

MutSyncGroup(m) == IF m.community /\ m.root THEN 104 ELSE 1
SyncGroup(m) == IF m.community THEN 104 ELSE 1

(* reuploadFileToMeta: download, perhaps convert, upload; on Instagram a   *)
(* video for which no ID came is uploaded in another way.                  *)
reuploadFileToMeta(m) ==
  IF m.fails \in {"download", "upload"} THEN 0
  ELSE IF m.voice /\ m.ffmpeg /\ m.fails = "convert" THEN 0
  ELSE IF m.fbid = 0 /\ m.type = "video" /\ m.instagram THEN m.fallback
  ELSE m.fbid

ToMeta(m) ==
  LET type == IF m.sticker THEN "image" ELSE m.type
      base == [ok |-> TRUE, thread |-> ThreadOf(m), group |-> SyncGroup(m),
               reply |-> m.reply = "fb", file |-> 0, text |-> FALSE,
               read |-> [thread |-> ThreadOf(m), group |-> 1]]
      file == reuploadFileToMeta([m EXCEPT !.type = type])
  IN CASE type \in {"text", "notice", "emote"} ->
            [base EXCEPT !.text = TRUE]
       [] type \in {"image", "video", "audio", "file"} ->
            IF file = 0 THEN [base EXCEPT !.ok = FALSE]
            ELSE [base EXCEPT !.file = file, !.text = m.caption]
       [] OTHER -> [base EXCEPT !.ok = FALSE]

-----------------------------------------------------------------------------
(* Properties.                                                             *)

(* The spans of the pills in the text they were expanded into.             *)
TrueSpans(body) ==
  FoldLeft(LAMBDA out, i :
             IF ~IsPill(body[i]) THEN out
             ELSE LET at == Units(Expand(SubSeq(body, 1, i - 1)))
                  IN Append(out, [user |-> body[i].user, from |-> at,
                       to |-> at + Units(MentionText(body[i]))]),
           <<>>, [i \in 1..Len(body) |-> i])

(* A message with mentions sent to Meta and read back has every mention    *)
(* where it was, whatever the replaced locators moved.  (Only if the text  *)
(* and the names are ASCII: offsets are sent in bytes and read in UTF-16.) *)
MentionsRoundTrip(body, sent) ==
  Bytes(sent.text) = Units(sent.text) =>
    MetaToMatrixText(Units(sent.text), sent.mentions,
                     {m.id : m \in ToSet(sent.mentions)}) = TrueSpans(body)

(* Whatever mentions a message from Meta has, in whatever order, the links *)
(* made of them are in order, do not overlap and lie within the text.      *)
SpansDisjoint(size, spans) ==
  \A i \in 1..Len(spans) :
    /\ spans[i].from < size /\ spans[i].to <= size
    /\ i > 1 => spans[i - 1].to <= spans[i].from

(* A message of a thread goes to the thread's own subthread where that is  *)
(* known, and to no subthread outside of communities; it goes to the sync  *)
(* group of the chat, and so does the receipt that marks it as read,       *)
(* except in a community, where the receipt is for another group than the  *)
(* message; and a message with a file has one.                             *)
SentWhereItBelongs(m, task) ==
  task.ok =>
    /\ task.thread # m.thread => m.root /\ m.community
    /\ task.thread = m.thread => ~m.root \/ ~m.community \/ m.subthread = 0
    /\ task.group = 104 <=> m.community
    /\ task.read.thread = task.thread
    /\ task.read.group # task.group <=> m.community
    /\ m.type \in {"image", "video", "audio", "file"} => task.file # 0
=============================================================================
