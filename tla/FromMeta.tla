------------------------------ MODULE FromMeta ------------------------------
(***************************************************************************)
(* ToMatrix of pkg/msgconv/from-meta.go: the conversion of a message from  *)
(* Meta, with its attachments, into the parts of a Matrix message.         *)
(*                                                                         *)
(* A message is a record of what the conversion looks at.  Whether a file  *)
(* can be transferred and what a lookup of a post or story returns is part *)
(* of the attachment's record.  A part ID is a pair of the schema and a    *)
(* number.  With direct media a part's content URI contains the message's  *)
(* and the part's ID, and a download looks the part up by them             *)
(* (DirectMedia): the ID a part ends up with has to be the one in its URI. *)
(***************************************************************************)
EXTENDS Naturals, Sequences, SequencesExt, FiniteSets

Unset == <<"", 0>>
NoURI == <<"no media", 0>>

(* MakeMessagePartID: the first part's ID is the empty string.             *)
MutMakeMessagePartID(i) == IF i <= 1 THEN Unset ELSE <<"", i>>
MakeMessagePartID(i) == IF i = 0 THEN Unset ELSE <<"", i>>

(* A part.  uri is the part ID inside a direct media URI; links counts how *)
(* often the external URL was put into the caption.                        *)
Part(kind) == [id |-> Unset, kind |-> kind, uri |-> NoURI,
               links |-> 0, external |-> FALSE, unsupported |-> FALSE,
               dontBridge |-> FALSE, status |-> ""]

Failed(part) == part.kind = "error"

-----------------------------------------------------------------------------
(* Attachments.                                                            *)

(* The message type of a file: by the type of the attachment, else by the  *)
(* first half of its MIME type.  A sticker has an event type of its own.   *)
fillMetadata(type, mime) ==
  CASE type \in {"image", "ephemeralImage"} -> "image"
    [] type \in {"video", "ephemeralVideo"} -> "video"
    [] type \in {"file", "audio", "sticker"} -> type
    [] mime \in {"image", "video", "audio"} -> mime
    [] OTHER -> "file"

(* reuploadAttachment: without a URL ErrURLNotFound.  With direct media    *)
(* only the URI is made, and the part gets the ID inside it; otherwise the *)
(* file is copied, if it is not too large and nothing fails.               *)
reuploadAttachment(att, type, partID, cfg) ==
  IF att.url = "" THEN [Part("error") EXCEPT !.status = "url not found"]
  ELSE IF att.transfer = "too large" /\ ~cfg.direct
  THEN [Part("error") EXCEPT !.status = "too large"]
  ELSE IF att.transfer = "fails"
  THEN [Part("error") EXCEPT !.status = "failed"]
  ELSE LET part == Part(fillMetadata(type, att.mime))
       IN IF cfg.direct THEN [part EXCEPT !.id = partID, !.uri = partID]
          ELSE [part EXCEPT !.uri = Unset]

errorToNotice(part) ==
  [Part("notice") EXCEPT !.unsupported = TRUE, !.status = part.status]

blobAttachmentToMatrix(att, partID, cfg) ==
  LET part == reuploadAttachment(att, att.type, partID, cfg)
  IN IF Failed(part) THEN errorToNotice(part) ELSE part

(* Media to be seen once may be replaced by a notice.                      *)
legacyAttachmentToMatrix(att, partID, cfg) ==
  IF cfg.disableViewOnce /\ att.viewOnce THEN Part("notice")
  ELSE blobAttachmentToMatrix(att, partID, cfg)

stickerToMatrix(att, partID, cfg) ==
  LET part == reuploadAttachment(att, "sticker", partID, cfg)
  IN IF Failed(part) THEN errorToNotice(part) ELSE part

-----------------------------------------------------------------------------
(* Shared posts, stories, links and the like ("XMA").                      *)

isProbablyURLPreview(x) == x.cta = "link"
isPoll(x) == x.cta = "poll"

MutAddExternalURL(part) == [part EXCEPT !.links = @ + 1]
AddExternalURL(part) == [part EXCEPT !.links = @ + 1, !.external = TRUE]

(* Of the versions of a video the largest, else of the image: the later of *)
(* two with the same area never replaces the first.  A version is a pair   *)
(* of its URL and its area.                                                *)
BestVersion(versions) ==
  {versions[i][1] : i \in {k \in 1..Len(versions) :
      /\ versions[k][2] > 0
      /\ \A j \in 1..Len(versions) : versions[j][2] <= versions[k][2]
      /\ \A j \in 1..(k - 1) : versions[j][2] < versions[k][2]}}

instagramFetchedMedia(item) ==
  IF BestVersion(item.video) # {} THEN BestVersion(item.video)
  ELSE BestVersion(item.image)

(* The item the share is about.  Of a post the first, or the one of its    *)
(* pictures that was shared; of a story the one with the story's ID.       *)
PostItem(items, child) ==
  LET same == SelectSeq(items[1].carousel, LAMBDA i : i.id = child)
  IN IF child # "" /\ same # <<>> THEN same[1] ELSE items[1]

PostStatus(x) ==
  IF x.fetch = "success" /\ x.items = <<>> THEN "empty response" ELSE x.fetch

StoryItem(items, id) == SelectSeq(items, LAMBDA i : i.id = id)

StoryStatus(x) ==
  IF x.fetch = "success" /\ StoryItem(x.items, x.child) = <<>>
  THEN "item not found in response" ELSE x.fetch

(* fetchFullXMA: a post or a story is looked up on Instagram; if that or   *)
(* the transfer of what it finds fails the minimal part is kept.  Either   *)
(* gets the link to the post.                                              *)
fetchFullXMA(x, minimal, partID, cfg) ==
  IF x.cta = "none" \/ ~cfg.instagram
  THEN [minimal EXCEPT !.status = "unsupported"]
  ELSE IF x.cta \notin {"post", "story", "story2"}
  THEN [minimal EXCEPT !.status = "unrecognized"]
  ELSE LET linked == AddExternalURL(minimal)
           status == IF x.cta = "story" THEN StoryStatus(x) ELSE PostStatus(x)
           item == CASE x.cta = "post" -> PostItem(x.items, x.child)
                     [] x.cta = "story" -> Last(StoryItem(x.items, x.child))
                     [] x.cta = "story2" -> x.items[1]
           media == instagramFetchedMedia(item)
           url == IF media = {} THEN "" ELSE CHOOSE u \in media : TRUE
           second == reuploadAttachment([x EXCEPT !.url = url,
                                                  !.transfer = x.again],
                                        x.type, partID, cfg)
       IN IF ~cfg.fetchXMA THEN [linked EXCEPT !.status = "skip"]
          ELSE IF status # "success" THEN [linked EXCEPT !.status = status]
          ELSE IF Failed(second)
          THEN [linked EXCEPT !.status = "reupload fail"]
          ELSE [AddExternalURL(second) EXCEPT !.status = "success"]

(* xmaLocationToMatrix and xmaProfileShareToMatrix are special; a share    *)
(* without a picture is its title, if it has one.                          *)
xmaAttachmentToMatrix(x, partID, cfg) ==
  LET minimal == reuploadAttachment(x, x.type, partID, cfg)
      part == IF Failed(minimal) THEN errorToNotice(minimal)
              ELSE fetchFullXMA(x, minimal, partID, cfg)
  IN CASE x.cta = "location" ->
            Part(IF x.native THEN "location" ELSE "notice")
       [] x.cta = "profile" -> [Part("text") EXCEPT !.external = TRUE]
       [] OTHER ->
            IF minimal.status = "url not found" /\ x.title THEN Part("text")
            ELSE IF ~part.external /\ x.cta # "none"
            THEN AddExternalURL(part) ELSE part

-----------------------------------------------------------------------------
(* ToMatrix.                                                               *)

(* A message with a thumbs-up sticker becomes an emoji.                    *)
Emoji(msg) == msg.thumbsUp /\ Len(msg.stickers) = 1
Text(msg) == msg.text \/ Emoji(msg)
Stickers(msg) == IF Emoji(msg) THEN <<>> ELSE msg.stickers

(* A copy of a blob that was there already is left out.                    *)
MutDuplicate(blobs, i) == \E j \in 1..(i - 1) : blobs[j].fbid = blobs[i].fbid
Duplicate(blobs, i) ==
  blobs[i].fbid # "" /\ \E j \in 1..(i - 1) : blobs[j].fbid = blobs[i].fbid

(* The indices of a sequence for which keep is true, in order.             *)
Kept(n, keep(_)) == SelectSeq([i \in 1..n |-> i], keep)

Blobs(msg) == Kept(Len(msg.blobs), LAMBDA i : ~Duplicate(msg.blobs, i))
XMAs(msg) == Kept(Len(msg.xmas),
                  LAMBDA i : ~isProbablyURLPreview(msg.xmas[i])
                             /\ ~isPoll(msg.xmas[i]))
urlPreviews(msg) == Kept(Len(msg.xmas),
                         LAMBDA i : isProbablyURLPreview(msg.xmas[i]))

hasRelationSnippet(msg) ==
  /\ msg.snippet /\ msg.xmas # <<>>
  /\ Len(msg.xmas) # Len(urlPreviews(msg))

IDsOf(schema, indices) ==
  [k \in 1..Len(indices) |-> <<schema, indices[k]>>]

All(n) == [i \in 1..n |-> i]

(* importantPartIDs, in the order in which they are appended.              *)
importantPartIDs(msg) ==
  IDsOf("blob_attachment_", Blobs(msg))
    \o IDsOf("attachment_", All(Len(msg.atts)))
    \o IDsOf("xma_attachment_", XMAs(msg))
    \o IDsOf("sticker_", All(Len(Stickers(msg))))
    \o IDsOf("beeper_link_preview_", All(Len(urlPreviews(msg))))

AttachmentParts(msg, cfg) ==
  LET blob(k) == blobAttachmentToMatrix(msg.blobs[Blobs(msg)[k]],
                   <<"blob_attachment_", Blobs(msg)[k]>>, cfg)
      legacy(k) == legacyAttachmentToMatrix(msg.atts[k],
                     <<"attachment_", k>>, cfg)
      xma(k) == xmaAttachmentToMatrix(msg.xmas[XMAs(msg)[k]],
                  <<"xma_attachment_", XMAs(msg)[k]>>, cfg)
      sticker(k) == stickerToMatrix(Stickers(msg)[k], <<"sticker_", k>>, cfg)
  IN [k \in 1..Len(Blobs(msg)) |-> blob(k)]
       \o [k \in 1..Len(msg.atts) |-> legacy(k)]
       \o [k \in 1..Len(XMAs(msg)) |-> xma(k)]
       \o [k \in 1..Len(Stickers(msg)) |-> sticker(k)]

TextParts(msg) ==
  IF Text(msg) \/ hasRelationSnippet(msg) \/ urlPreviews(msg) # <<>>
  THEN <<[Part(IF msg.admin THEN "notice" ELSE "text")
            EXCEPT !.dontBridge = msg.admin]>>
  ELSE <<>>

(* The parts get IDs if they have none, and those that are not supported a *)
(* link to the chat if they have no other.                                 *)
Finish(parts) ==
  [i \in 1..Len(parts) |->
     [parts[i] EXCEPT
        !.id = IF @ = Unset THEN MakeMessagePartID(i - 1) ELSE @,
        !.links = IF parts[i].unsupported /\ ~parts[i].external
                  THEN @ + 1 ELSE @]]

(* External: MergeCaption makes one part of exactly two, a text and a file *)
(* or sticker in either order.                                             *)
IsMedia(part) == part.kind \in {"image", "video", "audio", "file", "sticker"}
MergeCaption(parts) ==
  IF /\ Len(parts) = 2
     /\ \E i \in 1..2 : IsMedia(parts[i]) /\ parts[3 - i].kind = "text"
  THEN SelectSeq(parts, IsMedia) ELSE parts

(* The reply and the thread: the first message of a subthread starts the   *)
(* thread at what it replies to.                                           *)
ReplyOf(msg) == [reply |-> msg.reply /\ ~msg.subthread,
                 root |-> (msg.reply /\ msg.subthread) \/ msg.inThread]

(* After a merge the part takes the first of the important IDs.            *)
MutToMatrix(msg, cfg) ==
  IF msg.unsent THEN <<>>
  ELSE LET all == AttachmentParts(msg, cfg) \o TextParts(msg)
           parts == Finish(IF all # <<>> THEN all
                           ELSE <<[Part("notice") EXCEPT
                                     !.unsupported = TRUE]>>)
       IN MergeCaption([i \in 1..Len(parts) |->
            [parts[i] EXCEPT !.id = MakeMessagePartID(i - 1)]])

ToMatrix(msg, cfg) ==
  IF msg.unsent THEN <<>>
  ELSE LET all == AttachmentParts(msg, cfg) \o TextParts(msg)
           parts == Finish(IF all # <<>> THEN all
                           ELSE <<[Part("notice") EXCEPT
                                     !.unsupported = TRUE]>>)
           merged == MergeCaption(parts)
       IN IF merged = parts THEN parts
          ELSE <<[merged[1] EXCEPT !.id = importantPartIDs(msg)[1]]>>

-----------------------------------------------------------------------------
(* Properties of a message and the parts it was converted into.            *)

(* Part IDs of two schemas coexist in a message: no two parts share one.   *)
PartIdsUnique(parts) ==
  \A i, j \in 1..Len(parts) : i # j => parts[i].id # parts[j].id

(* With direct media every file keeps, through numbering and merging, the  *)
(* ID that its URI names.  (Not so when a share that turned into text is   *)
(* merged with a file.)                                                    *)
MediaKeepsId(msg, parts) ==
  \A i \in 1..Len(parts) :
    IsMedia(parts[i]) /\ parts[i].uri \notin {Unset, NoURI} =>
      \/ parts[i].id = parts[i].uri
      \/ \E x \in ToSet(msg.xmas) :
           x.cta = "profile" \/ (x.url = "" /\ x.title)

(* Whatever was sent is shown or pointed out: every file that is not a     *)
(* copy, a link preview or poll data has a part of its own, and no message *)
(* but an unsent one becomes nothing.                                      *)
NothingLost(msg, parts) ==
  IF msg.unsent THEN parts = <<>>
  ELSE /\ parts # <<>>
       /\ Cardinality({i \in 1..Len(parts) : parts[i].kind # "text"})
            >= Cardinality({b.fbid : b \in ToSet(msg.blobs)} \ {""})
               + Cardinality({i \in 1..Len(msg.blobs) :
                                msg.blobs[i].fbid = ""})
               + Len(msg.atts) + Len(Stickers(msg))

(* No part carries its link twice, and one that is not supported has one.  *)
OneLink(parts) ==
  \A i \in 1..Len(parts) :
    parts[i].links <= 1 /\ (parts[i].unsupported => parts[i].links = 1)
=============================================================================
