---------------------------- MODULE WhatsAppConv ----------------------------
(***************************************************************************)
(* The conversion of encrypted messages: ToWhatsApp of                     *)
(* pkg/msgconv/to-whatsapp.go and WhatsAppToMatrix of                      *)
(* pkg/msgconv/from-whatsapp.go.                                           *)
(*                                                                         *)
(* A message is a record of its type, the type of its file and what else   *)
(* the conversion looks at; the outcome of a download, an upload or a call *)
(* of ffmpeg is part of it.                                                *)
(***************************************************************************)
EXTENDS Naturals, Sequences, TLC

WAError(what) == [content |-> "error", why |-> what]
IsError(m) == m.content = "error"

-----------------------------------------------------------------------------
(* Matrix to WhatsApp.                                                     *)

MutClampTo400(w, h) ==
  LET h1 == IF w > 400 THEN (h \div w) * 400 ELSE h
      w1 == IF w > 400 THEN 400 ELSE w
  IN IF h1 > 400 THEN <<(w1 * 400) \div h1, 400>> ELSE <<w1, h1>>

(* clampTo400: into a square of 400, with Go's integer division.           *)
clampTo400(w, h) ==
  LET h1 == IF w > 400 THEN (h * 400) \div w ELSE h
      w1 == IF w > 400 THEN 400 ELSE w
  IN IF h1 > 400 THEN <<(w1 * 400) \div h1, 400>> ELSE <<w1, h1>>

msgToMediaType(type) ==
  CASE type \in {"image", "sticker"} -> "image"
    [] type \in {"video", "audio"} -> type
    [] OTHER -> "document"

(* parseGeoURI: geo:, then exactly two numbers; what follows a semicolon   *)
(* does not matter.  The coordinates are the numbers of the sequence, and  *)
(* 0 stands for text that is not one.                                      *)
parseGeoURI(uri) ==
  uri.geo /\ Len(uri.numbers) = 2 /\ \A i \in 1..2 : uri.numbers[i] # 0

(* reuploadMediaToWhatsApp.  A voice message becomes m4a, a gif becomes a  *)
(* video; an image without a size is measured, and its thumbnail has the   *)
(* size 400x400 if that is not possible either.                            *)
Voice(c, ffmpeg) == c.voice /\ ffmpeg

reuploadMediaToWhatsApp(c, ffmpeg) ==
  LET mime == IF Voice(c, ffmpeg) THEN "audio/mp4" ELSE c.mime
      gif == c.type = "image" /\ mime = "image/gif"
      size == IF c.type = "image" /\ c.size[1] = 0 THEN c.measured ELSE c.size
      type == IF gif THEN "video" ELSE c.type
      clamped == clampTo400(size[1], size[2])
  IN IF c.fails \in {"download", "upload"} THEN WAError(c.fails)
     ELSE IF Voice(c, ffmpeg) /\ c.fails = "convert" THEN WAError("convert")
     ELSE [content |-> type, mime |-> mime, gif |-> gif \/ c.gif,
           mediaType |-> msgToMediaType(type), size |-> size,
           thumb |-> IF clamped[1] = 0 /\ type = "image" THEN <<400, 400>>
                     ELSE clamped]

(* wrapWhatsAppMedia: only images and videos have room for a caption.      *)
wrapWhatsAppMedia(m, c) ==
  [content |-> IF m.content = "file" THEN "document" ELSE m.content,
   mime |-> m.mime, gif |-> m.gif /\ m.content = "video",
   mediaType |-> m.mediaType, thumb |-> m.thumb,
   caption |-> c.caption /\ m.content \in {"image", "video"}]

Plain(content) == [content |-> content, mime |-> "", gif |-> FALSE,
                   mediaType |-> "", thumb |-> <<0, 0>>, caption |-> FALSE]

Media == {"image", "video", "audio", "file", "sticker"}

(* The content.                                                            *)
ToContent(c, ffmpeg) ==
  CASE c.type \in {"text", "notice", "emote"} -> Plain("text")
    [] c.type \in Media ->
         LET up == reuploadMediaToWhatsApp(c, ffmpeg)
         IN IF IsError(up) THEN up ELSE wrapWhatsAppMedia(up, c)
    [] c.type = "location" ->
         IF parseGeoURI(c.uri) THEN Plain("location") ELSE WAError("geo")
    [] OTHER -> WAError("unsupported")

(* The metadata: a quote if the message replied to is a WhatsApp message,  *)
(* and the timer of the message, else of the portal, without a type.       *)
ToMetadata(c, portal) ==
  [quoted |-> c.replyTo = "wa",
   ephemeral |->
     LET timer == IF c.ownTimer THEN c.timer ELSE portal.timer
     IN IF timer > 0
        THEN [set |-> TRUE, type |-> "unknown", timer |-> timer,
              stamped |-> portal.stamped]
        ELSE [set |-> FALSE, type |-> "unknown", timer |-> 0,
              stamped |-> FALSE]]

-----------------------------------------------------------------------------
(* WhatsApp to Matrix.                                                     *)

WAPart(kind, uri) == [kind |-> kind, uri |-> uri]
Notice == <<WAPart("notice", FALSE)>>

(* reuploadWhatsAppAttachment: with direct media only a URI is made, whose *)
(* part ID is always empty; else the file is copied, after a conversion.   *)
reuploadWhatsAppAttachment(kind, m, cfg) ==
  IF cfg.direct THEN WAPart(kind, TRUE)
  ELSE IF m.fails \in {"download", "upload", "convert"}
  THEN WAPart("notice", FALSE) ELSE WAPart(kind, FALSE)

(* addVideoMetadata: an image that came as a video is an image.            *)
IsImageType(mime) == mime \in {"image/gif", "image/png", "image"}
MutVideoKind(mime) == "video"
VideoKind(mime) == IF IsImageType(mime) THEN "image" ELSE "video"

MutConvertWhatsAppMedia(m, cfg) ==
  LET kind == CASE m.content = "document" -> "file"
                [] m.content = "video" -> VideoKind(m.mime)
                [] OTHER -> m.content
      part == reuploadWhatsAppAttachment(kind, m, cfg)
  IN (IF m.caption THEN <<WAPart("text", FALSE)>> ELSE <<>>) \o <<part>>

(* convertWhatsAppMedia and the functions for the types of media.  A       *)
(* sticker that has to be fetched is only pointed out.                     *)
convertWhatsAppMedia(m, cfg) ==
  LET kind == CASE m.content = "document" -> "file"
                [] m.content = "video" -> VideoKind(m.mime)
                [] OTHER -> m.content
      part == IF m.content = "sticker" /\ m.remote THEN Notice[1]
              ELSE reuploadWhatsAppAttachment(kind, m, cfg)
  IN <<part>> \o (IF m.caption THEN <<WAPart("text", FALSE)>> ELSE <<>>)

waConsumerToMatrix(m, cfg) ==
  CASE m.content = "text" -> <<WAPart("text", FALSE)>>
    [] m.content \in {"image", "video", "audio", "document", "sticker"} ->
         convertWhatsAppMedia(m, cfg)
    [] m.content \in {"location", "live location"} ->
         <<WAPart("location", FALSE)>>
    [] OTHER -> Notice                      \* contacts and what is unknown

(* waArmadilloToMatrix: shares (a location among them, or the reply to a   *)
(* story around a consumer message), bumps, media that is seen once, and   *)
(* galleries.                                                              *)
waExtendedContentMessageToMatrix(m, cfg) ==
  IF m.content = "location" THEN <<WAPart("location", FALSE)>>
  ELSE IF m.content = "story reply" /\ m.fails # "decode"
  THEN waConsumerToMatrix([m EXCEPT !.content = m.inner], cfg)
  ELSE IF m.body THEN <<WAPart("text", FALSE)>> ELSE Notice

waRavenMessageToMatrix(m, cfg) ==
  IF (cfg.disableViewOnce /\ m.viewOnce) \/ m.fails = "decode" THEN Notice
  ELSE <<reuploadWhatsAppAttachment(m.inner, m, cfg)>>

waArmadilloGalleryToMatrix(m, cfg) ==
  IF m.fails = "decode" THEN Notice
  ELSE [i \in 1..m.images |-> reuploadWhatsAppAttachment("image", m, cfg)]

waArmadilloToMatrix(m, cfg) ==
  CASE m.content \in {"share", "location", "story reply"} ->
         waExtendedContentMessageToMatrix(m, cfg)
    [] m.content = "bump" -> <<WAPart("text", FALSE)>>
    [] m.content = "raven" -> waRavenMessageToMatrix(m, cfg)
    [] m.content = "gallery" -> waArmadilloGalleryToMatrix(m, cfg)
    [] OTHER -> Notice

(* The disappearing timer of a chat, as a message states it.               *)
NoTimer == [timer |-> 0, type |-> "none"]

Disappear(e) ==
  LET timer == IF e.type = "seen once" THEN 300 ELSE e.timer
      type == IF e.type \in {"seen once", "seen"} THEN "after read"
              ELSE "after send"
  IN IF ~e.set \/ timer = 0 THEN NoTimer
     ELSE [timer |-> timer, type |-> type]

(* The portal's setting after the message: an implicit change if the       *)
(* message states another setting and when it was made, an explicit one if *)
(* it has no other content.  UpdateDisappearingSetting is external.        *)
MutPortalAfter(m, portal) ==
  IF m.ephemeral.set /\ m.app = "none" THEN Disappear(m.ephemeral)
  ELSE portal

PortalAfter(m, portal) ==
  IF m.ephemeral.set /\ (m.app = "none" \/ m.ephemeral.stamped)
  THEN Disappear(m.ephemeral) ELSE portal

(* The notice about the change.  An implicit change sends one if the       *)
(* setting is another.  The notice of an explicit change is a part of the  *)
(* message, kept back (DontBridge) if it states the setting the portal     *)
(* has by then: after UpdateDisappearingSetting, and so always.            *)
DontBridge(m, portal) == Disappear(m.ephemeral) = PortalAfter(m, portal)

Announced(m, portal) ==
  /\ m.ephemeral.set
  /\ IF m.app = "none" THEN ~DontBridge(m, portal)
     ELSE m.ephemeral.stamped /\ Disappear(m.ephemeral) # portal

(* What the message replies to.  For a bump it is the bumped message, with *)
(* the ID of the quoted one, which is not there.                           *)
ReplyTo(m) ==
  CASE m.quoted -> "quoted"
    [] m.app = "armadillo" /\ m.content = "bump" -> "no ID"
    [] OTHER -> "none"

WAParts(m, cfg) ==
  CASE m.app = "consumer" -> waConsumerToMatrix(m, cfg)
    [] m.app = "armadillo" -> waArmadilloToMatrix(m, cfg)
    [] OTHER -> Notice

WhatsAppToMatrix(m, portal, cfg) ==
  [parts |-> WAParts(m, cfg), replyTo |-> ReplyTo(m),
   portal |-> PortalAfter(m, portal), announced |-> Announced(m, portal)]

-----------------------------------------------------------------------------
(* Properties.                                                             *)

(* A message as the other side gets it.                                    *)
Sent(m) == m @@ [app |-> IF m.content = "location" THEN "armadillo"
                         ELSE "consumer",
                 remote |-> FALSE, fails |-> "no", images |-> 0,
                 inner |-> "", body |-> FALSE, viewOnce |-> FALSE]

(* What another bridge makes of what this one sends: the same kind of      *)
(* message.  Gifs travel as videos, locations as shares with a link, voice *)
(* messages as m4a, and they all arrive as what they were.                 *)
RoundTrip(c, m, cfg) ==
  IsError(m) \/
  LET back == WAParts(Sent(m), cfg)
      type == IF c.type \in {"notice", "emote"} THEN "text" ELSE c.type
  IN \E i \in 1..Len(back) : back[i].kind = type

(* With direct media a download gets the part its URI names.  WhatsApp     *)
(* URIs name no part and get the first, so a file is the first part of its *)
(* message; only the images of a gallery are not.                          *)
FirstPartHasTheFile(m, out) ==
  \A i \in 2..Len(out.parts) : out.parts[i].uri => m.content = "gallery"

(* The timer that is shown follows the setting: a message with content is  *)
(* announced as a change exactly if it changes the portal's setting, and   *)
(* none, delivered a second time or repeated by someone else, is announced *)
(* again.  (An explicit change is not announced at all: its notice is      *)
(* compared with the setting that was just made.)                          *)
AnnouncedOnce(m, portal, out) ==
  /\ out.announced <=> out.portal # portal /\ m.app # "none"
  /\ ~Announced(m, out.portal)

(* No thumbnail is larger than 400, and every one has a size in both       *)
(* directions (phones show no media without), except in two cases: of a    *)
(* picture or video thinner than one in 400 a side is rounded to nothing,  *)
(* and of what is not sent as a picture and comes without a size nothing   *)
(* is measured.                                                            *)
Thin(size) == size[1] > 400 * size[2] \/ size[2] > 400 * size[1]

ThumbnailHasSize(c, m) ==
  ~IsError(m) /\ m.mediaType # "" =>
    /\ m.thumb[1] <= 400 /\ m.thumb[2] <= 400
    /\ \/ m.thumb[1] > 0 /\ m.thumb[2] > 0
       \/ Thin(c.size) \/ Thin(c.measured)
       \/ m.content # "image" /\ c.size = <<0, 0>> /\ c.measured = <<0, 0>>
=============================================================================
