--------------------------- MODULE MCConversions ----------------------------
(***************************************************************************)
(* Calls of the conversions of messages and media, with MCHandlers of the  *)
(* functions that handle events, and with MCCodec of those that encode.    *)
(***************************************************************************)
EXTENDS MCHandlers, MCCodec

FM == INSTANCE FromMeta
WA == INSTANCE WhatsAppConv
TM == INSTANCE ToMetaConv
DM == INSTANCE DirectMedia

-----------------------------------------------------------------------------
(* Inputs.                                                                 *)

File(url, type, transfer, fbid) ==
  [url |-> url, mime |-> "image", type |-> type, transfer |-> transfer,
   fbid |-> fbid, viewOnce |-> type = "ephemeralImage"]

BlobFiles == {File("u", "image", "ok", "1"), File("u", "video", "ok", "2"),
              File("u", "file", "ok", ""), File("", "image", "ok", "1"),
              File("u", "image", "too large", "3")}
LegacyFiles == {File("u", "ephemeralImage", "ok", "4"),
                File("u", "audio", "fails", "5")}
StickerFiles == {File("u", "sticker", "ok", "6"),
                 File("", "sticker", "ok", "")}

Share(cta, url, title) ==
  [cta |-> cta, native |-> title, title |-> title, url |-> url,
   mime |-> "image", type |-> "other", transfer |-> "ok", again |-> "ok",
   items |-> <<>>, child |-> "", fetch |-> ""]

(* A post or story, what its lookup returns and whether that can be        *)
(* transferred.  The post has a carousel with a picture and a video.       *)
Item(id) == [id |-> id, video |-> <<>>,
             image |-> <<<<"small", 1>>, <<"big", 2>>>>,
             carousel |-> <<[id |-> "p", video |-> <<>>,
                             image |-> <<<<"p", 1>>>>],
                            [id |-> "v", video |-> <<>>, image |-> <<>>]>>]
Post(cta, fetch, child, again) ==
  [Share(cta, "u", TRUE) EXCEPT
     !.items = IF fetch = "empty" THEN <<>> ELSE <<Item("1"), Item("2")>>,
     !.fetch = IF fetch = "empty" THEN "success" ELSE fetch,
     !.child = child, !.again = again]

Shares == {Share("link", "u", TRUE), Share("poll", "", TRUE),
           Share("location", "u", TRUE), Share("location", "u", FALSE),
           Share("profile", "u", TRUE), Share("none", "", TRUE),
           Share("other", "u", TRUE), Share("other", "", FALSE),
           Post("post", "success", "p", "ok"),
           Post("story", "success", "2", "fails"),
           Post("story2", "fetch fail", "", "ok")}
MoreShares == Shares \cup
  {Post("post", "success", "v", "ok"), Post("post", "empty", "", "ok"),
   Post("story", "parse fail", "1", "ok"), Post("story", "success", "3", "ok"),
   Post("story2", "success", "", "ok")}

MetaMessages ==
  [unsent : {FALSE}, thumbsUp : BOOLEAN, text : BOOLEAN, admin : {FALSE},
   snippet : {FALSE}, reply : {FALSE}, subthread : {FALSE},
   inThread : {FALSE}, blobs : Upto(BlobFiles, 2), atts : Upto(LegacyFiles, 1),
   xmas : Upto(MoreShares, 1), stickers : Upto(StickerFiles, 1)]
  \cup
  [unsent : BOOLEAN, thumbsUp : {FALSE}, text : BOOLEAN, admin : BOOLEAN,
   snippet : BOOLEAN, reply : BOOLEAN, subthread : {TRUE},
   inThread : {FALSE}, blobs : Upto(BlobFiles, 1), atts : {<<>>},
   xmas : Upto(Shares, 2), stickers : {<<>>}]

MetaConfigs ==
  {[direct |-> d, disableViewOnce |-> d, instagram |-> i, fetchXMA |-> d]
     : d \in BOOLEAN, i \in BOOLEAN}

(* A message for WhatsApp: of every type, with every failure, and pictures *)
(* of sizes around the limits of thumbnails.                               *)
Content(type, mime, size, measured, voice, fails) ==
  [type |-> type, mime |-> mime, size |-> size, measured |-> measured,
   voice |-> voice, gif |-> FALSE, caption |-> TRUE, fails |-> fails,
   uri |-> [geo |-> TRUE, numbers |-> <<1, 1>>], replyTo |-> "wa",
   ownTimer |-> FALSE, timer |-> 0]

Sizes == {<<w, h>> : w \in {1, 3, 399, 400, 401, 1000},
                     h \in {1, 2, 400, 401, 1000, 2000}}

Contents ==
  {Content("image", mime, s, <<0, 0>>, FALSE, "no")
     : mime \in {"image", "image/gif"}, s \in Sizes}
  \cup {Content(t, t, s, <<0, 0>>, FALSE, "no")
          : t \in {"video", "sticker"}, s \in Sizes}
  \cup {Content("image", mime, <<0, 0>>, s, FALSE, "no")
          : mime \in {"image", "image/gif"},
            s \in {<<0, 0>>, <<500, 300>>, <<1000, 1>>}}
  \cup {Content(t, t, <<0, 0>>, <<0, 0>>, v, f)
          : t \in {"video", "audio", "file", "sticker", "text", "emote",
                   "unknown"},
            v \in BOOLEAN, f \in {"no", "download", "upload", "convert"}}
  \cup {[Content("location", "", <<0, 0>>, <<0, 0>>, FALSE, "no")
           EXCEPT !.uri = [geo |-> g, numbers |-> n], !.replyTo = "fb"]
          : g \in BOOLEAN,
            n \in {<<>>, <<1>>, <<1, 0>>, <<1, 1>>, <<1, 1, 1>>}}
  \cup {[Content("text", "", <<0, 0>>, <<0, 0>>, FALSE, "no")
           EXCEPT !.ownTimer = o, !.timer = t]
          : o \in BOOLEAN, t \in {0, 7}}

Portals == {[timer |-> 0, type |-> "none", stamped |-> FALSE],
            [timer |-> 7, type |-> "after send", stamped |-> TRUE]}

WAConfigs == [direct : BOOLEAN, disableViewOnce : BOOLEAN]

Encrypted(app, content, inner, images, fails, e) ==
  [app |-> app, content |-> content, mime |-> inner, caption |-> TRUE,
   remote |-> FALSE, fails |-> fails, inner |-> inner, body |-> TRUE,
   images |-> images, viewOnce |-> TRUE, quoted |-> FALSE, ephemeral |-> e]

Timers == [set : BOOLEAN, type : {"seen once", "seen", "unknown"},
           timer : {0, 7}, stamped : BOOLEAN]

WAMessages ==
  {Encrypted("consumer", c, i, 0, f, e)
     : c \in {"text", "image", "video", "audio", "document", "sticker",
              "location", "contact"},
       i \in {"image/gif", "video"}, f \in {"no", "download"}, e \in Timers}
  \cup {Encrypted("armadillo", c, "image", n, f, e)
          : c \in {"share", "location", "story reply", "bump", "raven",
                   "gallery", "unknown"},
            n \in {1, 3}, f \in {"no", "decode"}, e \in Timers}
  \cup {Encrypted(a, "", "", 0, "no", e) : a \in {"none", "instamadillo"},
                                          e \in Timers}

(* Texts with pills between characters of one, two and four bytes, and the *)
(* mentions of a message from Meta, in any order.                          *)
Chars == {TM!Ascii, TM!Accented, TM!Emoticon}
Pills == {[user |-> "u", name |-> <<TM!Ascii>>],
          [user |-> "v", name |-> <<TM!Ascii, TM!Ascii>>]}
Bodies == Upto(Chars \cup Pills, 4)

Mentions ==
  Upto([id : {"u", "v"}, type : {"p", "t"}, offset : -1..4,
        length : {0, 2, 9}], 2)

Tasks ==
  [community : BOOLEAN, root : BOOLEAN, subthread : {0, 2}, thread : {1},
   sticker : BOOLEAN, type : {"text", "image", "video", "audio", "unknown"},
   fails : {"no", "download", "convert"}, voice : BOOLEAN, ffmpeg : BOOLEAN,
   fbid : {0, 5}, instagram : BOOLEAN, fallback : {0, 6},
   reply : {"fb", "wa"}, caption : {TRUE}]

(* Media IDs, also with an ID of the greatest length; what a refresh finds *)
(* when the messages and the database have two files each.                 *)
MediaIDs ==
  [type : {t \in 0..255 : DM!isSupported(t)}, user : {[i \in 1..8 |-> i]},
   msg : {<<>>, <<7>>, <<0, 255>>, [i \in 1..255 |-> 1]},
   part : {<<>>, <<9, 9>>, [i \in 1..256 |-> 2]}]

Attachments(url) == {[fbid |-> f, url |-> url] : f \in {"1", "2"}}
FreshMessages ==
  {<<[id |-> "a", blobs |-> <<x, y>>, atts |-> z],
     [id |-> "b", blobs |-> <<[fbid |-> "1", url |-> "other"]>>,
      atts |-> <<>>]>>
     : x \in [fbid : {"1"}, url : {"x", "old"}],
       y \in [fbid : {"2"}, url : {"y", "old"}],
       z \in Upto([fbid : {"3"}, url : {"z"}], 1)}
Parts == {{[msg |-> "a", fbid |-> "1", url |-> "old", saves |-> s],
           [msg |-> "a", fbid |-> "2", url |-> u, saves |-> TRUE],
           [msg |-> "b", fbid |-> "1", url |-> "old", saves |-> TRUE]}
            : s \in BOOLEAN, u \in {"old", "y"}}
Posts == {<<>>} \cup {<<[pk |-> "s", video |-> v, image |-> <<<<"i", 1>>>>],
                       [pk |-> "r", video |-> <<>>, image |-> <<<<"j", 1>>>>]>>
                      : v \in {<<>>, <<<<"v", 1>>, <<"w", 2>>>>}}
Infos ==
  {[xma |-> FALSE, story |-> "", reel |-> FALSE, fbid |-> x[1], msg |-> x[2],
    index |-> x[3], kind |-> "blob"]
     : x \in {<<"1", "a", 1>>, <<"2", "a", 2>>, <<"1", "b", 1>>}}
  \cup {[xma |-> TRUE, story |-> s, reel |-> s # "", fbid |-> "", msg |-> "a",
         index |-> 0, kind |-> "xma"] : s \in {"", "r", "gone"}}

-----------------------------------------------------------------------------
(* Calls.                                                                  *)

Inputs ==
  \/ /\ fn = "ToMatrix"
     /\ \E m \in MetaMessages, c \in MetaConfigs : in = [msg |-> m, cfg |-> c]
  \/ /\ fn = "ToWhatsApp"
     /\ \E c \in Contents, p \in Portals, f \in BOOLEAN :
          in = [c |-> c, portal |-> p, ffmpeg |-> f]
  \/ /\ fn = "WhatsAppToMatrix"
     /\ \E m \in WAMessages, p \in Portals, c \in WAConfigs :
          in = [m |-> m, portal |-> [timer |-> p.timer, type |-> p.type],
                cfg |-> c]
  \/ fn = "parseFormattedBody" /\ in \in Bodies
  \/ fn = "MetaToMatrixText" /\ in \in Mentions
  \/ fn = "ToMeta" /\ in \in Tasks
  \/ fn = "MakeMediaID" /\ in \in MediaIDs
  \/ /\ fn = "Download"
     /\ \E i \in Infos, ms \in FreshMessages, db \in Parts, p \in Posts,
           a \in [first : {"ok", "forbidden", "failed"}, expired : BOOLEAN,
                 loggedIn : BOOLEAN, second : {"ok", "forbidden"}] :
          in = [info |-> i, messages |-> ms, db |-> db, posts |-> p, try |-> a]
  \/ fn = "Chunks" /\ in \in (1..12) \X (2..5)
  \/ HandlerInputs
  \/ CodecInputs

Init == done = FALSE /\ out = <<>> /\ Inputs

CallToMatrix == Call("ToMatrix") /\ out' = FM!ToMatrix(in.msg, in.cfg)

CallToWhatsApp ==
  /\ Call("ToWhatsApp")
  /\ out' = [message |-> WA!ToContent(in.c, in.ffmpeg),
             metadata |-> WA!ToMetadata(in.c, in.portal)]

CallWhatsAppToMatrix ==
  /\ Call("WhatsAppToMatrix")
  /\ out' = WA!WhatsAppToMatrix(in.m, in.portal, in.cfg)

CallParseFormattedBody ==
  Call("parseFormattedBody") /\ out' = TM!parseFormattedBody(in)

CallMetaToMatrixText ==
  Call("MetaToMatrixText") /\ out' = TM!MetaToMatrixText(4, in, {"u"})

CallToMeta == Call("ToMeta") /\ out' = TM!ToMeta(in)

CallMakeMediaID ==
  /\ Call("MakeMediaID")
  /\ out' = DM!MakeMediaID(in.type, in.user, in.msg, in.part)

CallDownload ==
  /\ Call("Download")
  /\ LET fresh == DM!refreshMediaURL(in.info, in.try.loggedIn, in.posts,
                                     in.messages, in.db)
     IN out' = [url |-> fresh,
                result |-> DM!Download(in.info, in.try.first, in.try.expired,
                                       fresh, in.try.second)]

CallChunks == Call("Chunks") /\ out' = DM!Chunks(in[1], in[2])

Next ==
  \/ CallToMatrix \/ CallToWhatsApp \/ CallWhatsAppToMatrix
  \/ CallParseFormattedBody \/ CallMetaToMatrixText \/ CallToMeta
  \/ CallMakeMediaID \/ CallDownload \/ CallChunks
  \/ HandlerNext
  \/ CodecNext

Spec == Init /\ [][Next]_vars

-----------------------------------------------------------------------------
(* The properties of the functions, of every call.                         *)

(* Of a message from Meta nothing is left out but copies, previews and     *)
(* poll data; no two parts share an ID, with direct media a file's part    *)
(* keeps the ID that its URI names, also when a caption was merged into    *)
(* it, and no part shows its link twice.                                   *)
MessageComplete ==
  After("ToMatrix") =>
    /\ FM!PartIdsUnique(out)
    /\ FM!MediaKeepsId(in.msg, out)
    /\ FM!NothingLost(in.msg, out)
    /\ FM!OneLink(out)

(* A message sent to WhatsApp is read by another bridge as what it was,    *)
(* and its thumbnail fits and has a size; of one received the file is      *)
(* where its URI says, and a timer stated again is not announced again.    *)
EncryptedArrives ==
  /\ After("ToWhatsApp") =>
       /\ \A d \in BOOLEAN : WA!RoundTrip(in.c, out.message,
                               [direct |-> d, disableViewOnce |-> FALSE])
       /\ WA!ThumbnailHasSize(in.c, out.message)
  /\ After("WhatsAppToMatrix") =>
       /\ WA!FirstPartHasTheFile(in.m, out)
       /\ WA!AnnouncedOnce(in.m, in.portal, out)

(* Mentions sent to Meta are read back where they were, the links made of  *)
(* mentions from Meta are in order, disjoint and within the text, and a    *)
(* message goes to the thread and the sync group it belongs to.            *)
SentAsWritten ==
  /\ After("parseFormattedBody") => TM!MentionsRoundTrip(in, out)
  /\ After("MetaToMatrixText") => TM!SpansDisjoint(4, out)
  /\ After("ToMeta") => TM!SentWhereItBelongs(in, out)

(* Direct media finds the file that was meant: a media ID is read back as  *)
(* it was made and never when cut off, a refreshed URL is never that of    *)
(* another attachment, and the chunks of a download are the file.          *)
MediaFound ==
  /\ After("MakeMediaID") =>
       DM!MediaIdRoundTrip(in.type, in.user, in.msg, in.part)
  /\ After("Download") => DM!RefreshIsOwn(in.info, in.messages, out.url)
  /\ After("Chunks") => DM!ChunksCover(in[1], in[2])
=============================================================================
