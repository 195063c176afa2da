---------------------------- MODULE DirectMedia -----------------------------
(***************************************************************************)
(* Direct media: the IDs in content URIs (pkg/metaid/mediaid.go), the      *)
(* download of a file from Meta when a Matrix client asks for it and the   *)
(* refresh of URLs that have expired (pkg/connector/directmedia.go), and   *)
(* downloads in chunks (pkg/msgconv/media.go).                             *)
(***************************************************************************)
EXTENDS Integers, Sequences, SequencesExt, FiniteSets

-----------------------------------------------------------------------------
(* Media IDs: sequences of bytes.                                          *)

DirectMediaTypeMetaV1 == 2
DirectMediaTypeWhatsAppV1 == 3
DirectMediaTypeMetaV2 == 4
DirectMediaTypeWhatsAppV2 == 5

isSupported(type) ==
  type \in {DirectMediaTypeMetaV1, DirectMediaTypeWhatsAppV1,
            DirectMediaTypeMetaV2, DirectMediaTypeWhatsAppV2}
includesPartID(type) ==
  type \notin {DirectMediaTypeMetaV1, DirectMediaTypeWhatsAppV1}

UserBytes == 8

(* The lengths are written as one byte each.                               *)
MutMakeMediaID(type, user, msg, part) ==
  <<type>> \o user \o <<(Len(msg) + 1) % 256>> \o msg
    \o (IF includesPartID(type) THEN <<Len(part) % 256>> \o part ELSE <<>>)

MakeMediaID(type, user, msg, part) ==
  <<type>> \o user \o <<Len(msg) % 256>> \o msg
    \o (IF includesPartID(type) THEN <<Len(part) % 256>> \o part ELSE <<>>)

(* ParseMediaID: every read is checked against what is left.               *)
Bad == [type |-> 0, user |-> <<>>, msg |-> <<>>, part |-> <<>>]

ParseMediaID(id) ==
  LET n == Len(id)
      at == 1 + UserBytes + 1            \* where the message's length is
      ok == n >= 1 /\ isSupported(id[1]) /\ n >= at /\ n >= at + id[at]
      end == at + id[at]
      withPart == includesPartID(id[1])
      okPart == n > end /\ n >= end + 1 + id[end + 1]
  IN IF ~ok THEN Bad
     ELSE IF withPart /\ ~okPart THEN Bad
     ELSE [type |-> id[1], user |-> SubSeq(id, 2, UserBytes + 1),
           msg |-> SubSeq(id, at + 1, end),
           part |-> IF withPart THEN SubSeq(id, end + 2, end + 1 + id[end + 1])
                    ELSE <<>>]

-----------------------------------------------------------------------------
(* Refreshing a URL.                                                       *)

(* extractBestURL: the largest version of the video, else of the image.    *)
(* (A version is a pair of URL and area; "" is no URL.)                    *)
Best(versions) ==
  FoldLeft(LAMBDA best, v : IF v[2] > best[2] THEN v ELSE best,
           <<"", 0>>, versions)

extractBestURL(item) ==
  IF Best(item.video)[1] # "" THEN Best(item.video)[1]
  ELSE FoldLeft(LAMBDA best, v : IF v[2] > best[2] THEN v ELSE best,
                <<"", Best(item.video)[2]>>, item.image)[1]

(* refreshXMAMedia.  Of a story with the reel's ID the item with the       *)
(* story's ID, else the first; of anything else the first item, also when  *)
(* the message shared another picture of the post.                         *)
refreshXMAMedia(info, items) ==
  LET same == SelectSeq(items, LAMBDA i : i.pk = info.story)
  IN IF items = <<>> THEN ""
     ELSE IF info.story # "" /\ info.reel /\ same # <<>>
     THEN extractBestURL(same[1]) ELSE extractBestURL(items[1])

(* refreshBlobMedia: the messages around are fetched again, and every part *)
(* in the database whose attachment has another URL now gets it.  An       *)
(* attachment is a record of fbid and url; att overrides blob.             *)
FreshURLs(m) ==
  LET all == SelectSeq(m.blobs \o m.atts,
                       LAMBDA a : a.fbid # "" /\ a.url # "")
  IN [f \in {a.fbid : a \in ToSet(all)} |->
        all[CHOOSE i \in 1..Len(all) :
              /\ all[i].fbid = f
              /\ \A j \in (i + 1)..Len(all) : all[j].fbid # f].url]

UpdatePart(part, m) ==
  LET fresh == FreshURLs(m)
  IN IF /\ part.msg = m.id /\ part.fbid \in DOMAIN fresh
        /\ fresh[part.fbid] # part.url /\ part.saves
     THEN [part EXCEPT !.url = fresh[part.fbid]] ELSE part

Changed(part, m) == UpdatePart(part, m) # part

(* The URL of the part asked for: the one it got, else the one of the blob *)
(* with its index.                                                         *)
MutRefreshBlobMedia(info, messages, db) ==
  FoldLeft(LAMBDA url, m :
             LET hit == \E p \in db : Changed(p, m) /\ p.fbid = info.fbid
             IN IF url = "" /\ m.id = info.msg /\ hit
                THEN FreshURLs(m)[info.fbid]
                ELSE IF url = "" /\ info.index \in 1..Len(m.blobs)
                THEN m.blobs[info.index].url ELSE url,
           "", messages)

refreshBlobMedia(info, messages, db) ==
  FoldLeft(LAMBDA url, m :
             LET hit == \E p \in db : Changed(p, m) /\ p.fbid = info.fbid
             IN IF m.id # info.msg THEN url
                ELSE IF hit THEN FreshURLs(m)[info.fbid]
                ELSE IF url = "" /\ info.index \in 1..Len(m.blobs)
                THEN m.blobs[info.index].url ELSE url,
           "", messages)

(* refreshMediaURL: "" if the user is not logged in or nothing is found.   *)
refreshMediaURL(info, loggedIn, items, messages, db) ==
  IF ~loggedIn THEN ""
  ELSE IF info.xma THEN refreshXMAMedia(info, items)
  ELSE IF info.fbid # "" THEN refreshBlobMedia(info, messages, db)
  ELSE ""

(* Download of a Meta file: first with the stored URL; if that is refused, *)
(* or fails and the URL has expired, with a refreshed one, once.           *)
Download(info, first, expired, refreshed, second) ==
  IF first = "ok" THEN <<"stored", "ok">>
  ELSE IF first = "forbidden" \/ expired
  THEN IF refreshed = "" THEN <<"stored", first>> ELSE <<"fresh", second>>
  ELSE <<"stored", first>>

-----------------------------------------------------------------------------
(* chunkedVideoDownloader: the ranges it asks for, from offset 0 until the *)
(* offset has passed the total size.  The last range may name one byte     *)
(* more than there is.                                                     *)
NextEnd(offset, total, chunkSize) ==
  IF offset + chunkSize - 1 > total THEN total - 1 ELSE offset + chunkSize - 1

MutChunks(total, chunkSize) ==
  LET n == (total + chunkSize - 1) \div chunkSize
  IN FoldLeft(LAMBDA rs, i :
                IF rs # <<>> /\ Last(rs)[2] >= total THEN rs
                ELSE LET offset == IF rs = <<>> THEN 0 ELSE Last(rs)[2]
                     IN Append(rs, <<offset,
                                     NextEnd(offset, total, chunkSize)>>),
              <<>>, [i \in 1..n |-> i])

Chunks(total, chunkSize) ==
  LET n == (total + chunkSize - 1) \div chunkSize
  IN FoldLeft(LAMBDA rs, i :
                IF rs # <<>> /\ Last(rs)[2] + 1 >= total THEN rs
                ELSE LET offset == IF rs = <<>> THEN 0 ELSE Last(rs)[2] + 1
                     IN Append(rs, <<offset,
                                     NextEnd(offset, total, chunkSize)>>),
              <<>>, [i \in 1..n |-> i])

(* External: the server returns the bytes of the range that exist.         *)
Received(ranges, total) ==
  FoldLeft(LAMBDA bytes, r :
             bytes \o [i \in 1..((IF r[2] < total THEN r[2] ELSE total - 1)
                                  - r[1] + 1) |-> r[1] + i - 1],
           <<>>, ranges)

-----------------------------------------------------------------------------
(* Properties.                                                             *)

(* A media ID is read back as what it was made of, as long as no ID has    *)
(* more than 255 bytes, and an ID that was cut off anywhere is refused.    *)
MediaIdRoundTrip(type, user, msg, part) ==
  LET id == MakeMediaID(type, user, msg, part)
  IN Len(msg) < 256 /\ Len(part) < 256 =>
       /\ ParseMediaID(id) =
            [type |-> type, user |-> user, msg |-> msg,
             part |-> IF includesPartID(type) THEN part ELSE <<>>]
       /\ \A n \in 0..(Len(id) - 1) : ParseMediaID(SubSeq(id, 1, n)) = Bad

(* A refresh never returns the file of another attachment: for a blob, if  *)
(* the message still has its blobs in the same order, and for a post that  *)
(* was shared as a whole.  (It does for an attachment of the older kind    *)
(* whose URL has not changed, for one picture of several in a post, and    *)
(* for a story that is gone.)                                              *)
RefreshIsOwn(info, messages, url) ==
  info.kind = "blob" =>
    url \in {""} \cup {a.url : a \in UNION {ToSet(m.blobs) : m \in
                         {x \in ToSet(messages) : x.id = info.msg}}}
    /\ \A m \in ToSet(messages) :
         m.id = info.msg /\ url # "" /\ info.index \in 1..Len(m.blobs) =>
           url = m.blobs[info.index].url

(* The chunks of a video are the whole video, every byte once and in       *)
(* order, whatever its size is relative to the size of a chunk.            *)
ChunksCover(total, chunkSize) ==
  Received(Chunks(total, chunkSize), total) = [i \in 1..total |-> i - 1]
=============================================================================
