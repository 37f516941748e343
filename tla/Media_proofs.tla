----------------------------- MODULE Media_proofs -----------------------------
(***************************************************************************)
(* A listed media row names objects that are there, for any number of      *)
(* uploads, deletes and deploys.  The argument: an object is removed only  *)
(* under the id of a row that is marked already, and that id is neither    *)
(* one of an upload under way nor that of a variant, because ids are given *)
(* out once and variants have no row.                                      *)
(***************************************************************************)
EXTENDS Media, TLAPS

\* What the constants are.
Constants == NoId \notin Ids /\ MaxRebind \in Nat

\* Only ids that were given out occur.
Given ==
    /\ objects \subseteq Places \X used
    /\ \A i \in Ids : /\ rows[i].state # "none" => i \in used
                      /\ rows[i].state = "none" => rows[i].thumb = NoId
                      /\ rows[i].thumb \in used \cup {NoId}
    /\ \A r \in Requests : req[r].id \in used \cup {NoId} /\ req[r].thumb \in used \cup {NoId}

Uploading(r) == req[r].at \in {"variant", "insert"}

\* The id of a variant has no row ...
Variants == \A i \in Ids : rows[i].thumb # NoId => rows[rows[i].thumb].state = "none"

\* ... nor has what is being uploaded, which is stored already.
Uploads ==
    \A r \in Requests : Uploading(r) =>
        /\ req[r].id # NoId /\ rows[req[r].id].state = "none"
        /\ <<req[r].place, req[r].id>> \in objects
        /\ \A i \in Ids : rows[i].thumb # req[r].id
        /\ req[r].thumb # NoId =>
             /\ <<req[r].thumbPlace, req[r].thumb>> \in objects
             /\ rows[req[r].thumb].state = "none" /\ req[r].thumb # req[r].id

\* Two uploads have nothing in common.
Apart ==
    \A q, r \in Requests : q # r /\ Uploading(q) /\ Uploading(r) =>
        req[q].id # req[r].id /\ req[q].id # req[r].thumb

\* A delete that has found a row; it is marked before its object is looked for.
Deletes ==
    \A r \in Requests :
        /\ req[r].at = "mark" => req[r].id # NoId /\ rows[req[r].id].state # "none"
        /\ req[r].at \in {"find", "remove"} =>
              req[r].id # NoId /\ rows[req[r].id].state = "deleted"

MediaInv == TypeOK /\ Given /\ Variants /\ Uploads /\ Apart /\ Deletes /\ LiveRowHasFile

-----------------------------------------------------------------------------
\* What the fields of rows and requests hold, and the values that are written.
LEMMA Fields ==
    ASSUME TypeOK
    PROVE  /\ \A i \in Ids : /\ rows[i].state \in {"none", "live", "deleted"}
                            /\ rows[i].place \in Places /\ rows[i].thumbPlace \in Places
                            /\ rows[i].thumb \in Ids \cup {NoId}
           /\ \A r \in Requests :
                /\ req[r].at \in {"idle", "variant", "insert", "mark", "find", "remove"}
                /\ req[r].place \in Places /\ req[r].thumbPlace \in Places
                /\ req[r].id \in Ids \cup {NoId} /\ req[r].thumb \in Ids \cup {NoId}
  BY DEF TypeOK, Asset, Request

LEMMA Idles ==
    /\ Idle \in Request
    /\ Idle.at = "idle" /\ Idle.id = NoId /\ Idle.thumb = NoId
    /\ \A at \in {"variant", "insert", "mark"}, i \in Ids, p \in Places :
         /\ [Idle EXCEPT !.at = at, !.id = i, !.place = p] \in Request
         /\ [Idle EXCEPT !.at = at, !.id = i] \in Request
  BY DEF Idle, Request, Places

LEMMA RequestGoesOn ==
    ASSUME NEW q \in Request
    PROVE  /\ \A at \in {"insert", "find", "remove"} : [q EXCEPT !.at = at] \in Request
           /\ \A i \in Ids, p \in Places :
                [q EXCEPT !.at = "insert", !.thumb = i, !.thumbPlace = p] \in Request
  BY DEF Request

LEMMA Assets ==
    /\ NoRow \in Asset /\ [NoRow EXCEPT !.state = "live"] \in Asset
    /\ \A q \in Request : Row("live", q) \in Asset
    /\ \A a \in Asset : [a EXCEPT !.state = "deleted"] \in Asset
  BY DEF NoRow, Asset, Request, Row, Places

LEMMA MediaInit == ASSUME Constants PROVE Init => MediaInv
<1> SUFFICES ASSUME Init PROVE MediaInv
  OBVIOUS
<1>1. TypeOK
  <2>1. backend \in {"sqlite", "d1"} /\ objects \subseteq Places \X Ids /\ used \subseteq Ids
        /\ rows \in [Ids -> Asset] /\ req \in [Requests -> Request]
    BY Idles, Assets DEF Init
  <2>2. bucket \in BOOLEAN
    BY DEF Init
  <2>3. rebinds \in 0..MaxRebind
    BY DEF Init, Constants
  <2> QED
    BY <2>1, <2>2, <2>3 DEF TypeOK
<1>2. \A r \in Requests : req[r].at = "idle" /\ req[r].id = NoId /\ req[r].thumb = NoId
  BY Idles DEF Init
<1>3. \A i \in Ids : rows[i].state = "none" /\ rows[i].thumb = NoId
  BY DEF Init, NoRow
<1>4. objects = {} /\ used = {}
  BY DEF Init
<1> QED
  BY <1>1, <1>2, <1>3, <1>4
     DEF MediaInv, Given, Variants, Uploads, Apart, Deletes, LiveRowHasFile, Uploading

\* SQLite: a file is written under a new id, with or without its row.
LEMMA MediaUpload ==
    ASSUME Constants, MediaInv, NEW i \in Ids, Upload(i) \/ UploadKilled(i)
    PROVE  MediaInv'
<1>0. TypeOK /\ Given /\ i \notin used /\ used' = used \cup {i} /\ req' = req
      /\ objects' = objects \cup {<<"disk", i>>}
  BY DEF MediaInv, Upload, UploadKilled
<1>1. rows' = rows \/ rows' = [rows EXCEPT ![i] = [NoRow EXCEPT !.state = "live"]]
  BY DEF Upload, UploadKilled
<1>2. TypeOK'
  BY <1>0, <1>1, Assets DEF Upload, UploadKilled, TypeOK, Places
<1>3. \A j \in Ids : /\ rows'[j].thumb = rows[j].thumb
                     /\ j # i => rows'[j] = rows[j]
                     /\ rows'[j].state = "live" /\ j = i =>
                          rows'[j].thumb = NoId /\ rows'[j].place = "disk"
  BY <1>0, <1>1 DEF TypeOK, Given, NoRow
<1>4. Given'
  BY <1>0, <1>3 DEF Given, Places
<1>5. Variants' /\ LiveRowHasFile'
  BY <1>0, <1>3, Fields DEF Constants, MediaInv, Given, Variants, LiveRowHasFile
<1>6. Uploads' /\ Apart' /\ Deletes'
  BY <1>0, <1>3, Fields DEF Constants, MediaInv, Given, Uploads, Apart, Deletes, Uploading
<1> QED
  BY <1>2, <1>4, <1>5, <1>6 DEF MediaInv

\* D1: an object is put under a new id, the first of an upload or a variant.
LEMMA MediaStore ==
    ASSUME Constants, MediaInv, NEW r \in Requests, NEW i \in Ids,
           Store(r, i) \/ StoreVariant(r, i)
    PROVE  MediaInv'
<1>0. TypeOK /\ Given /\ i \notin used /\ used' = used \cup {i} /\ rows' = rows
      /\ objects' = objects \cup {<<Here, i>>} /\ Here \in Places /\ i # NoId
  BY DEF Constants, MediaInv, Store, StoreVariant, Here, Places
<1>1. rows[i].state = "none" /\ \A j \in Ids : rows[j].thumb # i
  BY <1>0 DEF Given
<1>2. TypeOK'
  <2>1. req' \in [Requests -> Request]
    <3>1. CASE Store(r, i)
      <4>1. PICK at \in {"variant", "insert"} :
              req' = [req EXCEPT ![r] = [Idle EXCEPT !.at = at, !.id = i, !.place = Here]]
        BY <3>1 DEF Store
      <4>2. [Idle EXCEPT !.at = at, !.id = i, !.place = Here] \in Request
        BY <1>0, Idles
      <4> QED
        BY <1>0, <4>1, <4>2 DEF TypeOK
    <3>2. CASE StoreVariant(r, i)
      <4>1. /\ req[r] \in Request
            /\ req' = [req EXCEPT ![r] = [req[r] EXCEPT !.at = "insert", !.thumb = i, !.thumbPlace = Here]]
        BY <1>0, <3>2 DEF StoreVariant, TypeOK
      <4>2. [req[r] EXCEPT !.at = "insert", !.thumb = i, !.thumbPlace = Here] \in Request
        BY <1>0, <4>1, RequestGoesOn
      <4> QED
        BY <1>0, <4>1, <4>2 DEF TypeOK
    <3> QED
      BY <3>1, <3>2
  <2> QED
    BY <1>0, <2>1 DEF Store, StoreVariant, TypeOK
<1>3. Given'
  <2>1. \A q \in Requests : /\ req'[q].id \in {req[q].id, i}
                            /\ req'[q].thumb \in {req[q].thumb, i, NoId}
    <3>1. CASE Store(r, i)
      BY <1>0, <3>1 DEF Store, TypeOK, Idle
    <3>2. CASE StoreVariant(r, i)
      BY <1>0, <3>2 DEF StoreVariant, TypeOK, Request
    <3> QED
      BY <3>1, <3>2
  <2> QED
    BY <1>0, <2>1 DEF Given
<1>4. \A q \in Requests : /\ q # r => req'[q] = req[q]
                          /\ req[q].id # i /\ req[q].thumb # i
  BY <1>0 DEF Store, StoreVariant, TypeOK, Given
<1>5. CASE Store(r, i)
  <2>1. /\ req'[r].at \in {"variant", "insert"} /\ req'[r].id = i /\ req'[r].place = Here
        /\ req'[r].thumb = NoId
    BY <1>0, <1>5 DEF Store, TypeOK, Idle
  <2>2. Variants' /\ LiveRowHasFile'
    BY <1>0 DEF MediaInv, Variants, LiveRowHasFile
  <2>3. Uploads'
    BY <1>0, <1>1, <1>4, <2>1 DEF MediaInv, Uploads, Uploading
  <2>4. Apart'
    <3> SUFFICES ASSUME NEW p \in Requests, NEW q \in Requests, p # q, Uploading(p)', Uploading(q)'
                 PROVE  req'[p].id # req'[q].id /\ req'[p].id # req'[q].thumb
      BY DEF Apart
    <3>1. CASE p = r
      <4>1. req'[q] = req[q] /\ req'[p].id = i
        BY <1>4, <2>1, <3>1
      <4> QED
        BY <1>4, <4>1
    <3>2. CASE q = r
      <4>1. req'[p] = req[p] /\ Uploading(p) /\ req'[q].id = i /\ req'[q].thumb = NoId
        BY <1>4, <2>1, <3>2 DEF Uploading
      <4> QED
        BY <1>4, <4>1 DEF MediaInv, Uploads
    <3>3. CASE p # r /\ q # r
      BY <1>4, <3>3 DEF MediaInv, Apart, Uploading
    <3> QED
      BY <3>1, <3>2, <3>3
  <2>5. Deletes'
    BY <1>0, <1>4, <2>1 DEF MediaInv, Deletes
  <2> QED
    BY <1>2, <1>3, <2>2, <2>3, <2>4, <2>5 DEF MediaInv
<1>6. CASE StoreVariant(r, i)
  <2>1. /\ req[r].at = "variant" /\ req'[r].at = "insert" /\ req'[r].id = req[r].id
        /\ req'[r].place = req[r].place /\ req'[r].thumb = i /\ req'[r].thumbPlace = Here
    BY <1>0, <1>6 DEF StoreVariant, TypeOK, Request
  <2>2. Variants' /\ LiveRowHasFile'
    BY <1>0 DEF MediaInv, Variants, LiveRowHasFile
  <2>3. Uploads'
    BY <1>0, <1>1, <1>4, <2>1 DEF MediaInv, Uploads, Uploading
  <2>4. Apart'
    <3> SUFFICES ASSUME NEW p \in Requests, NEW q \in Requests, p # q, Uploading(p)', Uploading(q)'
                 PROVE  req'[p].id # req'[q].id /\ req'[p].id # req'[q].thumb
      BY DEF Apart
    <3>1. Uploading(p) /\ Uploading(q) /\ req'[p].id = req[p].id /\ req'[q].id = req[q].id
      BY <1>4, <2>1 DEF Uploading
    <3>2. req'[q].thumb \in {req[q].thumb, i} /\ req[p].id # i
      BY <1>4, <2>1
    <3> QED
      BY <3>1, <3>2 DEF MediaInv, Apart
  <2>5. Deletes'
    BY <1>0, <1>4, <2>1 DEF MediaInv, Deletes
  <2> QED
    BY <1>2, <1>3, <2>2, <2>3, <2>4, <2>5 DEF MediaInv
<1> QED
  BY <1>5, <1>6

\* D1: the row of an upload is inserted.
LEMMA MediaInsert ==
    ASSUME Constants, MediaInv, NEW r \in Requests, Insert(r)
    PROVE  MediaInv'
<1>0. TypeOK /\ Given /\ Uploading(r) /\ objects' = objects /\ used' = used
      /\ req' = [req EXCEPT ![r] = Idle] /\ req[r].id \in Ids
  BY Fields DEF Constants, MediaInv, Insert, Uploads, Uploading
<1>1. /\ rows'[req[r].id] = Row("live", req[r])
      /\ \A i \in Ids : i # req[r].id => rows'[i] = rows[i]
  BY <1>0 DEF Insert, TypeOK
<1>2. TypeOK'
  BY <1>0, Idles, Assets DEF Insert, TypeOK
<1>3. \A q \in Requests : /\ q # r => req'[q] = req[q]
                          /\ req'[r].at = "idle" /\ req'[r].id = NoId /\ req'[r].thumb = NoId
  BY <1>0, Idles DEF TypeOK
<1>4. /\ rows'[req[r].id].state = "live"           /\ rows'[req[r].id].place = req[r].place
      /\ rows'[req[r].id].thumb = req[r].thumb     /\ rows'[req[r].id].thumbPlace = req[r].thumbPlace
  BY <1>1 DEF Row
<1>5. Given'
  BY <1>0, <1>1, <1>3, <1>4 DEF Given, Constants
<1>6. Variants'
  <2> SUFFICES ASSUME NEW i \in Ids, rows'[i].thumb # NoId
               PROVE  rows'[rows'[i].thumb].state = "none"
    BY DEF Variants
  <2>0. /\ \A j \in Ids : rows[j].thumb # req[r].id
        /\ req[r].thumb # NoId => rows[req[r].thumb].state = "none" /\ req[r].thumb # req[r].id
    BY <1>0 DEF MediaInv, Uploads
  <2>1. CASE i = req[r].id
    BY <1>1, <1>4, <2>0, <2>1, <1>0, Fields
  <2>2. CASE i # req[r].id
    <3>1. rows'[i].thumb = rows[i].thumb /\ rows[i].thumb \in Ids /\ rows[i].thumb # req[r].id
      BY <1>0, <1>1, <2>0, <2>2, Fields
    <3>2. rows[rows[i].thumb].state = "none"
      BY <3>1, <2>2 DEF MediaInv, Variants
    <3> QED
      BY <1>1, <3>1, <3>2
  <2> QED
    BY <2>1, <2>2
<1>7. LiveRowHasFile'
  BY <1>0, <1>1, <1>4, Fields DEF MediaInv, Uploads, LiveRowHasFile
<1>8. Uploads'
  <2> SUFFICES ASSUME NEW q \in Requests, q # r, Uploading(q)
               PROVE  /\ req[q].id # NoId /\ rows'[req[q].id].state = "none"
                      /\ <<req[q].place, req[q].id>> \in objects
                      /\ \A i \in Ids : rows'[i].thumb # req[q].id
                      /\ req[q].thumb # NoId =>
                           /\ <<req[q].thumbPlace, req[q].thumb>> \in objects
                           /\ rows'[req[q].thumb].state = "none" /\ req[q].thumb # req[q].id
    BY <1>0, <1>3 DEF Uploads, Uploading
  <2>1. req[q].id # req[r].id /\ req[q].id # req[r].thumb /\ req[q].thumb # req[r].id
    BY <1>0 DEF MediaInv, Apart
  <2> QED
    BY <1>0, <1>1, <1>4, <2>1, Fields DEF MediaInv, Uploads
<1>9. Apart'
  BY <1>3 DEF MediaInv, Apart, Uploading
<1>10. Deletes'
  <2> SUFFICES ASSUME NEW q \in Requests, q # r
               PROVE  /\ req[q].at = "mark" => req[q].id # NoId /\ rows'[req[q].id].state # "none"
                      /\ req[q].at \in {"find", "remove"} =>
                           req[q].id # NoId /\ rows'[req[q].id].state = "deleted"
    BY <1>3 DEF Deletes
  <2>1. rows[req[r].id].state = "none"
    BY <1>0 DEF MediaInv, Uploads
  <2> QED
    BY <1>0, <1>1, <2>1, Fields DEF MediaInv, Deletes
<1> QED
  BY <1>2, <1>5, <1>6, <1>7, <1>8, <1>9, <1>10 DEF MediaInv

\* A row is marked: on SQLite with its object removed or not, on D1 before that.
LEMMA MediaMark ==
    ASSUME Constants, MediaInv, NEW i \in Ids, rows[i].state # "none",
           rows' = [rows EXCEPT ![i].state = "deleted"],
           used' = used, TypeOK', Given',
           \A q \in Requests : \/ req'[q] = req[q]
                               \/ req'[q].at = "find" /\ req'[q].id = i,
           objects' = objects \/ \E p \in Places : objects' = objects \ {<<p, i>>}
    PROVE  MediaInv'
<1>0. /\ TypeOK /\ Given /\ i # NoId
      /\ \A j \in Ids : /\ j # i => rows'[j] = rows[j]
                        /\ rows'[j].thumb = rows[j].thumb
      /\ rows'[i].state = "deleted"
  BY Fields DEF Constants, MediaInv, TypeOK, Asset
<1>1. \A p \in Places, j \in Ids : j # i /\ <<p, j>> \in objects => <<p, j>> \in objects'
  OBVIOUS
<1>2. Variants' /\ LiveRowHasFile'
  BY <1>0, <1>1, Fields DEF MediaInv, Variants, LiveRowHasFile
<1>3. Uploads' /\ Apart' /\ Deletes'
  BY <1>0, <1>1, Fields DEF MediaInv, Uploads, Apart, Deletes, Uploading
<1> QED
  BY <1>2, <1>3 DEF MediaInv

LEMMA MediaDelete ==
    ASSUME Constants, MediaInv, NEW i \in Ids, Delete(i) \/ DeleteKilled(i)
    PROVE  MediaInv'
<1>0. TypeOK /\ Given
  BY DEF MediaInv
<1>1. TypeOK'
  BY <1>0, Assets DEF Delete, DeleteKilled, TypeOK
<1>2. Given'
  BY <1>0 DEF Delete, DeleteKilled, TypeOK, Given, Asset
<1> QED
  BY <1>1, <1>2, MediaMark DEF Delete, DeleteKilled, Places

LEMMA MediaMarkD1 ==
    ASSUME Constants, MediaInv, NEW r \in Requests, Mark(r)
    PROVE  MediaInv'
<1>0. TypeOK /\ Given /\ req[r].id \in Ids /\ rows[req[r].id].state # "none"
  BY Fields DEF MediaInv, Mark, Deletes
<1>1. TypeOK'
  BY <1>0, Assets, RequestGoesOn DEF Mark, TypeOK
<1>2. Given'
  BY <1>0 DEF Mark, TypeOK, Given, Asset, Request
<1>3. \A q \in Requests : req'[q] = req[q] \/ (req'[q].at = "find" /\ req'[q].id = req[r].id)
  BY <1>0 DEF Mark, TypeOK, Request
<1> QED
  BY <1>0, <1>1, <1>2, <1>3, MediaMark DEF Mark

\* D1: the object of a marked row is removed.
LEMMA MediaRemove ==
    ASSUME Constants, MediaInv, NEW r \in Requests, Remove(r)
    PROVE  MediaInv'
<1>0. /\ TypeOK /\ Given /\ req[r].id \in Ids /\ rows[req[r].id].state = "deleted"
      /\ rows' = rows /\ used' = used /\ objects' = objects \ {<<Here, req[r].id>>}
      /\ req' = [req EXCEPT ![r] = Idle]
  BY Fields DEF MediaInv, Remove, Deletes
<1>1. \A p \in Places, j \in Ids :
        j # req[r].id /\ <<p, j>> \in objects => <<p, j>> \in objects'
  BY <1>0
<1>2. \A q \in Requests : req'[q] = IF q = r THEN Idle ELSE req[q]
  BY <1>0 DEF TypeOK
<1>3. TypeOK'
  BY <1>0, Idles DEF Remove, TypeOK
<1>4. Given'
  BY <1>0, <1>2, Idles DEF Given
<1>5. Variants' /\ LiveRowHasFile'
  BY <1>0, <1>1, Fields DEF MediaInv, Variants, LiveRowHasFile
<1>6. Uploads' /\ Apart' /\ Deletes'
  <2>1. Uploads'
    <3> SUFFICES ASSUME NEW q \in Requests, q # r, Uploading(q)
                 PROVE  /\ req[q].id # NoId /\ rows[req[q].id].state = "none"
                        /\ <<req[q].place, req[q].id>> \in objects'
                        /\ \A i \in Ids : rows[i].thumb # req[q].id
                        /\ req[q].thumb # NoId =>
                             /\ <<req[q].thumbPlace, req[q].thumb>> \in objects'
                             /\ rows[req[q].thumb].state = "none" /\ req[q].thumb # req[q].id
      <4>1. rows' = rows /\ \A q \in Requests : Uploading(q)' => q # r /\ req'[q] = req[q]
        BY <1>0, <1>2, Idles DEF Uploading
      <4> QED
        BY <4>1 DEF Uploads, Uploading
    <3> QED
      <4>1. /\ req[q].id # NoId /\ rows[req[q].id].state = "none"
            /\ <<req[q].place, req[q].id>> \in objects
            /\ \A i \in Ids : rows[i].thumb # req[q].id
            /\ req[q].thumb # NoId =>
                 /\ <<req[q].thumbPlace, req[q].thumb>> \in objects
                 /\ rows[req[q].thumb].state = "none" /\ req[q].thumb # req[q].id
        BY DEF MediaInv, Uploads
      <4>2. /\ req[q].id # req[r].id
            /\ req[q].thumb # NoId => req[q].thumb # req[r].id
        BY <1>0, <4>1
      <4>3. /\ req[q].place \in Places /\ req[q].thumbPlace \in Places
            /\ req[q].id \in Ids \cup {NoId} /\ req[q].thumb \in Ids \cup {NoId}
        BY <1>0, Fields
      <4> QED
        BY <1>1, <4>1, <4>2, <4>3
  <2>2. \A q \in Requests : req'[q] = req[q] \/ req'[q].at = "idle"
    BY <1>2, Idles
  <2>3. Apart'
    BY <2>2 DEF MediaInv, Apart, Uploading
  <2>4. Deletes'
    BY <1>0, <2>2 DEF MediaInv, Deletes
  <2> QED
    BY <2>1, <2>3, <2>4
<1> QED
  BY <1>3, <1>4, <1>5, <1>6 DEF MediaInv

\* Steps of a request that change neither rows nor objects.
LEMMA MediaWait ==
    ASSUME Constants, MediaInv, NEW r \in Requests,
           \/ NoVariant(r) \/ FindPaths(r) \/ Die(r) \/ \E i \in Ids : Seek(r, i)
    PROVE  MediaInv'
<1>0. TypeOK /\ Given /\ rows' = rows /\ used' = used /\ objects' = objects
  BY DEF MediaInv, NoVariant, FindPaths, Die, Seek
<1>1. TypeOK'
  <2>1. req' \in [Requests -> Request]
    <3>1. CASE NoVariant(r) \/ FindPaths(r)
      <4>1. /\ req[r] \in Request
            /\ \E at \in {"insert", "remove"} : req' = [req EXCEPT ![r] = [req[r] EXCEPT !.at = at]]
        BY <1>0, <3>1 DEF NoVariant, FindPaths, TypeOK
      <4> QED
        BY <1>0, <4>1, RequestGoesOn DEF TypeOK
    <3>2. CASE Die(r)
      BY <1>0, <3>2, Idles DEF Die, TypeOK
    <3>3. CASE \E i \in Ids : Seek(r, i)
      BY <1>0, <3>3, Idles DEF Seek, TypeOK, Places
    <3> QED
      BY <3>1, <3>2, <3>3
  <2> QED
    BY <1>0, <2>1 DEF NoVariant, FindPaths, Die, Seek, TypeOK
<1>2. \A q \in Requests :
        \/ req'[q] = req[q]
        \/ req'[q].at = "idle" /\ req'[q].id = NoId /\ req'[q].thumb = NoId
        \/ /\ \/ req[q].at = "variant" /\ req'[q].at = "insert"
              \/ req[q].at = "find" /\ req'[q].at = "remove"
           /\ req'[q].id = req[q].id           /\ req'[q].place = req[q].place
           /\ req'[q].thumb = req[q].thumb     /\ req'[q].thumbPlace = req[q].thumbPlace
        \/ \E i \in Ids : /\ rows[i].state = "live" /\ req'[q].thumb = NoId
                          /\ req'[q].at = "mark" /\ req'[q].id = i
  <2>1. CASE NoVariant(r) \/ FindPaths(r)
    BY <1>0, <2>1 DEF NoVariant, FindPaths, TypeOK, Request
  <2>2. CASE Die(r)
    BY <1>0, <2>2, Idles DEF Die, TypeOK
  <2>3. ASSUME NEW i \in Ids, Seek(r, i)
        PROVE  /\ \A q \in Requests : q # r => req'[q] = req[q]
               /\ rows[i].state = "live" /\ req'[r].thumb = NoId
               /\ req'[r].at = "mark" /\ req'[r].id = i
    BY <1>0, <2>3 DEF Seek, TypeOK, Idle
  <2> QED
    BY <2>1, <2>2, <2>3
<1>3. Given'
  BY <1>0, <1>2 DEF Given
<1>4. Variants' /\ LiveRowHasFile'
  BY <1>0 DEF MediaInv, Variants, LiveRowHasFile
<1>5. Uploads' /\ Apart' /\ Deletes'
  BY <1>0, <1>2, Fields DEF MediaInv, Uploads, Apart, Deletes, Uploading, Constants
<1> QED
  BY <1>1, <1>3, <1>4, <1>5 DEF MediaInv

LEMMA MediaStep == ASSUME Constants PROVE MediaInv /\ [Next]_vars => MediaInv'
<1> SUFFICES ASSUME MediaInv, [Next]_vars PROVE MediaInv'
  OBVIOUS
<1>1. CASE UNCHANGED vars \/ Rebind
  <2>1. TypeOK'
    <3>1. CASE UNCHANGED vars
      BY <3>1 DEF MediaInv, vars, TypeOK
    <3>2. CASE Rebind
      <4>1. bucket' \in BOOLEAN
        BY <3>2 DEF Rebind
      <4>2. rebinds' \in 0..MaxRebind
        BY <3>2 DEF MediaInv, Rebind, TypeOK, Constants
      <4> QED
        BY <3>2, <4>1, <4>2 DEF MediaInv, Rebind, TypeOK
    <3> QED
      BY <1>1, <3>1, <3>2
  <2> QED
    BY <1>1, <2>1 DEF vars, Rebind, MediaInv, Given, Variants, Uploads, Apart, Deletes,
                      LiveRowHasFile, Uploading
<1> QED
  BY <1>1, MediaUpload, MediaStore, MediaInsert, MediaDelete, MediaMarkD1, MediaRemove,
     MediaWait DEF Next

\* Types, and what uploads and deletes under way know of rows and objects.
THEOREM MediaHold ==
    ASSUME Constants
    PROVE  Spec => []MediaInv
<1>1. Init => MediaInv
  BY MediaInit
<1>2. MediaInv /\ [Next]_vars => MediaInv'
  BY MediaStep
<1> QED
  BY <1>1, <1>2, PTL DEF Spec

\* A row that is listed names objects that are there, whatever uploads, deletes and
\* deploys overlap and wherever they end.
THEOREM ListedHasFile ==
    ASSUME Constants
    PROVE  Spec => []LiveRowHasFile
<1>1. MediaInv => LiveRowHasFile
  BY DEF MediaInv
<1> QED
  BY <1>1, MediaHold, PTL
=============================================================================
