------------------------------- MODULE Media -------------------------------
(***************************************************************************)
(* The bucket and the rows that name its objects: images of a work order,  *)
(* each under a key of its own, and the avatar of a user, whose key        *)
(* depends only on the extension of the file.  The bucket and the database *)
(* are written one after the other and nothing undoes the first write when *)
(* the second one fails.                                                   *)
(***************************************************************************)
CONSTANTS Uploaders, Images, Extensions

VARIABLES
    objects,    \* keys in the bucket
    images,     \* keys named by work_order_images
    avatar,     \* the avatar_key of the user, as a set of at most one key
    uploader,   \* what each handler is doing
    sweeps,     \* deletions of an old avatar nobody waits for
    spoiled     \* a second write failed, or two changes of the avatar overlapped

vars == <<objects, images, avatar, uploader, sweeps, spoiled>>

Keys == Images \cup Extensions
Phases == {"idle", "putImage", "storeRow", "erase", "putAvatar", "setAvatar", "dropAvatar", "clearAvatar"}
Busy(h) == uploader[h].phase # "idle"
OnAvatar(h) == uploader[h].phase \in {"putAvatar", "setAvatar", "dropAvatar", "clearAvatar"}

TypeOK ==
    /\ objects \subseteq Keys
    /\ images \subseteq Images
    /\ avatar \subseteq Extensions
    /\ sweeps \subseteq Extensions
    /\ uploader \in [Uploaders -> [phase : Phases, keys : SUBSET Keys, todo : SUBSET {"object", "row"},
                                   old : SUBSET Extensions]]
    /\ spoiled \in BOOLEAN

Idle == [phase |-> "idle", keys |-> {}, todo |-> {}, old |-> {}]

Init ==
    /\ objects = {} /\ images = {} /\ avatar = {} /\ sweeps = {}
    /\ uploader = [h \in Uploaders |-> Idle]
    /\ spoiled = FALSE

-----------------------------------------------------------------------------
Start(h, entry) ==
    /\ ~Busy(h)
    /\ uploader' = [uploader EXCEPT ![h] = entry]

Move(h, from, to) ==
    /\ uploader[h].phase = from
    /\ uploader' = [uploader EXCEPT ![h] = IF to = "idle" THEN Idle ELSE [@ EXCEPT !.phase = to]]

\* A call to the bucket or to the database fails and the handler gives up; the
\* step before it stays.
GiveUp(h) ==
    /\ Busy(h)
    /\ uploader[h].phase # "erase"
    /\ uploader' = [uploader EXCEPT ![h] = Idle]
    /\ spoiled' = (spoiled \/ uploader[h].phase \in {"storeRow", "setAvatar", "clearAvatar"})
    /\ UNCHANGED <<objects, images, avatar, sweeps>>

\* upload: the order is the technician's; the key is new.
UploadImage(h, i) ==
    /\ i \notin objects \cup images
    /\ \A g \in Uploaders : i \notin uploader[g].keys
    /\ Start(h, [phase |-> "putImage", keys |-> {i}, todo |-> {}, old |-> {}])
    /\ UNCHANGED <<objects, images, avatar, sweeps, spoiled>>

PutImage(h) ==
    /\ Move(h, "putImage", "storeRow")
    /\ objects' = objects \cup uploader[h].keys
    /\ UNCHANGED <<images, avatar, sweeps, spoiled>>

StoreRow(h) ==
    /\ Move(h, "storeRow", "idle")
    /\ images' = images \cup uploader[h].keys
    /\ UNCHANGED <<objects, avatar, sweeps, spoiled>>

\* delete finds the row, then deletes the object and the row side by side; the
\* failure of one does not stop the other.
DeleteImage(h, i) ==
    /\ i \in images
    /\ Start(h, [phase |-> "erase", keys |-> {i}, todo |-> {"object", "row"}, old |-> {}])
    /\ UNCHANGED <<objects, images, avatar, sweeps, spoiled>>

Over(h, part) == [uploader[h] EXCEPT !.todo = @ \ {part}]

Erase(h, part, fails) ==
    /\ uploader[h].phase = "erase"
    /\ part \in uploader[h].todo
    /\ uploader' = [uploader EXCEPT ![h] =
           IF @.todo = {part} THEN Idle ELSE Over(h, part)]
    /\ objects' = IF part = "object" /\ ~fails THEN objects \ uploader[h].keys ELSE objects
    /\ images' = IF part = "row" /\ ~fails THEN images \ uploader[h].keys ELSE images
    /\ spoiled' = (spoiled \/ fails)
    /\ UNCHANGED <<avatar, sweeps>>

-----------------------------------------------------------------------------
\* The first round trip of the avatar's handlers reads the present key.
BeginAvatar(h, phase, keys) ==
    /\ Start(h, [phase |-> phase, keys |-> keys, todo |-> {}, old |-> avatar])
    /\ spoiled' = (spoiled \/ sweeps # {} \/ \E g \in Uploaders : OnAvatar(g))
    /\ UNCHANGED <<objects, images, avatar, sweeps>>

ChangeAvatar(h, k) == BeginAvatar(h, "putAvatar", {k})

RemoveAvatar(h) == avatar # {} /\ BeginAvatar(h, "dropAvatar", {})

\* The object of the old key goes unless the key is the same.
OldKey(h) == uploader[h].old
Outdated(h) == uploader[h].old \ uploader[h].keys

\* The new object is put, and the deletion of the old one is started.
PutAvatar(h) ==
    /\ Move(h, "putAvatar", "setAvatar")
    /\ objects' = objects \cup uploader[h].keys
    /\ sweeps' = sweeps \cup Outdated(h)
    /\ UNCHANGED <<images, avatar, spoiled>>

SetAvatar(h) ==
    /\ Move(h, "setAvatar", "idle")
    /\ avatar' = uploader[h].keys
    /\ UNCHANGED <<objects, images, sweeps, spoiled>>

Sweep(k, fails) ==
    /\ k \in sweeps
    /\ sweeps' = sweeps \ {k}
    /\ objects' = IF fails THEN objects ELSE objects \ {k}
    /\ spoiled' = (spoiled \/ fails)
    /\ UNCHANGED <<images, avatar, uploader>>

DropAvatar(h) ==
    /\ Move(h, "dropAvatar", "clearAvatar")
    /\ objects' = objects \ uploader[h].old
    /\ UNCHANGED <<images, avatar, sweeps, spoiled>>

ClearAvatar(h) ==
    /\ Move(h, "clearAvatar", "idle")
    /\ avatar' = {}
    /\ UNCHANGED <<objects, images, sweeps, spoiled>>

Next ==
    \/ \E h \in Uploaders :
         \/ \E i \in Images : UploadImage(h, i) \/ DeleteImage(h, i)
         \/ \E k \in Extensions : ChangeAvatar(h, k)
         \/ \E part \in {"object", "row"}, fails \in BOOLEAN : Erase(h, part, fails)
         \/ PutImage(h) \/ StoreRow(h) \/ GiveUp(h)
         \/ RemoveAvatar(h) \/ PutAvatar(h) \/ SetAvatar(h) \/ DropAvatar(h) \/ ClearAvatar(h)
    \/ \E k \in Extensions, fails \in BOOLEAN : Sweep(k, fails)

Spec == Init /\ [][Next]_vars

-----------------------------------------------------------------------------
\* As long as no second write failed and no change of the avatar began before
\* the one before it was over, its unawaited deletion included: every row names
\* an object unless its deletion is under way, the avatar's key does unless the
\* avatar is being changed, and once everything is over the bucket holds exactly
\* what the rows name (the order of the writes in upload, delete and avatar).
BeingErased == UNION {uploader[h].keys : h \in {g \in Uploaders : uploader[g].phase = "erase"}}

RowsNameObjects == images \ BeingErased \subseteq objects

AvatarNamesObject == (\A h \in Uploaders : ~OnAvatar(h)) => avatar \subseteq objects

NothingLeftOver ==
    sweeps = {} /\ (\A h \in Uploaders : ~Busy(h)) => objects = images \cup avatar

BucketMatchesRows == ~spoiled => RowsNameObjects /\ AvatarNamesObject /\ NothingLeftOver
=============================================================================
