----------------------------- MODULE BaseImages -----------------------------
(***************************************************************************)
(* The managed base images.  The publisher of the executor's leader builds *)
(* one named snapshot per shipped distribution on a Box of its own, checks *)
(* it on a second Box, and serves it; Companions pin the image they are    *)
(* created from; images nobody needs are deleted.  Every effect on the Box *)
(* provider has a durable intent in the image's journal first, and an      *)
(* effect whose answer was lost is never repeated.  retry_at is left out:  *)
(* a retry may come at once.                                               *)
(***************************************************************************)
EXTENDS Naturals, FiniteSets

CONSTANTS
  Tenant,        \* Companions to be created from an image
  MaxImages,     \* bound: images, numbered in the order of their creation
  MaxReleases,   \* bound: distributions shipped
  MaxTroubles    \* bound: crashes, lost answers and refusals

VARIABLES
  images,        \* managed_base_images: status, delete_intent_at, deleted_at and journal
  snapshot,      \* external: the provider's named snapshots
  made,          \* external: what the provider was made to do for each image
  content,       \* external: /opt/companions on the image's source Box
  pub,           \* the publication job of the leader
  release,       \* the distribution this server ships
  pin,           \* snapshot_name, create_started_at and box_id of each Companion, and whether
                 \* the executor has just accepted its image
  flying,        \* deletions whose executor is gone or gave up
  vanished,      \* snapshots that disappeared without this executor's doing
  troubles

imageVars == <<images, snapshot, made, content, pub, release, pin, flying, vanished, troubles>>

Image == 1..MaxImages
Boxes == {"source", "verifier"}
Unpublished == [status |-> "none", release |-> 0, intent |-> FALSE, gone |-> FALSE,
                source |-> "none", verifier |-> "none", install |-> FALSE, requested |-> FALSE]
NoPublication == [step |-> "idle", image |-> 0]
Unpinned == [image |-> 0, accepted |-> FALSE, started |-> FALSE, boxed |-> FALSE]

ImageInit ==
  /\ images = [i \in Image |-> Unpublished]
  /\ snapshot = [i \in Image |-> "absent"]
  /\ made = [i \in Image |-> [source |-> 0, verifier |-> 0, capture |-> 0]]
  /\ content = [i \in Image |-> "empty"]
  /\ pub = NoPublication /\ release = 1 /\ pin = [c \in Tenant |-> Unpinned]
  /\ flying = {} /\ vanished = {} /\ troubles = 0

Trouble == troubles < MaxTroubles /\ troubles' = troubles + 1
PublicationAt(step, i) == pub = [step |-> step, image |-> i]
Advance(step, i) == pub' = [step |-> step, image |-> i]
RecordImage(i, update) == images' = [images EXCEPT ![i] = update]
World == <<snapshot, made, content>>
-----------------------------------------------------------------------------
(***************************************************************************)
(* ManagedBaseImageCoordinator.progress, until a publication is chosen.    *)
(***************************************************************************)
ServedNow == {i \in Image : images[i].status = "ready" /\ images[i].release = release}
Publishing == {i \in Image : images[i].status = "publishing"}
Latest(rel) == {i \in Image : images[i].release = rel /\ \A j \in Image : images[j].release = rel => j <= i}

\* The served image is looked for at the provider.
CheckReady(i) ==
  /\ pub.step = "idle" /\ i \in ServedNow /\ snapshot[i] \in {"absent", "failed"}
  /\ RecordImage(i, [images[i] EXCEPT !.status = IF snapshot[i] = "absent" THEN "missing" ELSE "failed"])
  /\ UNCHANGED <<World, pub, release, pin, flying, vanished, troubles>>

\* An open publication of any release is finished first.
ResumePublication(i) ==
  /\ pub.step = "idle" /\ i \in Publishing
  /\ Advance("working", i)
  /\ UNCHANGED <<images, World, release, pin, flying, vanished, troubles>>

\* Otherwise a release without a ready image gets a new one, unless its last was blocked.
Enter(i) ==
  /\ pub.step = "idle" /\ Publishing = {} /\ ServedNow = {}
  /\ images[i].status = "none" /\ \A j \in 1..(i - 1) : images[j].status # "none"
  /\ \A j \in Latest(release) : images[j].status # "blocked"
  /\ RecordImage(i, [Unpublished EXCEPT !.status = "publishing", !.release = release])
  /\ Advance("working", i)
  /\ UNCHANGED <<World, release, pin, flying, vanished, troubles>>

Block(i, update) == RecordImage(i, [update EXCEPT !.status = "blocked"]) /\ pub' = NoPublication
-----------------------------------------------------------------------------
(***************************************************************************)
(* publishDistribution.  It takes up the journal wherever it was left.     *)
(***************************************************************************)
Needs(i, b) ==
  IF b = "source" THEN ~images[i].requested ELSE images[i].requested /\ snapshot[i] = "ready"

\* managedProvider.create: the intent is durable before the call.
CreateIntent(i, b) ==
  /\ PublicationAt("working", i) /\ Needs(i, b) /\ images[i][b] = "none"
  /\ RecordImage(i, [images[i] EXCEPT ![b] = "intent"])
  /\ Advance("create", i)
  /\ UNCHANGED <<World, release, pin, flying, vanished, troubles>>

\* Mutant: an intent found in the journal is acted on again.
CreateUnresolvedAgain(i, b) ==
  /\ PublicationAt("working", i) /\ images[i][b] = "intent"
  /\ Advance("create", i)
  /\ UNCHANGED <<images, World, release, pin, flying, vanished, troubles>>

\* An intent found in the journal is of a creation whose answer nobody has.
CreateUnresolved(i, b) ==
  /\ PublicationAt("working", i) /\ images[i][b] = "intent"
  /\ Block(i, [images[i] EXCEPT ![b] = "unresolved"])
  /\ UNCHANGED <<World, release, pin, flying, vanished, troubles>>

CreateAnswers(i, b, outcome, happened) ==
  /\ PublicationAt("create", i) /\ images[i][b] = "intent"
  /\ made' = [made EXCEPT ![i][b] = IF happened THEN @ + 1 ELSE @]
  /\ \/ /\ outcome = "created" /\ happened
        /\ RecordImage(i, [images[i] EXCEPT ![b] = "box"]) /\ Advance("working", i) /\ UNCHANGED troubles
     \/ /\ outcome = "limited" /\ ~happened /\ Trouble
        /\ RecordImage(i, [images[i] EXCEPT ![b] = "none"]) /\ pub' = NoPublication
     \/ outcome = "lost" /\ Trouble /\ Block(i, [images[i] EXCEPT ![b] = "unresolved"])
  /\ UNCHANGED <<snapshot, content, release, pin, flying, vanished>>

\* The distribution is installed once, on a Box that never held one.
InstallIntent(i) ==
  /\ PublicationAt("working", i) /\ images[i].source = "box" /\ ~images[i].requested /\ ~images[i].install
  /\ RecordImage(i, [images[i] EXCEPT !.install = TRUE])
  /\ Advance("install", i)
  /\ UNCHANGED <<World, release, pin, flying, vanished, troubles>>

Install(i, whole) ==
  /\ PublicationAt("install", i)
  /\ content' = [content EXCEPT ![i] = IF whole THEN "whole" ELSE "partial"]
  /\ whole => Advance("working", i) /\ UNCHANGED troubles
  /\ ~whole => pub' = NoPublication /\ Trouble
  /\ UNCHANGED <<images, snapshot, made, release, pin, flying, vanished>>

\* Whatever ran it, an installation is only observed; then the capture is recorded.
VerifySource(i) ==
  /\ PublicationAt("working", i) /\ images[i].install /\ ~images[i].requested
  /\ IF content[i] = "whole"
     THEN RecordImage(i, [images[i] EXCEPT !.requested = TRUE]) /\ Advance("capture", i)
     ELSE Block(i, images[i])
  /\ UNCHANGED <<World, release, pin, flying, vanished, troubles>>

\* The capture is submitted once.  Without a free slot it is withdrawn, and images of other
\* releases give theirs up; after another error the journal says it was requested.
Capture(i, outcome) ==
  /\ PublicationAt("capture", i)
  /\ \/ /\ outcome = "accepted"
        /\ snapshot' = [snapshot EXCEPT ![i] = "pending"]
        /\ made' = [made EXCEPT ![i].capture = @ + 1]
        /\ Advance("working", i) /\ UNCHANGED <<images, troubles>>
     \/ /\ outcome = "limit" /\ Trouble
        /\ images' = [j \in Image |->
             CASE j = i -> [images[j] EXCEPT !.requested = FALSE]
               [] j # i /\ images[j].status = "ready" /\ images[j].release # release ->
                    [images[j] EXCEPT !.status = "retired"]
               [] OTHER -> images[j]]
        /\ pub' = NoPublication /\ UNCHANGED <<snapshot, made>>
  /\ UNCHANGED <<content, release, pin, flying, vanished>>

CaptureFailed(i) ==
  /\ PublicationAt("working", i) /\ images[i].requested /\ snapshot[i] = "failed"
  /\ RecordImage(i, [images[i] EXCEPT !.status = "failed"])
  /\ pub' = NoPublication
  /\ UNCHANGED <<World, release, pin, flying, vanished, troubles>>

\* The content is read on an independent Box made from the snapshot.
VerifierRefuses(i) ==
  /\ PublicationAt("working", i) /\ images[i].requested /\ images[i].verifier = "box" /\ Trouble
  /\ Block(i, images[i])
  /\ UNCHANGED <<World, release, pin, flying, vanished>>

\* Both Boxes are archived; the image is served if its release is still the shipped one.
Publish(i) ==
  /\ PublicationAt("working", i) /\ images[i].requested /\ images[i].verifier = "box"
  /\ images' = [j \in Image |->
       IF images[i].release # release
       THEN IF j = i THEN [images[j] EXCEPT !.status = "retired"] ELSE images[j]
       ELSE CASE j = i -> [images[j] EXCEPT !.status = "ready"]
              [] j # i /\ images[j].status = "ready" -> [images[j] EXCEPT !.status = "retired"]
              [] OTHER -> images[j]]
  /\ pub' = NoPublication
  /\ UNCHANGED <<World, release, pin, flying, vanished, troubles>>
-----------------------------------------------------------------------------
(***************************************************************************)
(* cleanupObsolete.                                                        *)
(***************************************************************************)
Obsolete(i) ==
  /\ ~images[i].gone
  /\ \/ images[i].status \in {"retired", "missing", "failed"}
     \/ images[i].status = "blocked" /\ images[i].requested /\ images[i].verifier = "box"
Gone(i) == [images[i] EXCEPT !.gone = TRUE, !.status = IF @ = "blocked" THEN "blocked" ELSE "deleted"]

\* A deletion that was asked for before: if the snapshot is there, the intent is withdrawn.
ReconcileDeletion(i) ==
  /\ pub.step = "idle" /\ Obsolete(i) /\ images[i].intent
  /\ RecordImage(i, IF snapshot[i] = "absent" THEN Gone(i) ELSE [images[i] EXCEPT !.intent = FALSE])
  /\ UNCHANGED <<World, pub, release, pin, flying, vanished, troubles>>

Referenced(i) == \E c \in Tenant : pin[c].image = i /\ ~pin[c].boxed

\* Under the registry lock, which pinning takes too.
MarkDeletion(i) ==
  /\ pub.step = "idle" /\ Obsolete(i) /\ ~images[i].intent /\ ~Referenced(i)
  /\ RecordImage(i, [images[i] EXCEPT !.intent = TRUE])
  /\ Advance("delete", i)
  /\ UNCHANGED <<World, release, pin, flying, vanished, troubles>>

DeleteAnswers(i, outcome) ==
  /\ PublicationAt("delete", i)
  /\ \/ /\ outcome = "deleted"
        /\ snapshot' = [snapshot EXCEPT ![i] = "absent"]
        /\ RecordImage(i, Gone(i)) /\ UNCHANGED <<flying, troubles>>
     \/ /\ outcome = "in use" /\ Trouble
        /\ RecordImage(i, [images[i] EXCEPT !.intent = FALSE]) /\ UNCHANGED <<snapshot, flying>>
     \/ /\ outcome = "unknown" /\ Trouble
        /\ flying' = flying \cup {i} /\ UNCHANGED <<snapshot, images>>
  /\ pub' = NoPublication
  /\ UNCHANGED <<made, content, release, pin, vanished>>
-----------------------------------------------------------------------------
(***************************************************************************)
(* The provider, the executor's life, and the Companions.                  *)
(***************************************************************************)
CaptureEnds(i, ends) ==
  /\ snapshot[i] = "pending"
  /\ ends = "failed" => Trouble
  /\ ends = "ready" => UNCHANGED troubles
  /\ snapshot' = [snapshot EXCEPT ![i] = ends]
  /\ UNCHANGED <<images, made, content, pub, release, pin, flying, vanished>>

\* A snapshot is removed by hand, or an abandoned deletion takes effect after all.
Vanish(i) ==
  /\ snapshot[i] = "ready"
  /\ IF i \in flying THEN UNCHANGED troubles ELSE Trouble
  /\ snapshot' = [snapshot EXCEPT ![i] = "absent"]
  /\ vanished' = vanished \cup {i} /\ flying' = flying \ {i}
  /\ UNCHANGED <<images, made, content, pub, release, pin>>

\* The leader is lost: the call it was making may or may not have taken effect, and a new
\* process may ship another distribution.
LeaderLost(happened, next) ==
  /\ Trouble /\ next \in {release, release + 1} /\ next <= MaxReleases
  /\ release' = next
  /\ LET i == pub.image
         calling == pub.step \in {"create", "install", "capture"}
     IN  /\ happened => calling
         /\ made' = CASE happened /\ pub.step = "create" ->
                           [made EXCEPT ![i][CHOOSE b \in Boxes : images[i][b] = "intent"] = @ + 1]
                      [] happened /\ pub.step = "capture" -> [made EXCEPT ![i].capture = @ + 1]
                      [] OTHER -> made
         /\ snapshot' = IF happened /\ pub.step = "capture" THEN [snapshot EXCEPT ![i] = "pending"] ELSE snapshot
         /\ content' = IF pub.step = "install"
                       THEN [content EXCEPT ![i] = IF happened THEN "whole" ELSE "partial"] ELSE content
         /\ flying' = IF pub.step = "delete" THEN flying \cup {i} ELSE flying
  /\ pub' = NoPublication /\ pin' = [c \in Tenant |-> [pin[c] EXCEPT !.accepted = FALSE]]
  /\ UNCHANGED <<images, vanished>>

Usable(i) == images[i].status \in {"ready", "retired"} /\ ~images[i].intent /\ ~images[i].gone
Selected == IF ServedNow # {} THEN ServedNow
            ELSE {i \in Image : Usable(i) /\ \A j \in Image : Usable(j) => j <= i}

\* pinManagedBaseImage: a started creation keeps its image; a pin on an unusable or older
\* image moves on.
Pin(c) ==
  /\ ~pin[c].started /\ ~pin[c].boxed
  /\ IF pin[c].image # 0 /\ Usable(pin[c].image) /\ images[pin[c].image].release = release
     THEN pin' = [pin EXCEPT ![c].accepted = TRUE]
     ELSE \E i \in Selected : pin' = [pin EXCEPT ![c].image = i, ![c].accepted = TRUE]
  /\ UNCHANGED <<images, World, pub, release, flying, vanished, troubles>>

\* The executor that has just pinned records the start; the image is not read again.
StartCreation(c) ==
  /\ pin[c].accepted /\ ~pin[c].started /\ ~pin[c].boxed
  /\ pin' = [pin EXCEPT ![c].started = TRUE]
  /\ UNCHANGED <<images, World, pub, release, flying, vanished, troubles>>

\* prepareBox: a missing image is recorded and the Companion waits for another.
CreateTenant(c) ==
  /\ pin[c].started /\ ~pin[c].boxed
  /\ LET i == pin[c].image
     IN  IF snapshot[i] = "ready"
         THEN pin' = [pin EXCEPT ![c].boxed = TRUE] /\ UNCHANGED images
         ELSE /\ images[i].status \in {"ready", "retired", "missing"}
              /\ pin' = [pin EXCEPT ![c] = Unpinned]
              /\ RecordImage(i, [images[i] EXCEPT !.status = "missing"])
  /\ UNCHANGED <<World, pub, release, flying, vanished, troubles>>
-----------------------------------------------------------------------------
ImageNext ==
  \/ \E i \in Image : CheckReady(i) \/ ResumePublication(i) \/ Enter(i) \/ InstallIntent(i) \/ VerifySource(i)
       \/ CaptureFailed(i) \/ VerifierRefuses(i) \/ Publish(i) \/ ReconcileDeletion(i) \/ MarkDeletion(i) \/ Vanish(i)
  \/ \E i \in Image, b \in Boxes : CreateIntent(i, b) \/ CreateUnresolved(i, b)
  \/ \E i \in Image, b \in Boxes, o \in {"created", "limited", "lost"}, h \in BOOLEAN : CreateAnswers(i, b, o, h)
  \/ \E i \in Image, w \in BOOLEAN : Install(i, w)
  \/ \E i \in Image, o \in {"accepted", "limit"} : Capture(i, o)
  \/ \E i \in Image, o \in {"deleted", "in use", "unknown"} : DeleteAnswers(i, o)
  \/ \E i \in Image, e \in {"ready", "failed"} : CaptureEnds(i, e)
  \/ \E h \in BOOLEAN, n \in 1..MaxReleases : LeaderLost(h, n)
  \/ \E c \in Tenant : Pin(c) \/ StartCreation(c) \/ CreateTenant(c)

ImageSpec == ImageInit /\ [][ImageNext]_imageVars
-----------------------------------------------------------------------------
ImageTypeOK ==
  /\ \A i \in Image :
       /\ images[i].status \in {"none", "publishing", "ready", "retired", "missing", "failed", "blocked", "deleted"}
       /\ snapshot[i] \in {"absent", "pending", "ready", "failed"}
  /\ \A i, j \in Image : images[i].status = "publishing" /\ images[j].status = "publishing" => i = j
  /\ release \in 1..MaxReleases /\ flying \subseteq Image /\ vanished \subseteq Image

\* Whatever dies between an intent and its answer, no publication makes a second source or
\* verifier Box, or captures twice.
NothingIsReplayed ==
  \A i \in Image : made[i].source <= 1 /\ made[i].verifier <= 1 /\ made[i].capture <= 1

\* The image of a creation under way stays at the provider: the cleanup that reads
\* references and the pin that reads images never miss each other, short of a snapshot that
\* vanishes by itself or by a deletion its executor had given up.
PendingKeepsItsSource ==
  \A c \in Tenant : pin[c].started /\ ~pin[c].boxed => snapshot[pin[c].image] = "ready" \/ pin[c].image \in vanished
=============================================================================
