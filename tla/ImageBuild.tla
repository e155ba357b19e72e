----------------------------- MODULE ImageBuild -----------------------------
(* openhands/runtime/utils/runtime_build.py with builder/docker.py and       *)
(* builder/remote.py: the image a sandbox runs, found under the name that    *)
(* says what it holds, or built on an older one.  Each runtime asks from a   *)
(* thread of its own.  Hashes are their arguments.  The checkout is not      *)
(* edited while an image is being made of it.                                *)
EXTENDS Naturals, Sequences, FiniteSets, Functions, SequencesExt

CONSTANTS
    Builders,        \* runtimes that start
    ImageRequests,   \* [base, browser, extra, forced]: the configurations they start with
    MaxImageAsks,    \* bound: requests
    MaxCheckouts     \* bound: versions of the lock files and of the sources

ASSUME ImageAssumption ==
    /\ 0 \notin Builders /\ ImageRequests # {}
    /\ \A q \in ImageRequests : q.browser \in BOOLEAN /\ q.forced \in BOOLEAN

VARIABLES
    builderKind,   \* "docker" or "remote"
    published,     \* names the public registry has, which only docker pulls
    checkout,      \* versions of the lock files and of the sources of this server
    images,        \* name -> what the image under it holds
    builder,       \* the request each runtime is at
    serverJobs,    \* builds that run on the remote server
    imageAsks,
    relabelled     \* history: an image was replaced that another runtime was about to name again
imageVars == <<builderKind, published, checkout, images, builder, serverJobs, imageAsks, relabelled>>

\* What a tag says: the lock tag hashes the base image, the browser flag and the lock
\* files, the source tag the sources too; the versioned tag names the base image only.
SourceTag(q, c) == [kind |-> "source", base |-> q.base, browser |-> q.browser, lock |-> c.lock, src |-> c.src]
LockTag(q, c) == [SourceTag(q, c) EXCEPT !.kind = "lock", !.src = 0]
VersionedTag(q) == [kind |-> "versioned", base |-> q.base, browser |-> TRUE, lock |-> 0, src |-> 0]
\* What a release publishes for a base image.
Released(n) == [base |-> n.base, browser |-> n.browser, lock |-> 1, src |-> 1, extras |-> {}, layers |-> 1]

\* The Dockerfile: from scratch everything is installed, on a versioned image the
\* dependencies again, on a lock image only the sources are replaced.
OnTop(img, q, c) == [img EXCEPT !.src = c.src, !.extras = @ \cup q.extra, !.layers = @ + 1]
MutGenerateDockerfile(q, c, from, store) ==
    IF from = "scratch"
    THEN [base |-> q.base, browser |-> q.browser, lock |-> c.lock, src |-> c.src, extras |-> q.extra, layers |-> 1]
    ELSE OnTop(store[IF from = "versioned" THEN VersionedTag(q) ELSE LockTag(q, c)], q, c)
GenerateDockerfile(q, c, from, store) ==
    CASE from = "scratch" ->
           [base |-> q.base, browser |-> q.browser, lock |-> c.lock, src |-> c.src, extras |-> q.extra, layers |-> 1]
      [] from = "versioned" ->
           [OnTop(store[VersionedTag(q)], q, c) EXCEPT !.lock = c.lock, !.browser = @ \/ q.browser]
      [] OTHER -> OnTop(store[LockTag(q, c)], q, c)

Resting == [at |-> "idle", q |-> CHOOSE q \in ImageRequests : TRUE, c |-> [lock |-> 1, src |-> 1],
            from |-> "scratch", names |-> <<>>]
Out(b) == builder[b].at \in {"idle", "returned", "nothing"}
Here(b, at) == builder[b].at = at
Found(n) == n \in DOMAIN images
Store(n, img) == images' = [m \in DOMAIN images \cup {n} |-> IF m = n THEN img ELSE images[m]]
StepsTo(b, at) == builder' = [builder EXCEPT ![b].at = at]
Finishes(b, at) == builder' = [builder EXCEPT ![b] = IF at = "failed" THEN Resting ELSE [@ EXCEPT !.at = at, !.from = "scratch", !.names = <<>>]]

ImageInit ==
    /\ builderKind \in {"docker", "remote"} /\ checkout = [lock |-> 1, src |-> 1]
    /\ published \in {{}} \cup {{LockTag(q, checkout)} : q \in ImageRequests} \cup {{VersionedTag(q)} : q \in ImageRequests}
    /\ (builderKind = "remote" => published = {})
    /\ images = [n \in {} |-> 0] /\ builder = [b \in Builders |-> Resting] /\ serverJobs = {} /\ imageAsks = 0
    /\ relabelled = FALSE

\* A pull, a merge or a new release of the server.
UpdatesCheckout ==
    /\ \A b \in Builders : Out(b)
    /\ \E f \in {"lock", "src"} : checkout[f] < MaxCheckouts /\ checkout' = [checkout EXCEPT ![f] = @ + 1]
    /\ UNCHANGED <<builderKind, published, images, builder, serverJobs, imageAsks, relabelled>>

-----------------------------------------------------------------------------
(* build_runtime_image_in_folder *)

AsksImage(b, q) ==
    /\ Out(b) /\ imageAsks < MaxImageAsks /\ imageAsks' = imageAsks + 1
    /\ builder' = [builder EXCEPT ![b] = [Resting EXCEPT !.q = q, !.c = checkout,
                     !.at = IF q.forced THEN "prepare" ELSE IF Found(SourceTag(q, checkout)) THEN "returned" ELSE "lock"]]
    /\ UNCHANGED <<builderKind, published, checkout, images, serverJobs, relabelled>>

Looked(b) == IF builder[b].at = "lock" THEN LockTag(builder[b].q, builder[b].c) ELSE VersionedTag(builder[b].q)
\* image_exists finds it here, or pulls it.
FindsOlder(b) ==
    LET n == Looked(b) IN
    /\ builder[b].at \in {"lock", "versioned"}
    /\ \/ Found(n) /\ UNCHANGED images
       \/ ~Found(n) /\ n \in published /\ Store(n, Released(n))
    /\ builder' = [builder EXCEPT ![b].from = builder[b].at, ![b].at = "prepare"]
    /\ UNCHANGED <<builderKind, published, checkout, serverJobs, imageAsks, relabelled>>
\* A pull that fails is an image that is not there.
MissesOlder(b) ==
    /\ builder[b].at \in {"lock", "versioned"} /\ ~Found(Looked(b))
    /\ StepsTo(b, IF Here(b, "lock") THEN "versioned" ELSE "prepare")
    /\ UNCHANGED <<builderKind, published, checkout, images, serverJobs, imageAsks, relabelled>>
PrepBuildFolder(b) ==
    /\ Here(b, "prepare") /\ StepsTo(b, "list")
    /\ UNCHANGED <<builderKind, published, checkout, images, serverJobs, imageAsks, relabelled>>

\* _build_sandbox_image: the names that nothing has yet; the versioned one for a build
\* from scratch only.  If another runtime has taken them all the builder raises.
Missing(b, n) == IF builder[b].q.forced \/ ~Found(n) THEN <<n>> ELSE <<>>
MissingNames(b) ==
    Missing(b, SourceTag(builder[b].q, builder[b].c)) \o Missing(b, LockTag(builder[b].q, builder[b].c))
        \o IF builder[b].from = "scratch" THEN Missing(b, VersionedTag(builder[b].q)) ELSE <<>>
ListsNames(b) ==
    /\ Here(b, "list")
    /\ IF MissingNames(b) = <<>> THEN Finishes(b, "nothing")
       ELSE builder' = [builder EXCEPT ![b].names = MissingNames(b), ![b].at = "build"]
    /\ UNCHANGED <<builderKind, published, checkout, images, serverJobs, imageAsks, relabelled>>

-----------------------------------------------------------------------------
(* The builders *)

\* DockerRuntimeBuilder.build tags the image with the first name, looks that name up
\* and tags what it finds with the second; a third name is passed over.
Relabels(b, n) ==
    relabelled' = (relabelled \/ \E a \in Builders \ {b} : Here(a, "retag") /\ builder[a].names[1] = n)
DockerBuilds(b) ==
    /\ Here(b, "build") /\ builderKind = "docker" /\ Relabels(b, builder[b].names[1])
    /\ Store(builder[b].names[1], GenerateDockerfile(builder[b].q, builder[b].c, builder[b].from, images))
    /\ IF Len(builder[b].names) > 1 THEN StepsTo(b, "retag") ELSE Finishes(b, "returned")
    /\ UNCHANGED <<builderKind, published, checkout, serverJobs, imageAsks>>
DockerRetags(b) ==
    /\ Here(b, "retag") /\ Relabels(b, builder[b].names[2])
    /\ Store(builder[b].names[2], images[builder[b].names[1]])
    /\ Finishes(b, "returned")
    /\ UNCHANGED <<builderKind, published, checkout, serverJobs, imageAsks>>
\* RemoteRuntimeBuilder.build sends the folder and polls for the end of the build.
SubmitsBuild(b) ==
    /\ Here(b, "build") /\ builderKind = "remote" /\ StepsTo(b, "poll")
    /\ serverJobs' = serverJobs \cup {[of |-> b, build |-> builder[b], status |-> "running"]}
    /\ UNCHANGED <<builderKind, published, checkout, images, imageAsks, relabelled>>
EndsJob(j, status) == serverJobs' = (serverJobs \ {j}) \cup (IF j.of = 0 THEN {} ELSE {[j EXCEPT !.status = status]})
ServerBuilds(j) ==
    /\ j.status = "running" /\ EndsJob(j, "success")
    /\ images' = [n \in DOMAIN images \cup Range(j.build.names) |->
                    IF n \in Range(j.build.names) THEN GenerateDockerfile(j.build.q, j.build.c, j.build.from, images) ELSE images[n]]
    /\ UNCHANGED <<builderKind, published, checkout, builder, imageAsks, relabelled>>
ServerGivesUp(j) ==
    /\ j.status = "running" /\ EndsJob(j, "failure")
    /\ UNCHANGED <<builderKind, published, checkout, images, builder, imageAsks, relabelled>>
PollsBuild(b, j) ==
    /\ Here(b, "poll") /\ j.of = b /\ j.status # "running"
    /\ Finishes(b, IF j.status = "success" THEN "returned" ELSE "failed") /\ serverJobs' = serverJobs \ {j}
    /\ UNCHANGED <<builderKind, published, checkout, images, imageAsks, relabelled>>
\* The build fails, or has not ended within half an hour: it may yet, unwatched.
BuildFails(b) ==
    /\ \/ Here(b, "build") /\ UNCHANGED serverJobs
       \/ Here(b, "poll") /\ serverJobs' = {IF j.of = b THEN [j EXCEPT !.of = 0] ELSE j : j \in {k \in serverJobs : k.of # b \/ k.status = "running"}}
    /\ Finishes(b, "failed") /\ UNCHANGED <<builderKind, published, checkout, images, imageAsks, relabelled>>

ImageNext ==
    \/ UpdatesCheckout
    \/ \E b \in Builders :
         \/ \E q \in ImageRequests : AsksImage(b, q)
         \/ FindsOlder(b) \/ MissesOlder(b) \/ PrepBuildFolder(b) \/ ListsNames(b)
         \/ DockerBuilds(b) \/ DockerRetags(b) \/ SubmitsBuild(b) \/ BuildFails(b)
         \/ \E j \in serverJobs : PollsBuild(b, j)
    \/ \E j \in serverJobs : ServerBuilds(j) \/ ServerGivesUp(j)

-----------------------------------------------------------------------------
\* An image holds what its tag says.
TagsTrue ==
    \A n \in DOMAIN images :
        /\ images[n].base = n.base
        /\ n.kind # "versioned" => images[n].lock = n.lock /\ (n.browser => images[n].browser)
        /\ n.kind = "source" => images[n].src = n.src
\* Layers do not pile up: an image with a versioned tag is built from scratch, one with a
\* lock tag on that at most, one with a source tag on a lock image at most.  Unless one was
\* relabelled: docker looks the source tag up again before it gives its image a second
\* name, and another runtime may have put an image of more layers there.
Most(kind) == CASE kind = "versioned" -> 1 [] kind = "lock" -> 2 [] OTHER -> 3
FewLayers == relabelled \/ \A n \in DOMAIN images : images[n].layers <= Most(n.kind)
\* A runtime is given the name of an image that is there, and it fails for want of a
\* name only when its image is there.
ImageThere == \A b \in Builders : builder[b].at \in {"returned", "nothing"} => Found(SourceTag(builder[b].q, builder[b].c))
\* However builds of several runtimes, pulls, failures and releases fall together:
\* tags are true, layers do not pile up and the image a runtime is given is there.
ImagesTrue == TagsTrue /\ FewLayers /\ ImageThere
=============================================================================
