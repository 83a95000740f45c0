---------------------------- MODULE ExpTemplates ----------------------------
(***************************************************************************)
(* Experiment templates and the image they use: the template services and   *)
(* the image service of service/experiment, with the lesson that refers to  *)
(* a template.  One image with its versions, one lesson, and in a template  *)
(* at most one role, one script and one scene.                              *)
(*                                                                          *)
(* Every request checks what it has read and writes afterwards; of the      *)
(* database, the foreign keys of containers to versions and roles refuse a  *)
(* write.  The parts of a template are read as one state of the database.   *)
(***************************************************************************)
EXTENDS Integers, Sequences, FiniteSets

CONSTANTS
    Crews,                  \* the threads, the requests they may start and the templates, the
                            \* image and the versions there are: [threads, calls, from]
    MaxTemplates, MaxBoxes, \* bounds: the templates, and the containers of one
    Versions,               \* the version numbers of the image
    None                    \* no row, NULL

VARIABLES
    tpls,       \* the rows of experiment_templates with their containers, scripts, scenes,
                \* checkpoint types and role; edited is history: a part has changed since
                \* the publication
    lesson,     \* the template the lesson refers to
    image,      \* the status of the image; approved and listed are history: it has been
                \* normal, a list of versions has told which are the default
    versions,   \* the rows of image_versions: version to whether it is the default
    thr,        \* what each handler has read
    left        \* requests that may still start

vars == <<tpls, lesson, image, versions, thr, left>>

Idle == [at |-> "idle"]
Threads == UNION {c.threads : c \in Crews}
Free(t) == t \in DOMAIN thr /\ thr[t] = Idle /\ left > 0
At(t, step) == t \in DOMAIN thr /\ thr[t].at = step
Goes(t, r) == thr' = [thr EXCEPT ![t] = r]
Begins(t, r) == Free(t) /\ left' = left - 1 /\ Goes(t, r) /\ UNCHANGED <<tpls, lesson, image, versions>>
Ends(t, step) == At(t, step) /\ Goes(t, Idle) /\ UNCHANGED left
AtOnce(t) == Free(t) /\ left' = left - 1 /\ UNCHANGED thr

Kinds == {"sim", "real", "mixed"}
Modes == {"single", "shared", "collab"}
HasContainers(kind) == kind \in {"real", "mixed"}
HasScenes(kind) == kind \in {"sim", "mixed"}
CheckTypeAllowed(kind, type) ==
    ~(kind = "sim" /\ type = "script") /\ ~(kind = "real" /\ type = "assert")

NewTemplate(kind, mode) ==
    [status |-> "draft", kind |-> kind, mode |-> mode, shared |-> FALSE, deleted |-> FALSE, edited |-> FALSE,
     boxes |-> {}, scripts |-> FALSE, scenes |-> FALSE, checks |-> {}, role |-> None]

Stored(i) == i \in DOMAIN tpls /\ ~tpls[i].deleted
HasCourseReferences(i) == lesson = i
Boxes == UNION {tpls[i].boxes : i \in DOMAIN tpls}
TemplateRoles == {tpls[i].role : i \in DOMAIN tpls} \ {None}
InUse(v) == \E box \in Boxes : box.ver = v

StructureEditable(i) ==
    /\ Stored(i) /\ tpls[i].status \in {"draft", "published"}
    /\ tpls[i].status = "published" => ~HasCourseReferences(i)
CheckpointEditable(i) == Stored(i) /\ tpls[i].status \in {"draft", "published"}
UsableVersion(v) == v \in DOMAIN versions /\ image.status = "normal"
ScopeAllowed(mode, scope) == mode # None /\ (scope = "shared" => mode = "shared")

BothScopes(T) ==
    T.mode = "shared" => {"shared", "instance"} \subseteq {box.scope : box \in T.boxes}

\* The errors of the first level: what a template of its type and topology must have, and
\* images that are there and normal.
DependencyIntegrity(T) ==
    /\ HasContainers(T.kind) => T.boxes # {}
    /\ HasScenes(T.kind) => T.scenes
    /\ T.checks # {}
    /\ \A box \in T.boxes : box.role \in {None, T.role}
    /\ (T.mode = "collab") = (T.role # None)
    /\ T.mode = "shared" => \A box \in T.boxes : box.scope = "shared" => box.role = None
    /\ BothScopes(T)
    /\ \A box \in T.boxes : UsableVersion(box.ver)

Init ==
    \E crew \in Crews :
        /\ thr = [t \in crew.threads |-> Idle] /\ left = crew.calls
        /\ tpls = crew.from.tpls /\ lesson = None /\ versions = crew.from.versions
        /\ image = [status |-> crew.from.image, approved |-> crew.from.image = "normal", listed |-> FALSE]

-----------------------------------------------------------------------------
(* The template.                                                            *)

Create(t, kind, mode) ==
    /\ Len(tpls) < MaxTemplates /\ AtOnce(t)
    /\ tpls' = Append(tpls, NewTemplate(kind, mode))
    /\ UNCHANGED <<lesson, image, versions>>

\* The columns of a row, whatever has become of it unless it is deleted.
FieldsWrite(t) ==
    /\ Ends(t, "fields")
    /\ LET i == thr[t].of
           f == thr[t].fields
       IN
       tpls' = IF Stored(i)
               THEN [tpls EXCEPT ![i] = [c \in DOMAIN @ |-> IF c \in DOMAIN f THEN f[c] ELSE @[c]]]
               ELSE tpls
    /\ UNCHANGED <<lesson, image, versions>>

WillWrite(i, fields) == [at |-> "fields", of |-> i, fields |-> fields]

UpdateTopology(t, i, mode) == StructureEditable(i) /\ Begins(t, WillWrite(i, [mode |-> mode, edited |-> TRUE]))

UpdateType(t, i, kind) ==
    StructureEditable(i) /\ kind # tpls[i].kind /\ Begins(t, [at |-> "switch", of |-> i, kind |-> kind])

\* One transaction writes the type and deletes the parts the new type has no use for.
WithoutLeftovers(T, kind) ==
    CASE kind = "sim" ->
           [T EXCEPT !.boxes = {}, !.scripts = FALSE, !.role = None, !.checks = @ \ {"script"}]
      [] kind = "real" -> [T EXCEPT !.scenes = FALSE, !.checks = @ \ {"assert"}]
      [] OTHER -> T

TypeSwitchCleanup(t) ==
    /\ Ends(t, "switch")
    /\ LET i == thr[t].of
           kind == thr[t].kind
           row == [tpls[i] EXCEPT !.kind = kind, !.mode = IF kind = "sim" THEN None ELSE @, !.edited = TRUE]
       IN  tpls' = [tpls EXCEPT ![i] = WithoutLeftovers(IF Stored(i) THEN row ELSE @, kind)]
    /\ UNCHANGED <<lesson, image, versions>>

Delete(t, i) == Stored(i) /\ ~HasCourseReferences(i) /\ Begins(t, WillWrite(i, [deleted |-> TRUE]))

Publish(t, i) ==
    /\ Stored(i) /\ tpls[i].status = "draft"
    /\ (tpls[i].boxes # {} \/ tpls[i].scenes) /\ tpls[i].checks # {} /\ BothScopes(tpls[i])
    /\ Begins(t, [at |-> "validate", of |-> i])

\* The template is loaded again for its validation.
Validate(t) ==
    /\ At(t, "validate")
    /\ LET i == thr[t].of IN
       Goes(t, IF Stored(i) /\ DependencyIntegrity(tpls[i])
               THEN WillWrite(i, [status |-> "published", edited |-> FALSE]) ELSE Idle)
    /\ UNCHANGED <<tpls, lesson, image, versions, left>>

Unpublish(t, i) ==
    Stored(i) /\ tpls[i].status = "published" /\ Begins(t, WillWrite(i, [status |-> "off"]))

Share(t, i, shared) ==
    /\ Stored(i) /\ (shared => tpls[i].status = "published")
    /\ Begins(t, WillWrite(i, [shared |-> shared]))

\* Of a template of one's own in any state, or of a shared one.
Clone(t, i) ==
    Stored(i) /\ Len(tpls) < MaxTemplates /\ Begins(t, [at |-> "clone", source |-> tpls[i], id |-> left])

ClonedRole(role, from, to) == IF role = from THEN to ELSE None

\* The new rows name the new role; the scope of a container is left to its default.
CloneWrite(t) ==
    /\ Ends(t, "clone")
    /\ LET T == thr[t].source
           role == IF T.role = None THEN None ELSE [of |-> Len(tpls) + 1, id |-> thr[t].id]
           copy(box) == [box EXCEPT !.scope = "instance", !.role = ClonedRole(@, T.role, role)]
       IN  tpls' = IF \A box \in T.boxes : box.ver \in DOMAIN versions
                   THEN Append(tpls, [T EXCEPT !.status = "draft", !.shared = FALSE, !.edited = FALSE,
                                               !.role = role, !.boxes = {copy(box) : box \in @}])
                   ELSE tpls
    /\ UNCHANGED <<lesson, image, versions>>

-----------------------------------------------------------------------------
(* Its parts.                                                               *)

\* The role belongs to the template in the request, and a shared container has none.
ResolveRole(i, role, scope) == role # None => role = tpls[i].role /\ scope = "instance"

CreateContainer(t, i, ver, scope, role) ==
    /\ StructureEditable(i) /\ HasContainers(tpls[i].kind) /\ UsableVersion(ver)
    /\ ScopeAllowed(tpls[i].mode, scope) /\ ResolveRole(i, role, scope)
    /\ Cardinality(tpls[i].boxes) < MaxBoxes
    /\ Begins(t, [at |-> "box", of |-> i, old |-> {},
                  new |-> {[id |-> left, ver |-> ver, scope |-> scope, role |-> role]}])

UpdateContainer(t, i, box, field, value) ==
    /\ StructureEditable(i) /\ HasContainers(tpls[i].kind) /\ box \in tpls[i].boxes
    /\ CASE field = "ver" -> UsableVersion(value)
         [] field = "scope" -> ScopeAllowed(tpls[i].mode, value)
         [] field = "role" -> ResolveRole(i, value, box.scope)
    /\ Begins(t, [at |-> "box", of |-> i, old |-> {box}, new |-> {[box EXCEPT ![field] = value]}])

DeleteContainer(t, i, box) ==
    /\ StructureEditable(i) /\ box \in tpls[i].boxes
    /\ Begins(t, [at |-> "box", of |-> i, old |-> {box}, new |-> {}])

\* The containers after the write of a request: an update of a row that is gone, or that
\* another request changed in another column, does what its statement does.
Updated(box, new, old) == [c \in DOMAIN box |-> IF \E o \in old : o[c] # new[c] THEN new[c] ELSE box[c]]
BoxesAfter(r) ==
    LET others == {box \in tpls[r.of].boxes : \A o \in r.old : o.id # box.id} IN
    others \union (IF r.old = {} THEN r.new
                   ELSE {Updated(box, new, r.old) : box \in tpls[r.of].boxes \ others, new \in r.new})

\* Refused when the version or the role is gone.
BoxWrite(t) ==
    /\ Ends(t, "box")
    /\ LET i == thr[t].of
           after == BoxesAfter(thr[t])
       IN  tpls' = IF \A box \in after : box.ver \in DOMAIN versions /\ box.role \in TemplateRoles \union {None}
                   THEN [tpls EXCEPT ![i].boxes = after, ![i].edited = TRUE] ELSE tpls
    /\ UNCHANGED <<lesson, image, versions>>

WillSet(i, part, value) == [at |-> "part", of |-> i, part |-> part, old |-> tpls[i][part], value |-> value]

CreateInitScript(t, i) ==
    StructureEditable(i) /\ HasContainers(tpls[i].kind) /\ ~tpls[i].scripts /\ Begins(t, WillSet(i, "scripts", TRUE))
DeleteInitScript(t, i) ==
    StructureEditable(i) /\ tpls[i].scripts /\ Begins(t, WillSet(i, "scripts", FALSE))
CreateSimScene(t, i) ==
    StructureEditable(i) /\ HasScenes(tpls[i].kind) /\ ~tpls[i].scenes /\ Begins(t, WillSet(i, "scenes", TRUE))
DeleteSimScene(t, i) ==
    StructureEditable(i) /\ tpls[i].scenes /\ Begins(t, WillSet(i, "scenes", FALSE))

CreateRole(t, i) ==
    /\ StructureEditable(i) /\ tpls[i].mode = "collab" /\ tpls[i].role = None
    /\ Begins(t, WillSet(i, "role", [of |-> i, id |-> left]))
DeleteRole(t, i) ==
    /\ StructureEditable(i) /\ tpls[i].role # None /\ \A box \in tpls[i].boxes : box.role # tpls[i].role
    /\ Begins(t, WillSet(i, "role", None))

\* The row is there once at most, and gone once at most; a container that has been given
\* the role meanwhile keeps it from being deleted.
PartWrite(t) ==
    /\ Ends(t, "part")
    /\ LET i == thr[t].of
           part == thr[t].part
           held == part = "role" /\ \E box \in tpls[i].boxes : box.role # None
       IN  tpls' = IF tpls[i][part] = thr[t].old /\ ~held
                   THEN [tpls EXCEPT ![i][part] = thr[t].value, ![i].edited = TRUE] ELSE tpls
    /\ UNCHANGED <<lesson, image, versions>>

CheckTypes == {"script", "assert", "manual"}

CreateCheckpoint(t, i, type) ==
    /\ CheckpointEditable(i) /\ CheckTypeAllowed(tpls[i].kind, type) /\ type \notin tpls[i].checks
    /\ Begins(t, [at |-> "check", of |-> i, old |-> {}, new |-> {type}])
UpdateCheckpoint(t, i, old, type) ==
    /\ CheckpointEditable(i) /\ old \in tpls[i].checks \ {type} /\ CheckTypeAllowed(tpls[i].kind, type)
    /\ Begins(t, [at |-> "check", of |-> i, old |-> {old}, new |-> {type}])
DeleteCheckpoint(t, i, old) ==
    /\ CheckpointEditable(i) /\ old \in tpls[i].checks
    /\ Begins(t, [at |-> "check", of |-> i, old |-> {old}, new |-> {}])

CheckWrite(t) ==
    /\ Ends(t, "check")
    /\ LET i == thr[t].of IN
       tpls' = IF thr[t].old \subseteq tpls[i].checks
               THEN [tpls EXCEPT ![i].checks = (@ \ thr[t].old) \union thr[t].new, ![i].edited = TRUE] ELSE tpls
    /\ UNCHANGED <<lesson, image, versions>>

\* The course service stores the id it is given.
SetLesson(t, i) ==
    /\ i = None \/ i \in DOMAIN tpls
    /\ lesson # i /\ AtOnce(t)
    /\ lesson' = i
    /\ UNCHANGED <<tpls, image, versions>>

-----------------------------------------------------------------------------
(* The image.                                                               *)

\* By a super administrator it is normal, by a teacher it waits for a review.  The default
\* versions are those the request names, else its first.
CreateImage(t, admin, list, defaults) ==
    /\ image.status = "none" /\ defaults # {} /\ defaults \subseteq list /\ AtOnce(t)
    /\ image' = [status |-> IF admin THEN "normal" ELSE "pending", approved |-> admin,
                 listed |-> Cardinality(defaults) > 1]
    /\ versions' = [v \in list |-> v \in defaults]
    /\ UNCHANGED <<tpls, lesson>>

ReviewImage(t, approve) ==
    image.status = "pending" /\ Begins(t, [at |-> "image", to |-> IF approve THEN "normal" ELSE "rejected"])

DeleteImage(t) ==
    /\ image.status \notin {"none", "off"} /\ Boxes = {}
    /\ Begins(t, [at |-> "image", to |-> "off"])

ImageWrite(t) ==
    /\ Ends(t, "image")
    /\ image' = [image EXCEPT !.status = thr[t].to, !.approved = @ \/ thr[t].to = "normal"]
    /\ UNCHANGED <<tpls, lesson, versions>>

CreateVersion(t, v, default) ==
    /\ image.status # "none" /\ v \notin DOMAIN versions
    /\ Begins(t, [at |-> IF default THEN "clear" ELSE "insert", ver |-> v, then |-> "insert", default |-> default])

SetDefaultVersion(t, v) ==
    v \in DOMAIN versions /\ Begins(t, [at |-> "clear", ver |-> v, then |-> "default"])

ClearDefault(t) ==
    /\ At(t, "clear") /\ Goes(t, [thr[t] EXCEPT !.at = thr[t].then])
    /\ versions' = [v \in DOMAIN versions |-> FALSE]
    /\ UNCHANGED <<tpls, lesson, image, left>>

InsertVersion(t) ==
    /\ Ends(t, "insert")
    /\ versions' = IF thr[t].ver \in DOMAIN versions THEN versions
                   ELSE [v \in DOMAIN versions \union {thr[t].ver} |->
                           IF v = thr[t].ver THEN thr[t].default ELSE versions[v]]
    /\ UNCHANGED <<tpls, lesson, image>>

SetDefault(t) ==
    /\ Ends(t, "default")
    /\ versions' = [v \in DOMAIN versions |-> v = thr[t].ver \/ versions[v]]
    /\ UNCHANGED <<tpls, lesson, image>>

DeleteVersion(t, v) ==
    v \in DOMAIN versions /\ ~InUse(v) /\ Begins(t, [at |-> "delete", ver |-> v])

DeleteVersionWrite(t) ==
    /\ Ends(t, "delete")
    /\ versions' = IF InUse(thr[t].ver) THEN versions
                   ELSE [v \in DOMAIN versions \ {thr[t].ver} |-> versions[v]]
    /\ UNCHANGED <<tpls, lesson, image>>

\* One transaction creates the image, or updates it as it is, and the versions listed.
SyncImageFromManifest(t, list, defaults) ==
    /\ defaults # {} /\ defaults \subseteq list /\ AtOnce(t)
    /\ image' = IF image.status = "none" THEN [status |-> "normal", approved |-> TRUE, listed |-> TRUE]
                ELSE [image EXCEPT !.listed = TRUE]
    /\ versions' = [v \in DOMAIN versions \union list |->
                      IF v \in list THEN v \in defaults ELSE versions[v]]
    /\ UNCHANGED <<tpls, lesson>>

Request(t) ==
    \/ \E kind \in Kinds, mode \in Modes : Create(t, kind, mode)
    \/ \E i \in 1..MaxTemplates :
         \/ \E mode \in Modes : UpdateTopology(t, i, mode)
         \/ \E kind \in Kinds : UpdateType(t, i, kind)
         \/ Delete(t, i) \/ Publish(t, i) \/ Unpublish(t, i) \/ Clone(t, i)
         \/ \E shared \in BOOLEAN : Share(t, i, shared)
         \/ /\ Stored(i)
            /\ \E ver \in Versions, scope \in {"instance", "shared"}, role \in TemplateRoles \union {None} :
                CreateContainer(t, i, ver, scope, role)
         \/ /\ Stored(i)
            /\ \E box \in tpls[i].boxes :
              \/ \E ver \in Versions \ {box.ver} : UpdateContainer(t, i, box, "ver", ver)
              \/ \E scope \in {"instance", "shared"} \ {box.scope} : UpdateContainer(t, i, box, "scope", scope)
              \/ \E role \in TemplateRoles \ {box.role} : UpdateContainer(t, i, box, "role", role)
              \/ DeleteContainer(t, i, box)
         \/ CreateInitScript(t, i) \/ DeleteInitScript(t, i) \/ CreateSimScene(t, i) \/ DeleteSimScene(t, i)
         \/ CreateRole(t, i) \/ DeleteRole(t, i)
         \/ \E type \in CheckTypes : CreateCheckpoint(t, i, type) \/ DeleteCheckpoint(t, i, type)
         \/ \E old, type \in CheckTypes : UpdateCheckpoint(t, i, old, type)
    \/ \E i \in 1..MaxTemplates \union {None} : SetLesson(t, i)
    \/ \E list \in SUBSET Versions : \E defaults \in SUBSET list :
         \/ \E admin \in BOOLEAN : CreateImage(t, admin, list, defaults)
         \/ SyncImageFromManifest(t, list, defaults)
    \/ \E approve \in BOOLEAN : ReviewImage(t, approve)
    \/ DeleteImage(t)
    \/ \E v \in Versions :
         \/ \E default \in BOOLEAN : CreateVersion(t, v, default)
         \/ SetDefaultVersion(t, v) \/ DeleteVersion(t, v)

Step(t) ==
    \/ FieldsWrite(t) \/ TypeSwitchCleanup(t) \/ Validate(t) \/ CloneWrite(t) \/ BoxWrite(t) \/ PartWrite(t)
    \/ CheckWrite(t) \/ ImageWrite(t) \/ ClearDefault(t) \/ InsertVersion(t) \/ SetDefault(t)
    \/ DeleteVersionWrite(t)

Next == \E t \in Threads : (Free(t) /\ Request(t)) \/ Step(t)

Spec == Init /\ [][Next]_vars

-----------------------------------------------------------------------------
Overlap == Cardinality(DOMAIN thr) - 1
Alone == Overlap = 0 /\ \A t \in DOMAIN thr : thr[t] = Idle

\* Every variable is in its domain.
TypeOK ==
    /\ \A i \in DOMAIN tpls :
         /\ tpls[i].status \in {"draft", "published", "off"} /\ tpls[i].kind \in Kinds
         /\ tpls[i].mode \in Modes \union {None} /\ tpls[i].checks \subseteq CheckTypes
    /\ lesson \in DOMAIN tpls \union {None}
    /\ image.status \in {"none", "pending", "normal", "rejected", "off"}
    /\ versions \in [DOMAIN versions -> BOOLEAN] /\ left \in Nat

\* A template and its containers refer to no role but its own.
OwnRoles(i, T) ==
    /\ T.role # None => T.role.of = i
    /\ \A box \in T.boxes : box.role # None => box.role.of = i

\* A template has no part its type has no use for.
FitsType(T) ==
    /\ ~HasContainers(T.kind) => T.boxes = {} /\ ~T.scripts
    /\ ~HasScenes(T.kind) => ~T.scenes
    /\ \A type \in T.checks : CheckTypeAllowed(T.kind, type)

\* Whatever overlaps, clones and type switches: a container refers to no role but one of its
\* own template, and to an image that a review or an administrator let pass at some time.
OnlyOwnAndApproved ==
    /\ \A i \in DOMAIN tpls : OwnRoles(i, tpls[i])
    /\ Boxes # {} => image.approved

\* While no requests overlap: a template has no part its type has no use for, the image of
\* every container is normal, and a published template that nobody has edited since would
\* pass its validation again, whoever has worked on the image or on a clone.
PublishedIsWhole ==
    Alone =>
      /\ \A i \in DOMAIN tpls :
           /\ FitsType(tpls[i])
           /\ tpls[i].status = "published" /\ ~tpls[i].edited => DependencyIntegrity(tpls[i])
      /\ Boxes # {} => image.status = "normal"

\* Unless a list of versions named several or a manifest was loaded, an image has one default
\* version, and one more at most for each request that overlaps.
OneDefault == image.listed \/ Cardinality({v \in DOMAIN versions : versions[v]}) <= 1 + Overlap

TemplatesHold == OnlyOwnAndApproved /\ PublishedIsWhole /\ OneDefault
=============================================================================
