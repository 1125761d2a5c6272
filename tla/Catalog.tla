------------------------------ MODULE Catalog ------------------------------
(***************************************************************************)
(* The workload and image catalog of the ciao controller datastore        *)
(* (src/unnamed/part_000): AddTenant and DeleteTenant for the tenants'    *)
(* image and workload lists, AddWorkload, DeleteWorkload, AddImage,       *)
(* UpdateImage, DeleteImage, and ResolveImage with its three namespaces.  *)
(*                                                                         *)
(* Every operation holds workloadsLock or imageLock for its whole length, *)
(* so each is one action.  The store calls are left out: each precedes    *)
(* the cache change it guards, so a failure is a step that changes        *)
(* nothing.  An image is a record [tenant, name, vis]; ids and names are   *)
(* disjoint model values, so ResolveImage's match on the id is the id.    *)
(* Instances matter only through the workload they name: inUse.           *)
(***************************************************************************)
EXTENDS Naturals, FiniteSets, Sequences, SequencesExt

CONSTANTS
    TenantIDs,    \* tenant uuids, Admin among them
    Admin,        \* the tenant id "admin", whose own images ResolveImage skips
    NoTenant,     \* the empty TenantID "" of a system image or workload
    ImageIDs,     \* image uuids
    Names,        \* image names
    WorkloadIDs   \* workload uuids

Visibilities == {"public", "private", "internal"}

VARIABLES
    tenants,          \* ds.tenants: id -> [images, workloads] (id lists)
    images,           \* ds.images: id -> [tenant, name, vis]
    publicImages,     \* ds.publicImages (id list)
    internalImages,   \* ds.internalImages (id list)
    workloads,        \* ds.workloads: id -> [tenant, vis]
    publicWorkloads,  \* ds.publicWorkloads (id list)
    inUse             \* workload ids some cached instance names

vars == <<tenants, images, publicImages, internalImages, workloads,
          publicWorkloads, inUse>>

Put(f, k, v) == [x \in DOMAIN f \cup {k} |-> IF x = k THEN v ELSE f[x]]
Drop(f, k) == [x \in DOMAIN f \ {k} |-> f[x]]

Init ==
    /\ tenants = [t \in {} |-> {}]
    /\ images = [m \in {} |-> {}]
    /\ publicImages = <<>>
    /\ internalImages = <<>>
    /\ workloads = [w \in {} |-> {}]
    /\ publicWorkloads = <<>>
    /\ inUse = {}

(***************************************************************************)
(* ResolveImage(t, name): the ids of t's own images (unless t is "" or    *)
(* "admin"; an unknown t is the error "Tenant not found"), then the       *)
(* public, then the internal images, scanned in that order for a match on *)
(* name or id.  The result is the first match, or ErrNoImage.             *)
(***************************************************************************)
NoImage == "ErrNoImage"
TenantNotFound == "Tenant not found"

Matches(ids, name) == SelectSeq(ids, LAMBDA m : images[m].name = name \/ m = name)

ResolveImage(t, name) ==
    IF t \notin {NoTenant, Admin} /\ t \notin DOMAIN tenants THEN TenantNotFound
    ELSE LET own == IF t \in {NoTenant, Admin} THEN <<>> ELSE tenants[t].images
             found == Matches(own \o publicImages \o internalImages, name)
         IN  IF found = <<>> THEN NoImage ELSE Head(found)

\* Ids of an image list with the one removed (the loop breaks at the first).
Unlist(ids, m) == RemoveFirst(ids, m)

(***************************************************************************)
(* AddTenant refuses a duplicate id.  DeleteTenant does not look at what  *)
(* the tenant still owns; its callers remove the tenant's images and      *)
(* workloads first, which the guard states.                                *)
(***************************************************************************)
AddTenant(t) ==
    /\ t \notin DOMAIN tenants
    /\ tenants' = Put(tenants, t, [images |-> <<>>, workloads |-> <<>>])
    /\ UNCHANGED <<images, publicImages, internalImages, workloads, publicWorkloads, inUse>>

DeleteTenant(t) ==
    /\ t \in DOMAIN tenants
    /\ tenants[t].images = <<>> /\ tenants[t].workloads = <<>>
    /\ tenants' = Drop(tenants, t)
    /\ UNCHANGED <<images, publicImages, internalImages, workloads, publicWorkloads, inUse>>

(***************************************************************************)
(* AddImage: refused for a cached id, and when ResolveImage of its name   *)
(* or of its id finds an image or fails.  After db.updateImage, an image  *)
(* with a tenant joins that tenant's list (an unknown tenant deletes the  *)
(* row again and fails), then the image is cached and listed as public or *)
(* internal by its visibility.                                            *)
(***************************************************************************)
AddImage(m, img) ==
    /\ m \notin DOMAIN images
    /\ ResolveImage(img.tenant, img.name) = NoImage
    /\ ResolveImage(img.tenant, m) = NoImage
    /\ img.tenant = NoTenant \/ img.tenant \in DOMAIN tenants
    /\ tenants' = IF img.tenant = NoTenant THEN tenants
                  ELSE [tenants EXCEPT ![img.tenant].images = Append(@, m)]
    /\ images' = Put(images, m, img)
    /\ publicImages' = IF img.vis = "public" THEN Append(publicImages, m) ELSE publicImages
    /\ internalImages' = IF img.vis = "internal" THEN Append(internalImages, m) ELSE internalImages
    /\ UNCHANGED <<workloads, publicWorkloads, inUse>>

\* UpdateImage: tenant and visibility may not change; a new name must not
\* resolve for the image's tenant.
UpdateImage(m, name) ==
    /\ m \in DOMAIN images
    /\ name # images[m].name => ResolveImage(images[m].tenant, name) = NoImage
    /\ images' = [images EXCEPT ![m].name = name]
    /\ UNCHANGED <<tenants, publicImages, internalImages, workloads, publicWorkloads, inUse>>

\* DeleteImage: an image whose tenant is gone is refused (ErrTenantNotFound);
\* otherwise it leaves its tenant's list, its visibility list and the cache.
DeleteImage(m) ==
    /\ m \in DOMAIN images
    /\ LET t == images[m].tenant IN
       /\ t = NoTenant \/ t \in DOMAIN tenants
       /\ tenants' = IF t = NoTenant THEN tenants
                     ELSE [tenants EXCEPT ![t].images = Unlist(@, m)]
    /\ internalImages' = IF images[m].vis = "internal" THEN Unlist(internalImages, m) ELSE internalImages
    /\ publicImages' = IF images[m].vis = "public" THEN Unlist(publicImages, m) ELSE publicImages
    /\ images' = Drop(images, m)
    /\ UNCHANGED <<workloads, publicWorkloads, inUse>>

(***************************************************************************)
(* AddWorkload caches the workload right after db.addWorkload; a public   *)
(* one joins publicWorkloads, any other its tenant's list, and for an     *)
(* unknown tenant it returns ErrNoTenant with the workload already cached.*)
(***************************************************************************)
AddWorkload(w, wl) ==
    /\ w \notin DOMAIN workloads
    /\ workloads' = Put(workloads, w, wl)
    /\ IF wl.vis = "public"
       THEN /\ publicWorkloads' = Append(publicWorkloads, w)
            /\ UNCHANGED tenants
       ELSE /\ tenants' = IF wl.tenant \in DOMAIN tenants
                          THEN [tenants EXCEPT ![wl.tenant].workloads = Append(@, w)]
                          ELSE tenants
            /\ UNCHANGED publicWorkloads
    /\ UNCHANGED <<images, publicImages, internalImages, inUse>>

(***************************************************************************)
(* DeleteWorkload: refused while an instance names it (ErrWorkloadInUse)  *)
(* and for an unknown id; after db.deleteWorkload a public one leaves     *)
(* publicWorkloads, a private one its tenant's list, and only then the    *)
(* cache.  A private workload of an unknown tenant returns                *)
(* ErrTenantNotFound with the store row deleted and the cache kept.       *)
(***************************************************************************)
DeleteWorkload(w) ==
    /\ w \notin inUse
    /\ w \in DOMAIN workloads
    /\ LET wl == workloads[w] IN
       IF wl.vis = "public"
       THEN /\ publicWorkloads' = Unlist(publicWorkloads, w)
            /\ workloads' = Drop(workloads, w)
            /\ UNCHANGED tenants
       ELSE IF wl.tenant \in DOMAIN tenants
       THEN /\ tenants' = [tenants EXCEPT ![wl.tenant].workloads = Unlist(@, w)]
            /\ workloads' = Drop(workloads, w)
            /\ UNCHANGED publicWorkloads
       ELSE UNCHANGED <<tenants, workloads, publicWorkloads>>
    /\ UNCHANGED <<images, publicImages, internalImages, inUse>>

\* AddInstance of an instance of a cached workload, and the deletion of the
\* last instance naming it.
UseWorkload(w) ==
    /\ w \in DOMAIN workloads
    /\ inUse' = inUse \cup {w}
    /\ UNCHANGED <<tenants, images, publicImages, internalImages, workloads, publicWorkloads>>

ReleaseWorkload(w) ==
    /\ w \in inUse
    /\ inUse' = inUse \ {w}
    /\ UNCHANGED <<tenants, images, publicImages, internalImages, workloads, publicWorkloads>>

ImageOwners == TenantIDs \cup {NoTenant}
Image == [tenant : ImageOwners, name : Names, vis : Visibilities]
Workload == [tenant : ImageOwners, vis : {"public", "private"}]

Next ==
    \/ \E t \in TenantIDs : AddTenant(t) \/ DeleteTenant(t)
    \/ \E m \in ImageIDs, img \in Image : AddImage(m, img)
    \/ \E m \in ImageIDs, n \in Names : UpdateImage(m, n)
    \/ \E m \in ImageIDs : DeleteImage(m)
    \/ \E w \in WorkloadIDs, wl \in Workload : AddWorkload(w, wl)
    \/ \E w \in WorkloadIDs :
          DeleteWorkload(w) \/ UseWorkload(w) \/ ReleaseWorkload(w)

Spec == Init /\ [][Next]_vars

-----------------------------------------------------------------------------
(* Properties *)

\* The images a tenant resolves names among: its own, the public and the
\* internal ones.
Visible(t) == ToSet(tenants[t].images \o publicImages \o internalImages)

\* Name resolution is unique within a tenant's namespace (spec: "Name
\* resolution is unique within (tenant U public U internal)", "ResolveImage
\* returns at most one match"), through AddImage's and UpdateImage's
\* ResolveImage checks for tenant, public, internal and system images.
ImageNamesUnique ==
    \A t \in DOMAIN tenants \ {Admin} :
        \A m1, m2 \in Visible(t) : images[m1].name = images[m2].name => m1 = m2
=============================================================================
