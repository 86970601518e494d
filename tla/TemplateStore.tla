---- MODULE TemplateStore ----
(* The templates' repository (src/template/repository.rs) over the store
   on disk (storage.rs): a directory for each template, a map from slugs
   to ids, a cache of templates and an index of their versions, each
   locked for itself.  No call holds a lock for longer than one step.  A
   template's id is new when it is stored; a file is written at once. *)
EXTENDS Naturals, Sequences, FiniteSets, SequencesExt

CONSTANTS Editors,  \* callers of the repository
          TemplateIds, Slugs,
          MaxVersion,    \* versions are numbered in the order they appear
          MaxCacheSize,  \* config.max_cache_size
          NoTemplate

ASSUME TemplateStoreAssumption == MaxVersion \in Nat \ {0} /\ MaxCacheSize \in Nat \ {0}

(* A template of version n lists the versions 1 to n. *)
Templates == [slug : Slugs, version : 1 .. MaxVersion]

VARIABLES
  disk,      \* id -> the template in its metadata.json
  slugOf,    \* slug_cache: slug -> id
  recent,    \* the cache, least recently used first: [id, template]
  versions,  \* version_index: id -> the latest version it lists
  edit,      \* what each caller is at
  raced      \* ids that two calls were at, at the same time

templateVars == <<disk, slugOf, recent, versions, edit, raced>>

NoEdit == [at |-> "none"]

(* What an earlier process left on disk; rebuild_slug_cache enters the slug
   of every template it finds, and the last found of two stays.  The index
   of versions starts empty. *)
TemplateInit ==
  /\ disk \in [TemplateIds -> Templates \cup {NoTemplate}]
  /\ LET found(s) == {i \in TemplateIds : disk[i] # NoTemplate /\ disk[i].slug = s}
         there == {s \in Slugs : found(s) # {}}
     IN  slugOf \in {f \in [there -> TemplateIds] : \A s \in there : f[s] \in found(s)}
  /\ recent = <<>>
  /\ versions = [i \in {} |-> 0]
  /\ edit = [c \in Editors |-> NoEdit]
  /\ raced = {}

(* A store that nobody has used. *)
TemplateRest == TemplateInit /\ \A i \in TemplateIds : disk[i] = NoTemplate

Entered(f, k, v) == [x \in DOMAIN f \cup {k} |-> IF x = k THEN v ELSE f[x]]
Left(f, k) == [x \in DOMAIN f \ {k} |-> f[x]]
InCache(i) == \E k \in DOMAIN recent : recent[k].id = i
Others(i) == SelectSeq(recent, LAMBDA e : e.id # i)

(* c goes on to [at, id, ...]; whoever else is at that id races with it. *)
Goes(c, next) ==
  /\ edit' = [edit EXCEPT ![c] = next]
  /\ raced' = IF \E d \in Editors \ {c} : edit[d] # NoEdit /\ edit[d].id = next.id
              THEN raced \cup {next.id} ELSE raced
Ends(c) == edit' = [edit EXCEPT ![c] = NoEdit] /\ UNCHANGED raced

----
(* The template is written, then the slug entered, then the cache, then the
   index. *)
Store(c, i, t) ==
  /\ edit[c] = NoEdit /\ disk[i] = NoTemplate
  /\ disk' = [disk EXCEPT ![i] = t]
  /\ Goes(c, [at |-> "slug", id |-> i, template |-> t, old |-> t.slug])
  /\ UNCHANGED <<slugOf, recent, versions>>

(* update looks for the template, and that the version is not one it had. *)
BeginUpdate(c, i, t) ==
  /\ edit[c] = NoEdit /\ disk[i] # NoTemplate
  /\ t.version >= disk[i].version
  /\ Goes(c, [at |-> "update", id |-> i, template |-> t])
  /\ UNCHANGED <<disk, slugOf, recent, versions>>

(* The store looks for it once more, and remembers the slug it had. *)
Found(c) ==
  /\ edit[c].at = "update"
  /\ IF disk[edit[c].id] = NoTemplate THEN Ends(c)
     ELSE Goes(c, [at |-> "write", id |-> edit[c].id, template |-> edit[c].template,
                   old |-> disk[edit[c].id].slug])
  /\ UNCHANGED <<disk, slugOf, recent, versions>>

Write(c) ==
  /\ edit[c].at = "write"
  /\ disk' = [disk EXCEPT ![edit[c].id] = edit[c].template]
  /\ Goes(c, [edit[c] EXCEPT !.at = "slug"])
  /\ UNCHANGED <<slugOf, recent, versions>>

(* The defect: the slug it had stays. *)
KeepOld(old, new) == slugOf

DropOld(old, new) == IF old # new THEN Left(slugOf, old) ELSE slugOf

EnterSlug(c) ==
  /\ edit[c].at = "slug"
  /\ LET e == edit[c]
     IN  slugOf' = Entered(DropOld(e.old, e.template.slug), e.template.slug, e.id)
  /\ Goes(c, [edit[c] EXCEPT !.at = "cache"])
  /\ UNCHANGED <<disk, versions, recent>>

(* add_to_cache: a full cache gives up what was used least recently, also
   when the template is in it already. *)
WithCached(i, t) ==
  LET kept == IF Len(recent) >= MaxCacheSize THEN Tail(recent) ELSE recent
  IN  Append(SelectSeq(kept, LAMBDA e : e.id # i), [id |-> i, template |-> t])

EnterCache(c) ==
  /\ edit[c].at = "cache"
  /\ recent' = WithCached(edit[c].id, edit[c].template)
  /\ Goes(c, [edit[c] EXCEPT !.at = "index"])
  /\ UNCHANGED <<disk, slugOf, versions>>

EnterIndex(c) ==
  /\ edit[c].at = "index"
  /\ versions' = Entered(versions, edit[c].id, edit[c].template.version)
  /\ Ends(c)
  /\ UNCHANGED <<disk, slugOf, recent>>

----
(* delete notes the slug, removes the directory, then goes over the maps. *)
DeleteTemplate(c, i) ==
  /\ edit[c] = NoEdit /\ disk[i] # NoTemplate
  /\ Goes(c, [at |-> "remove", id |-> i, old |-> disk[i].slug])
  /\ UNCHANGED <<disk, slugOf, recent, versions>>

RemoveDirectory(c) ==
  /\ edit[c].at = "remove"
  /\ IF disk[edit[c].id] = NoTemplate THEN Ends(c) /\ UNCHANGED disk
     ELSE /\ disk' = [disk EXCEPT ![edit[c].id] = NoTemplate]
          /\ Goes(c, [edit[c] EXCEPT !.at = "unslug"])
  /\ UNCHANGED <<slugOf, recent, versions>>

LeaveSlug(c) ==
  /\ edit[c].at = "unslug"
  /\ slugOf' = Left(slugOf, edit[c].old)
  /\ Goes(c, [edit[c] EXCEPT !.at = "uncache"])
  /\ UNCHANGED <<disk, recent, versions>>

LeaveCache(c) ==
  /\ edit[c].at = "uncache"
  /\ recent' = Others(edit[c].id)
  /\ Goes(c, [edit[c] EXCEPT !.at = "unindex"])
  /\ UNCHANGED <<disk, slugOf, versions>>

LeaveIndex(c) ==
  /\ edit[c].at = "unindex"
  /\ versions' = Left(versions, edit[c].id)
  /\ Ends(c)
  /\ UNCHANGED <<disk, slugOf, recent>>

----
(* get: from the cache, or from the disk and then into the cache. *)
Get(c, i) ==
  /\ edit[c] = NoEdit
  /\ \/ /\ InCache(i)
        /\ recent' = Append(Others(i), recent[CHOOSE k \in DOMAIN recent : recent[k].id = i])
        /\ UNCHANGED <<edit, raced>>
     \/ /\ ~InCache(i) /\ disk[i] # NoTemplate
        /\ Goes(c, [at |-> "fill", id |-> i, template |-> disk[i]])
        /\ UNCHANGED recent
  /\ UNCHANGED <<disk, slugOf, versions>>

FillCache(c) ==
  /\ edit[c].at = "fill"
  /\ recent' = WithCached(edit[c].id, edit[c].template)
  /\ Ends(c)
  /\ UNCHANGED <<disk, slugOf, versions>>

(* get_template_by_slug of a slug that the map does not have: the
   directories are read until one has it, and it is entered. *)
Scan(c, i) ==
  /\ edit[c] = NoEdit
  /\ disk[i] # NoTemplate /\ disk[i].slug \notin DOMAIN slugOf
  /\ Goes(c, [at |-> "scanned", id |-> i, slug |-> disk[i].slug])
  /\ UNCHANGED <<disk, slugOf, recent, versions>>

Scanned(c) ==
  /\ edit[c].at = "scanned"
  /\ slugOf' = Entered(slugOf, edit[c].slug, edit[c].id)
  /\ Ends(c)
  /\ UNCHANGED <<disk, recent, versions>>

TemplateNext ==
  \E c \in Editors :
     \/ \E i \in TemplateIds :
           \/ \E t \in Templates : Store(c, i, t) \/ BeginUpdate(c, i, t)
           \/ DeleteTemplate(c, i) \/ Get(c, i) \/ Scan(c, i)
     \/ Found(c) \/ Write(c) \/ EnterSlug(c) \/ EnterCache(c) \/ EnterIndex(c)
     \/ RemoveDirectory(c) \/ LeaveSlug(c) \/ LeaveCache(c) \/ LeaveIndex(c)
     \/ FillCache(c) \/ Scanned(c)

----
TemplateTypeOK ==
  /\ disk \in [TemplateIds -> Templates \cup {NoTemplate}]
  /\ DOMAIN slugOf \subseteq Slugs /\ \A s \in DOMAIN slugOf : slugOf[s] \in TemplateIds
  /\ DOMAIN versions \subseteq TemplateIds
  /\ raced \subseteq TemplateIds

(* The cache holds no more than it may, and a template once. *)
CacheIsBounded ==
  /\ Len(recent) <= MaxCacheSize
  /\ \A j, k \in DOMAIN recent : recent[j].id = recent[k].id => j = k

(* What is stale was raced for: between calls, a template that no two calls
   were at together is in the cache and the index as it is on disk, and a
   slug that leads to it is its own, whatever calls overlapped elsewhere. *)
StaleWasRaced ==
  \A i \in TemplateIds \ raced :
     (\A c \in Editors : edit[c] # NoEdit => edit[c].id # i) =>
        /\ \A k \in DOMAIN recent : recent[k].id = i => recent[k].template = disk[i]
        /\ i \in DOMAIN versions => disk[i] # NoTemplate /\ versions[i] = disk[i].version
        /\ \A s \in DOMAIN slugOf : slugOf[s] = i => disk[i] # NoTemplate /\ disk[i].slug = s

TemplatesInv == TemplateTypeOK /\ CacheIsBounded /\ StaleWasRaced
====
