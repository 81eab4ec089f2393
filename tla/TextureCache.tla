----------------------------- MODULE TextureCache -----------------------------
(***************************************************************************)
(* StTextureCache: textures that are loaded in a thread, joined to a       *)
(* request that is under way or taken from the cache, the eviction of      *)
(* icons, and textures that follow a property of an object.                *)
(***************************************************************************)
EXTENDS Integers, FiniteSets

CONSTANTS
  Textures,       \* the actors that are filled
  Icons, Uris, Raws,   \* the keys, by their prefix
  Unkeyed,        \* the icons that have no string and so are not cached
  NoData,
  MaxThemes       \* bound on the changes of the icon theme

Keys == Icons \cup Uris \cup Raws

ASSUME TextureCacheAssumption ==
  /\ Unkeyed \subseteq Icons
  /\ Icons \cap Uris = {} /\ (Icons \cup Uris) \cap Raws = {}
  /\ MaxThemes \in Nat /\ NoData \notin Keys \cup (0 .. MaxThemes)

VARIABLES
  keyedCache,     \* keyed_cache: what a key was loaded as, or NoData
  requests,       \* the loads under way, see RequestType
  shown,          \* what each texture shows: [key, data], data being NoData
                  \* while it is blank; the key is NoData before it is made
  iconTheme,      \* the generation of the icon theme
  failed,         \* textures whose load has failed
  bound           \* the binding of a texture to a property of an object

cacheVars == <<keyedCache, requests, shown, iconTheme, failed, bound>>

\* What was loaded is named by the generation of the theme it is from; images
\* that are no icons are of generation 0.
Data == (0 .. MaxThemes) \cup {NoData}

\* AsyncTextureLoadData; listed means that outstanding_requests has it.
RequestType == [key : Keys, listed : BOOLEAN, data : Data, textures : SUBSET Textures]

CacheInit ==
  /\ keyedCache = [k \in Keys |-> NoData]
  /\ requests = {}
  /\ shown = [t \in Textures |-> [key |-> NoData, data |-> NoData]]
  /\ iconTheme = 0 /\ failed = {}
  /\ bound = [texture |-> FALSE, source |-> FALSE, handler |-> FALSE,
              weakRef |-> FALSE, allocated |-> FALSE]

-----------------------------------------------------------------------------
Unmade(t) == shown[t].key = NoData

DataNow(k) == IF k \in Icons THEN iconTheme ELSE 0

\* Mutant: a request that is joined is started again.
EnsureRequestAgain(t, k, forever) ==
  /\ shown' = [shown EXCEPT ![t] = [key |-> k, data |-> keyedCache[k]]]
  /\ requests' =
       IF keyedCache[k] # NoData THEN requests
       ELSE requests \cup {[key |-> k, listed |-> forever, data |-> DataNow(k), textures |-> {t}]}

\* ensure_request() and the request that its callers start, which are cached
\* and joined unless the policy is NONE
EnsureRequest(t, k, forever) ==
  LET pending == {r \in requests : r.key = k /\ r.listed} IN
  /\ shown' = [shown EXCEPT ![t] = [key |-> k, data |-> keyedCache[k]]]
  /\ requests' =
       IF keyedCache[k] # NoData THEN requests
       ELSE IF pending # {}
            THEN {IF r \in pending THEN [r EXCEPT !.textures = @ \cup {t}] ELSE r : r \in requests}
            ELSE requests \cup {[key |-> k, listed |-> forever, data |-> DataNow(k), textures |-> {t}]}

\* load_gicon_with_colors(): the theme is asked before the thread starts.
LoadGicon(t, k) ==
  /\ Unmade(t)
  /\ EnsureRequest(t, k, k \notin Unkeyed)
  /\ UNCHANGED <<keyedCache, iconTheme, failed, bound>>

\* st_texture_cache_load_icon_name() of a symbolic icon that the theme does not
\* have: a blank texture
LoadIconMissing(t, k) ==
  /\ Unmade(t)
  /\ shown' = [shown EXCEPT ![t].key = k] /\ failed' = failed \cup {t}
  /\ UNCHANGED <<keyedCache, requests, iconTheme, bound>>

\* st_texture_cache_load_uri_async()
LoadUriAsync(t, k) ==
  /\ Unmade(t)
  /\ EnsureRequest(t, k, FALSE)
  /\ UNCHANGED <<keyedCache, iconTheme, failed, bound>>

\* st_texture_cache_load_uri_sync_to_cogl_texture() when the file can be read
LoadUriSync(k) ==
  /\ keyedCache[k] = NoData
  /\ keyedCache' = [keyedCache EXCEPT ![k] = DataNow(k)]
  /\ UNCHANGED <<requests, shown, iconTheme, failed, bound>>

\* st_texture_cache_load_from_raw()
LoadFromRaw(t, k) ==
  /\ Unmade(t)
  /\ keyedCache' = [keyedCache EXCEPT ![k] = DataNow(k)]
  /\ shown' = [shown EXCEPT ![t] = [key |-> k, data |-> keyedCache'[k]]]
  /\ UNCHANGED <<requests, iconTheme, failed, bound>>

\* The textures that on_pixbuf_loaded() fills
Filled(r) == r.textures

\* on_pixbuf_loaded(): whatever is outstanding for the key is taken out; what was
\* loaded is kept unless the policy is NONE.
PixbufLoaded(r, ok) ==
  /\ r \in requests
  /\ requests' = {IF q.key = r.key THEN [q EXCEPT !.listed = FALSE] ELSE q : q \in requests \ {r}}
  /\ keyedCache' = IF ok /\ r.key \in Icons \ Unkeyed /\ keyedCache[r.key] = NoData
                   THEN [keyedCache EXCEPT ![r.key] = r.data] ELSE keyedCache
  /\ shown' = IF ok THEN [t \in Textures |-> IF t \in Filled(r) THEN [shown[t] EXCEPT !.data = r.data]
                                             ELSE shown[t]]
              ELSE shown
  /\ failed' = IF ok THEN failed ELSE failed \cup r.textures
  /\ UNCHANGED <<iconTheme, bound>>

\* on_icon_theme_changed() and st_texture_cache_evict_icons()
IconThemeChanged ==
  /\ iconTheme < MaxThemes /\ iconTheme' = iconTheme + 1
  /\ keyedCache' = [k \in Keys |-> IF k \in Icons THEN NoData ELSE keyedCache[k]]
  /\ UNCHANGED <<requests, shown, failed, bound>>

-----------------------------------------------------------------------------
\* st_texture_cache_bind_pixbuf_property()
BindPixbufProperty ==
  /\ ~bound.texture /\ ~bound.source /\ ~bound.allocated
  /\ bound' = [texture |-> TRUE, source |-> TRUE, handler |-> TRUE, weakRef |-> TRUE, allocated |-> TRUE]
  /\ UNCHANGED <<keyedCache, requests, shown, iconTheme, failed>>

\* The texture is finalized: st_texture_cache_bind_weak_notify(), whose
\* disconnection calls st_texture_cache_free_bind()
BindWeakNotify ==
  /\ bound.texture
  /\ bound' = IF bound.weakRef
              THEN [bound EXCEPT !.texture = FALSE, !.weakRef = FALSE, !.handler = FALSE, !.allocated = FALSE]
              ELSE [bound EXCEPT !.texture = FALSE]
  /\ UNCHANGED <<keyedCache, requests, shown, iconTheme, failed>>

\* The object is finalized, its handlers with it: st_texture_cache_free_bind()
FreeBind ==
  /\ bound.source
  /\ bound' = IF bound.handler
              THEN [bound EXCEPT !.source = FALSE, !.handler = FALSE, !.weakRef = FALSE, !.allocated = FALSE]
              ELSE [bound EXCEPT !.source = FALSE]
  /\ UNCHANGED <<keyedCache, requests, shown, iconTheme, failed>>

CacheNext ==
  \/ \E t \in Textures :
       \/ \E k \in Icons : LoadGicon(t, k) \/ LoadIconMissing(t, k)
       \/ \E k \in Uris : LoadUriAsync(t, k)
       \/ \E k \in Raws : LoadFromRaw(t, k)
  \/ \E k \in Uris : LoadUriSync(k)
  \/ \E r \in requests, ok \in BOOLEAN : PixbufLoaded(r, ok)
  \/ IconThemeChanged
  \/ BindPixbufProperty \/ BindWeakNotify \/ FreeBind

CacheSpec == CacheInit /\ [][CacheNext]_cacheVars

-----------------------------------------------------------------------------
CacheTypeOK ==
  /\ keyedCache \in [Keys -> Data]
  /\ requests \subseteq RequestType
  /\ shown \in [Textures -> [key : Keys \cup {NoData}, data : Data]]
  /\ iconTheme \in 0 .. MaxThemes
  /\ failed \subseteq Textures
  /\ bound \in [texture : BOOLEAN, source : BOOLEAN, handler : BOOLEAN, weakRef : BOOLEAN, allocated : BOOLEAN]

\* "We had this cached already", "If there is already a request pending, append
\* it to that request": an icon that can be cached is loaded by one request at a
\* time, and not while it is in the cache.
LoadedOnce ==
  \A k \in Icons \ Unkeyed :
    LET loads == {r \in requests : r.key = k} IN
    Cardinality(loads) <= 1 /\ (keyedCache[k] # NoData => loads = {})

\* A texture that is made shows an image of its key, or waits in the one request
\* that will fill it, or its load has failed: joining a request under way, the
\* eviction of the icons and failures leave none blank for good.
NoTextureForgotten ==
  \A t \in Textures :
    LET waitsIn == {r \in requests : t \in r.textures} IN
    /\ Cardinality(waitsIn) <= 1 /\ \A r \in waitsIn : r.key = shown[t].key
    /\ ~Unmade(t) => \/ shown[t].data # NoData
                     \/ waitsIn # {}
                     \/ t \in failed

\* The binding of a texture is there as long as somebody may use it: its signal
\* handler while both objects live, its weak reference while the texture does.
BindingOutlivesUse ==
  /\ (bound.handler \/ bound.weakRef) => bound.allocated
  /\ bound.weakRef => bound.texture
  /\ bound.handler => bound.source /\ bound.texture

\* Every texture gets what it asked for, and what is asked for twice is loaded once.
TexturesArrive == CacheTypeOK /\ LoadedOnce /\ NoTextureForgotten /\ BindingOutlivesUse
=============================================================================
