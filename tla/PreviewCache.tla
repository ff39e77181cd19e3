---------------------------- MODULE PreviewCache ----------------------------
(***************************************************************************)
(* The previews of provinces that have been drawn lately, kept by the      *)
(* province project.  The cache is the sequence of the provinces in it,    *)
(* the one that was asked for the longest ago first.                       *)
(***************************************************************************)
EXTENDS SequencesExt

CONSTANT MaxCached    \* MAX_CACHED_PROVINCE_PREVIEWS

ASSUME MaxCachedAssumption == MaxCached \in Nat \ {0}

\* An element becomes the last, wherever it was.
MovedLast(s, x) ==
  Append(IF Contains(s, x) THEN RemoveAt(s, CHOOSE i \in 1 .. Len(s) : s[i] = x) ELSE s, x)

\* Looked at when the entry of the province asked for is in the cache, still empty.
Full(cache) == Len(cache) > MaxCached

\* The entry that gives way is the first, but not that of the province itself.
buildProvinceCache(cache, id) ==
  IF Full(cache) THEN RemoveAt(cache, IF cache[1] = id THEN 2 ELSE 1) ELSE cache

\* Mutant of getPreviewData: a preview that is found stays where it is.
FirstInFirstOut(cache, id) ==
  IF Contains(cache, id) THEN cache
  ELSE MovedLast(buildProvinceCache(Append(cache, id), id), id)

\* The preview is built if it is not there, and becomes the last in either case.
getPreviewData(cache, id) ==
  MovedLast(IF Contains(cache, id) THEN cache ELSE buildProvinceCache(Append(cache, id), id), id)
=============================================================================
