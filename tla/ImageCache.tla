------------------------------ MODULE ImageCache ------------------------------
(***************************************************************************)
(* The cache of decoded images in GPU memory: ImageCacheBlob, which stores *)
(* images one behind the other until its buffer is full, and               *)
(* ImageCacheLargest, which first watches which images are the largest and *)
(* stores those from the moment an image comes for the second time.        *)
(*                                                                         *)
(* Threads call Add concurrently.  Add of ImageCacheLargest works under    *)
(* the mutex, then reads start_caching_ and images_ without it, then calls *)
(* Add of ImageCacheBlob.  A thread at "rebuild" holds the mutex.          *)
(***************************************************************************)
EXTENDS Integers, Sequences, FiniteSets, SequencesExt, FiniteSetsExt

CONSTANTS
  Images,      \* file names, as numbers in their order as strings
  Size,        \* image -> bytes of the decoded image
  CacheSize, Threshold, Policies,
  Adders       \* threads

ASSUME CacheAssumption ==
  /\ Images \subseteq Nat /\ Size \in [Images -> Nat \ {0}]
  /\ CacheSize \in Nat /\ Threshold \in 0 .. CacheSize
  /\ Policies \subseteq {"threshold", "largest"}

VARIABLES
  policy,                       \* which class the cache is of
  cache, tail,                  \* image -> offset of its data; end of the data
  start_caching, images, biggest_images, biggest_images_total,
  at, image                     \* thread -> position in Add, image it adds

largestVars == <<start_caching, images, biggest_images, biggest_images_total>>
cacheVars == <<policy, cache, tail, largestVars, at, image>>

CacheInit ==
  /\ policy \in Policies
  /\ cache = <<>> /\ tail = 0
  /\ start_caching = FALSE /\ images = {} /\ biggest_images = {} /\ biggest_images_total = 0
  /\ at = [t \in Adders |-> "idle"] /\ image = [t \in Adders |-> 0]

IsCached(x) == x \in DOMAIN cache

\* no thread holds the mutex
Unlocked == \A t \in Adders : at[t] # "rebuild"

Goto(t, p) == at' = [at EXCEPT ![t] = p]

-----------------------------------------------------------------------------
(* The queue of the biggest images, a set ordered by size and name *)

Smaller(x, y) == Size[x] < Size[y] \/ (Size[x] = Size[y] /\ x < y)

\* the queue and its total without the images that make room for x: the
\* smallest first, none as large as x, no more than needed
Discard(x, q) ==
  LET pop(acc, y) ==
        IF acc.total + Size[x] > CacheSize /\ Size[y] < Size[x]
        THEN [queue |-> acc.queue \ {y}, total |-> acc.total - Size[y], out |-> <<y>> \o acc.out]
        ELSE acc
  IN FoldLeft(pop, [queue |-> q.queue, total |-> q.total, out |-> <<>>], SetToSortSeq(q.queue, Smaller))

\* x, if it fits
Push(x, q) ==
  IF q.total + Size[x] <= CacheSize
  THEN [q EXCEPT !.queue = @ \cup {x}, !.total = @ + Size[x]] ELSE q

\* mutant: the images taken out go back whether they fit or not
UpdateBiggestUntested(x, q) ==
  IF q.total + Size[x] <= CacheSize \/ Size[x] > CacheSize THEN Push(x, q)
  ELSE LET d == Discard(x, q)
           back(acc, y) == [acc EXCEPT !.queue = @ \cup {y}, !.total = @ + Size[y]]
       IN FoldLeft(back, Push(x, d), d.out)

\* the images taken out go back as far as they still fit, largest first
UpdateBiggest(x, q) ==
  IF q.total + Size[x] <= CacheSize \/ Size[x] > CacheSize THEN Push(x, q)
  ELSE LET d == Discard(x, q) IN FoldLeft(LAMBDA acc, y : Push(y, acc), Push(x, d), d.out)

-----------------------------------------------------------------------------
(* Add *)

\* the call; the class of the cache decides where it starts
Add(t, x) ==
  /\ Goto(t, IF policy = "largest" THEN "add" ELSE "blob")
  /\ image' = [image EXCEPT ![t] = x]

\* ImageCacheLargest::Add with the mutex: an image seen before starts the caching
LargestAdd(t) ==
  /\ at[t] = "add" /\ Unlocked
  /\ LET x == image[t]
         q == UpdateBiggest(x, [queue |-> biggest_images, total |-> biggest_images_total])
     IN \/ /\ ~start_caching /\ x \in images
           /\ start_caching' = TRUE /\ Goto(t, "rebuild")
           /\ UNCHANGED <<images, biggest_images, biggest_images_total>>
        \/ /\ ~start_caching /\ x \notin images
           /\ images' = images \cup {x}
           /\ biggest_images' = q.queue /\ biggest_images_total' = q.total
           /\ Goto(t, "check") /\ UNCHANGED start_caching
        \/ start_caching /\ Goto(t, "check") /\ UNCHANGED largestVars
  /\ UNCHANGED <<policy, cache, tail, image>>

\* still with the mutex: images_ becomes the set of the biggest
LargestRebuild(t) ==
  /\ at[t] = "rebuild"
  /\ images' = biggest_images /\ biggest_images' = {}
  /\ Goto(t, "check")
  /\ UNCHANGED <<policy, cache, tail, start_caching, biggest_images_total, image>>

\* without the mutex: a look-up in images_ while another thread rebuilds it may
\* have any result
LargestCheck(t) ==
  /\ at[t] = "check"
  /\ \E found \in IF Unlocked THEN {image[t] \in images} ELSE BOOLEAN :
       Goto(t, IF start_caching /\ found THEN "blob" ELSE "added")
  /\ UNCHANGED <<policy, cache, tail, largestVars, image>>

threshold == IF policy = "largest" THEN 0 ELSE Threshold
bytes_left == CacheSize - tail

\* the entries with one more, for the data at the tail
Entry(x) == [y \in DOMAIN cache \cup {x} |-> IF y = x THEN tail ELSE cache[y]]

Rejects(x) == Size[x] < threshold \/ IsCached(x) \/ bytes_left < Size[x]

\* mutant: no test whether the image is there already
BlobAddTwice(t) ==
  /\ at[t] = "blob" /\ Unlocked
  /\ \/ /\ Size[image[t]] < threshold \/ bytes_left < Size[image[t]]
        /\ Goto(t, "added") /\ UNCHANGED <<cache, tail>>
     \/ /\ ~(Size[image[t]] < threshold \/ bytes_left < Size[image[t]])
        /\ cache' = Entry(image[t]) /\ tail' = tail + Size[image[t]] /\ Goto(t, "stored")
  /\ UNCHANGED <<policy, largestVars, image>>

\* mutant: a full cache starts again from the beginning of its buffer
BlobAddWrap(t) ==
  /\ at[t] = "blob" /\ Unlocked
  /\ \/ Rejects(image[t]) /\ tail = 0 /\ Goto(t, "added") /\ UNCHANGED <<cache, tail>>
     \/ Rejects(image[t]) /\ tail # 0 /\ tail' = 0 /\ UNCHANGED <<cache, at>>
     \/ /\ ~Rejects(image[t])
        /\ cache' = Entry(image[t]) /\ tail' = tail + Size[image[t]] /\ Goto(t, "stored")
  /\ UNCHANGED <<policy, largestVars, image>>

\* mutant: an image that does not fit takes the place of all the others
BlobAddEvict(t) ==
  /\ at[t] = "blob" /\ Unlocked
  /\ \/ /\ Size[image[t]] < threshold \/ IsCached(image[t])
        /\ Goto(t, "added") /\ UNCHANGED <<cache, tail>>
     \/ /\ Size[image[t]] >= threshold /\ ~IsCached(image[t]) /\ bytes_left < Size[image[t]]
        /\ cache' = <<>> /\ tail' = 0 /\ UNCHANGED at
     \/ /\ ~Rejects(image[t])
        /\ cache' = Entry(image[t]) /\ tail' = tail + Size[image[t]] /\ Goto(t, "stored")
  /\ UNCHANGED <<policy, largestVars, image>>

\* ImageCacheBlob::Add: too small, already there, no room left, or stored
BlobAdd(t) ==
  /\ at[t] = "blob" /\ Unlocked
  /\ \/ Rejects(image[t]) /\ Goto(t, "added") /\ UNCHANGED <<cache, tail>>
     \/ /\ ~Rejects(image[t])
        /\ cache' = Entry(image[t]) /\ tail' = tail + Size[image[t]] /\ Goto(t, "stored")
  /\ UNCHANGED <<policy, largestVars, image>>

AddStep(t) == LargestAdd(t) \/ LargestRebuild(t) \/ LargestCheck(t) \/ BlobAdd(t)

\* the cache with clients that add any images at any time
CacheNext ==
  \E t \in Adders :
    \/ AddStep(t)
    \/ at[t] = "idle" /\ (\E x \in Images : Add(t, x)) /\ UNCHANGED <<policy, cache, tail, largestVars>>
    \/ at[t] \in {"added", "stored"} /\ Goto(t, "idle")
       /\ UNCHANGED <<policy, cache, tail, largestVars, image>>

CacheSpec == CacheInit /\ [][CacheNext]_cacheVars

-----------------------------------------------------------------------------
Positions == {"idle", "add", "rebuild", "check", "blob", "added", "stored"}

\* The data of an image lie within the buffer, behind those of the images stored
\* before: no two images overlap, whichever threads stored them, and a pointer
\* returned by Get stays good.
SlotsDisjoint ==
  /\ tail <= CacheSize
  /\ \A x \in DOMAIN cache : cache[x] + Size[x] <= tail
  /\ \A x, y \in DOMAIN cache :
       x # y => cache[x] + Size[x] <= cache[y] \/ cache[y] + Size[y] <= cache[x]

TotalSize(S) == MapThenSumSet(LAMBDA x : Size[x], S)

\* No byte of the buffer is lost: it holds the images in the cache and nothing
\* else, though several threads may decode and add one image at a time.
NoByteLost == tail = TotalSize(DOMAIN cache)

\* "largest: Store largest images that can fit the cache" (cached_decoder_impl.cc:103):
\* the images chosen fit the cache together, so that none is turned away later,
\* and one of the largest images that were seen and fit at all is among them.
LargestChosen ==
  LET chosen == IF start_caching /\ Unlocked THEN images ELSE biggest_images
      seen == {x \in images : Size[x] <= CacheSize}
  IN /\ TotalSize(chosen) <= CacheSize
     /\ ~start_caching => /\ biggest_images_total = TotalSize(biggest_images)
                          /\ seen # {} => \E x \in chosen : \A y \in seen : Size[y] <= Size[x]

=============================================================================
