-------------------------- MODULE FrameOrderProofs --------------------------
(***************************************************************************)
(* The order in which the frames of module FrameCache go out, what the     *)
(* cache waits for, and that what is complete is handed over, proved for   *)
(* streams, frames and caches of any size, as long as no packet of a key   *)
(* frame is late; and that the cache keeps the promise of module           *)
(* FrameDelivery, step by step.                                            *)
(***************************************************************************)
EXTENDS FrameCacheProofs

\* The header is where a frame begins, or the frame of the header is a key
\* frame of which the packets before it are missing.
KeyCame(s, rec) == \E m \in rec : s[m].key
Begins(s, h) == h = 1 \/ (h - 1 \in DOMAIN s /\ (h \in DOMAIN s => ~Same(s, h - 1, h)))
Headless(s, rec, h) ==
    h \in rec /\ s[h].key /\ h - 1 \in DOMAIN s /\ h - 1 \notin rec /\ Same(s, h - 1, h)

\* The frames have gone out in order, and what is newer is still in the cache.
OutOrdered(t, o) ==
    /\ \A j, l \in DOMAIN o : j < l => o[j][1] < o[l][1]
    /\ \A j \in DOMAIN o : \A x \in ToSet(o[j]) : x < Hd(t)
StillThere(t, rec) ==
    \A x \in rec : Hd(t) <= x /\ (\A m \in rec : m < x + CacheLen) => Has(t, x)

\* Since some key frame nothing was lost before the header.
KeyRun(s, t, rec) ==
    KeyCame(s, rec) => \E m \in rec : s[m].key /\ m <= Hd(t) /\ \A x \in m .. Hd(t) - 1 : x \in rec

\* A key frame that is no longer waited for is over.
KeyHist(s, t, rec) ==
    \A x \in rec : s[x].key /\ s[x].ts # t.key_frame_ts => \E y \in rec : \A m \in FrameIn(s, x) : m <= y

HeadInv(s, t, rec) == KeyCame(s, rec) => Begins(s, Hd(t)) \/ Headless(s, rec, Hd(t))

\* The cache waits for a packet that has not come, and has passed no frame's end
\* since the header.
WaitInv(s, t, rec) ==
    t.tail = NoTail =>
        /\ Hd(t) <= Ls(t)
        /\ KeyCame(s, rec) /\ ~Headless(s, rec, Hd(t)) =>
              /\ Ls(t) \notin rec
              /\ CanCome(rec, Ls(t)) => \A y \in Hd(t) .. Ls(t) - 1 : ~s[y].marker

\* What lies before the header has gone out, or is older than a key frame.
PassedInv(s, t, rec, o) ==
    KeyCame(s, rec) =>
        \A x \in rec : x < Hd(t) => InOut(o, x) \/ \E m \in rec : s[m].key /\ s[x].ts < s[m].ts

Ordered(s, t, rec, o) ==
    /\ OutOrdered(t, o) /\ StillThere(t, rec) /\ KeyRun(s, t, rec) /\ KeyHist(s, t, rec)
    /\ HeadInv(s, t, rec) /\ WaitInv(s, t, rec) /\ PassedInv(s, t, rec, o)
-----------------------------------------------------------------------------
LEMMA StreamNumbers ==
    ASSUME Sound(frames, stream, track, received, out, came)
    PROVE  /\ Shaped(frames, stream) /\ track \in TrackRecord /\ received \subseteq DOMAIN stream
           /\ \A m \in DOMAIN stream : m \in Nat /\ 1 <= m /\ m < SeqCount /\ m \in 1 .. SeqCount /\ stream[m].ts \in Nat
           /\ Hd(track) \in Nat /\ 1 <= Hd(track) /\ Hd(track) \in 1 .. SeqCount
           /\ Ls(track) \in Nat /\ 1 <= Ls(track) /\ Ls(track) \in 1 .. SeqCount
<1>1. Shaped(frames, stream) /\ track \in TrackRecord /\ received \subseteq DOMAIN stream
  BY DEF Sound
<1>2. Hd(track) \in 1 .. SeqCount /\ Ls(track) \in 1 .. SeqCount
  BY <1>1, NumbersOf
<1> QED BY <1>1, <1>2, StreamIs, Numbers

\* A packet of the key frame that is waited for does not come before its header.
LEMMA HeadBehind ==
    ASSUME Sound(frames, stream, track, received, out, came), Core(stream, track, received, out, came, stray),
           NEW n \in DOMAIN stream, stream[n].key => \A m \in received : m < n,
           stream[n].key, track.key_frame_ts = stream[n].ts
    PROVE  Hd(track) <= n
<1>1. track.key_frame_ts # NoKey
  BY StreamNumbers, Numbers
<1>2. PICK r \in received : Hd(track) <= r + 1
  BY <1>1 DEF Core, KeyInv
<1>3. r < n /\ r \in Nat /\ n \in Nat /\ Hd(track) \in Nat
  BY StreamNumbers
<1> QED BY <1>2, <1>3

LEMMA HeadlessStays ==
    ASSUME Sound(frames, stream, track, received, out, came),
           NEW n \in DOMAIN stream, n \notin received, stream[n].key => \A m \in received : m < n,
           NEW h \in Nat, Headless(stream, received, h)
    PROVE  Headless(stream, received \cup {n}, h)
<1>1. n # h - 1
  <2>1. SUFFICES ASSUME n = h - 1 PROVE FALSE
    OBVIOUS
  <2>2. stream[h].key /\ h \in DOMAIN stream /\ Same(stream, n, h) /\ n < h /\ h \in received
    BY <2>1, StreamNumbers DEF Headless
  <2>3. stream[n].key
    BY <2>2, StreamNumbers DEF Shaped, OrderedIn
  <2>4. n \in Nat /\ h < n
    BY <2>2, <2>3, StreamNumbers
  <2> QED BY <2>2, <2>4
<1> QED BY <1>1 DEF Headless

LEMMA KeyCameBefore ==
    ASSUME Sound(frames, stream, track, received, out, came), NEW n \in DOMAIN stream,
           stream[n].key => track.key_frame_ts = stream[n].ts, KeyCame(stream, received \cup {n})
    PROVE  KeyCame(stream, received)
<1>1. CASE stream[n].key
  <2>1. track.key_frame_ts # NoKey
    BY <1>1, StreamNumbers, Numbers
  <2> QED BY <2>1 DEF Sound, KeyCame
<1>2. CASE ~stream[n].key
  BY <1>2 DEF KeyCame
<1> QED BY <1>1, <1>2

\* Two packets of a key frame and of another one.
LEMMA KeyIsOther ==
    ASSUME Sound(frames, stream, track, received, out, came), NEW m \in DOMAIN stream, NEW n \in DOMAIN stream,
           m < n, ~(stream[m].key <=> stream[n].key)
    PROVE  stream[m].ts < stream[n].ts
<1>1. stream[m].ts <= stream[n].ts /\ (Same(stream, m, n) => stream[m].key = stream[n].key)
  BY StreamNumbers DEF Shaped, OrderedIn
<1>2. stream[m].ts # stream[n].ts
  BY <1>1 DEF Same
<1> QED BY <1>1, <1>2, StreamNumbers

\* A packet that leaves header_sn and key_frame_ts alone.
LEMMA OrderKept ==
    ASSUME Sound(frames, stream, track, received, out, came), Core(stream, track, received, out, came, stray),
           Ordered(stream, track, received, out),
           NEW n \in DOMAIN stream, CanCome(received, n), stream[n].key => \A m \in received : m < n,
           stream[n].key => track.key_frame_ts = stream[n].ts,
           NEW w, w.cache = Put(track, n).cache, Hd(w) = Hd(track), w.key_frame_ts = track.key_frame_ts
    PROVE  LET rec == received \cup {n}
           IN  /\ OutOrdered(w, out) /\ StillThere(w, rec) /\ KeyRun(stream, w, rec) /\ KeyHist(stream, w, rec)
               /\ HeadInv(stream, w, rec) /\ PassedInv(stream, w, rec, out)
<1> DEFINE h == Hd(track)
           rec == received \cup {n}
<1>1. /\ Shaped(frames, stream) /\ track \in TrackRecord /\ received \subseteq DOMAIN stream
      /\ \A m \in DOMAIN stream : m \in Nat /\ 1 <= m /\ m \in 1 .. SeqCount /\ stream[m].ts \in Nat
      /\ h \in Nat
  BY StreamNumbers
<1>2. n \notin received /\ (\A m \in received : m < n + MaxDelay) /\ n \in Nat /\ n \in 1 .. SeqCount
  BY <1>1 DEF CanCome
<1>3. KeyCame(stream, rec) => KeyCame(stream, received)
  BY KeyCameBefore
<1> HIDE DEF h
<1>4. OutOrdered(w, out)
  BY DEF Ordered, OutOrdered
<1>5. StillThere(w, rec)
  <2>1. SUFFICES ASSUME NEW x \in rec, h <= x, \A m \in rec : m < x + CacheLen PROVE Has(w, x)
    BY DEF StillThere, h
  <2>2. CASE x = n
    BY <2>2, <1>1, PutIs DEF Has, At
  <2>3. CASE x # n /\ x \in received
    <3>1. Has(track, x)
      BY <2>1, <2>3 DEF Ordered, StillThere, h
    <3>2. x \in 1 .. SeqCount /\ x \in Nat /\ x < n + MaxDelay /\ n < x + CacheLen
      BY <2>1, <2>3, <1>1, <1>2
    <3>3. x - n < CacheLen /\ n - x < CacheLen
      BY <3>2, <1>2, RoomIs, Numbers
    <3>4. Spot(x) # Spot(n) /\ Spot(x) \in Slot
      BY <3>2, <3>3, <2>3, <1>2, SpotsDiffer, SpotType
    <3>5. Put(track, n).cache[Spot(x)] = track.cache[Spot(x)]
      BY <3>4, <1>1, PutIs
    <3> QED BY <3>1, <3>5 DEF Has, At
  <2> QED BY <2>2, <2>3
<1>6. KeyRun(stream, w, rec)
  <2>1. SUFFICES ASSUME KeyCame(stream, rec)
                 PROVE  \E m \in rec : stream[m].key /\ m <= h /\ \A x \in m .. h - 1 : x \in rec
    BY DEF KeyRun, h
  <2>2. PICK m \in received : stream[m].key /\ m <= h /\ \A x \in m .. h - 1 : x \in received
    BY <2>1, <1>3 DEF Ordered, KeyRun, h
  <2> QED BY <2>2
<1>7. KeyHist(stream, w, rec)
  <2>1. SUFFICES ASSUME NEW x \in rec, stream[x].key, stream[x].ts # track.key_frame_ts
                 PROVE  \E y \in rec : \A m \in FrameIn(stream, x) : m <= y
    BY DEF KeyHist
  <2>2. x \in received
    BY <2>1
  <2>3. PICK y \in received : \A m \in FrameIn(stream, x) : m <= y
    BY <2>1, <2>2 DEF Ordered, KeyHist
  <2> QED BY <2>3
<1>8. HeadInv(stream, w, rec)
  <2>1. SUFFICES ASSUME KeyCame(stream, rec) PROVE Begins(stream, h) \/ Headless(stream, rec, h)
    BY DEF HeadInv, h
  <2>2. Begins(stream, h) \/ Headless(stream, received, h)
    BY <2>1, <1>3 DEF Ordered, HeadInv, h
  <2> QED BY <2>2, <1>1, <1>2, HeadlessStays
<1>9. PassedInv(stream, w, rec, out)
  <2>1. SUFFICES ASSUME KeyCame(stream, rec), NEW x \in rec, x < h
                 PROVE  InOut(out, x) \/ \E m \in rec : stream[m].key /\ stream[x].ts < stream[m].ts
    BY DEF PassedInv, h
  <2>2. CASE x \in received
    BY <2>1, <2>2, <1>3 DEF Ordered, PassedInv, h
  <2>3. CASE x = n
    <3>1. ~stream[n].key
      <4>1. SUFFICES ASSUME stream[n].key PROVE FALSE
        OBVIOUS
      <4>2. h <= n
        BY <4>1, HeadBehind DEF h
      <4> QED BY <4>2, <2>1, <2>3, <1>1, <1>2
    <3>2. PICK m \in received : stream[m].key /\ m <= h /\ \A y \in m .. h - 1 : y \in received
      BY <2>1, <1>3 DEF Ordered, KeyRun, h
    <3>3. m \in Nat /\ m \in DOMAIN stream /\ m # n
      BY <1>1, <1>2
    <3>4. n < m
      <4>1. n \notin m .. h - 1
        BY <3>2, <1>2
      <4> QED BY <4>1, <3>3, <2>1, <2>3, <1>1, <1>2
    <3>5. stream[n].ts < stream[m].ts
      BY <3>1, <3>2, <3>3, <3>4, KeyIsOther
    <3> QED BY <3>2, <3>5, <2>3
  <2> QED BY <2>2, <2>3
<1> QED BY <1>4, <1>5, <1>6, <1>7, <1>8, <1>9

\* A new key frame.
LEMMA OrderStart ==
    ASSUME Sound(frames, stream, track, received, out, came), Core(stream, track, received, out, came, stray),
           Ordered(stream, track, received, out),
           NEW n \in DOMAIN stream, CanCome(received, n), stream[n].key => \A m \in received : m < n,
           NEW w, StepStart(track, n, w)
    PROVE  Ordered(stream, w, received \cup {n}, out)
<1> DEFINE rec == received \cup {n}
           x == StartKey(track, n)
<1>1. /\ Shaped(frames, stream) /\ track \in TrackRecord /\ received \subseteq DOMAIN stream
      /\ \A m \in DOMAIN stream : m \in Nat /\ 1 <= m /\ m < SeqCount /\ m \in 1 .. SeqCount /\ stream[m].ts \in Nat
  BY StreamNumbers
<1>2. n \notin received /\ n \in Nat /\ 1 <= n /\ n \in 1 .. SeqCount /\ n + 1 \in 1 .. SeqCount /\ n + 1 <= SeqCount
  BY <1>1, Numbers DEF CanCome
<1>3. stream[n].key /\ track.key_frame_ts # stream[n].ts /\ w = Put(x, n) /\ \A m \in received : m < n
  BY DEF StepStart
<1>4. x \in TrackRecord /\ x.header_sn = Seqn(n) /\ x.lost_sn = Plus(Seqn(n), 1) /\ x.key_frame_ts = stream[n].ts
  BY <1>1, StartIs
<1> HIDE DEF x
<1>5. /\ w.header_sn = Seqn(n) /\ w.lost_sn = Plus(Seqn(n), 1) /\ w.key_frame_ts = stream[n].ts /\ Has(w, n)
  BY <1>1, <1>3, <1>4, PutIs
<1>6. Hd(w) = n /\ Ls(w) = n + 1
  <2>1. Plus(Seqn(n), 1) = Seqn(n + 1)
    BY <1>2, PlusIs
  <2> QED BY <2>1, <1>2, <1>5, SeqnIs DEF Hd, Ls
<1>7. OutOrdered(w, out)
  <2>1. ASSUME NEW j \in DOMAIN out, NEW y \in ToSet(out[j]) PROVE y < n
    <3>1. y \in received
      <4>1. PICK a \in Nat, e \in Nat : IsRun(out[j], a, e) /\ \A m \in a .. e : m \in received
        BY DEF Core, OutInv, FrameOut
      <4>2. ToSet(out[j]) = a .. e
        BY <4>1, RunSet
      <4> QED BY <4>1, <4>2
    <3> QED BY <3>1, <1>3
  <2> QED BY <2>1, <1>6 DEF Ordered, OutOrdered
<1>8. \A y \in rec : y \in Nat /\ (y < n \/ y = n) /\ (n <= y => y = n)
  BY <1>1, <1>2, <1>3
<1>9. StillThere(w, rec)
  BY <1>5, <1>6, <1>8 DEF StillThere
<1>10. KeyRun(stream, w, rec)
  <2>1. n <= n /\ \A y \in n .. n - 1 : FALSE
    BY <1>2
  <2> QED BY <2>1, <1>3, <1>6 DEF KeyRun
<1>11. \A y \in received : stream[y].ts <= stream[n].ts
  BY <1>1, <1>3 DEF Shaped, OrderedIn
<1>12. \A y \in received : ~(stream[y].key /\ stream[y].ts = stream[n].ts)
  <2>1. SUFFICES ASSUME NEW y \in received, stream[y].key, stream[y].ts = stream[n].ts PROVE FALSE
    OBVIOUS
  <2>2. PICK z \in received : \A m \in FrameIn(stream, y) : m <= z
    BY <2>1, <1>3 DEF Ordered, KeyHist
  <2>3. n \in FrameIn(stream, y)
    BY <2>1 DEF FrameIn
  <2>4. n <= z /\ z < n /\ z \in Nat
    BY <2>2, <2>3, <1>1, <1>3
  <2> QED BY <2>4, <1>2
<1>13. KeyHist(stream, w, rec)
  <2>1. SUFFICES ASSUME NEW y \in rec, stream[y].key, stream[y].ts # stream[n].ts
                 PROVE  \A m \in FrameIn(stream, y) : m <= n
    BY <1>5 DEF KeyHist
  <2>2. y \in received /\ stream[y].ts < stream[n].ts
    <3>1. y \in received
      BY <2>1
    <3> QED BY <3>1, <2>1, <1>1, <1>11
  <2>3. ASSUME NEW m \in DOMAIN stream, stream[m].ts = stream[y].ts, n < m PROVE FALSE
    <3>1. stream[n].ts <= stream[m].ts
      BY <2>3, <1>1 DEF Shaped, OrderedIn
    <3> QED BY <3>1, <2>2, <2>3, <1>1
  <2> QED BY <2>3, <1>1, <1>2 DEF FrameIn
<1>14. Begins(stream, n) \/ Headless(stream, rec, n)
  <2>1. CASE n = 1
    BY <2>1 DEF Begins
  <2>2. CASE n > 1 /\ ~Same(stream, n - 1, n)
    <3>1. n - 1 \in DOMAIN stream
      BY <2>2, <1>1, <1>2, StreamIs
    <3> QED BY <3>1, <2>2 DEF Begins
  <2>3. CASE n > 1 /\ Same(stream, n - 1, n)
    <3>1. n - 1 \in DOMAIN stream /\ n - 1 < n
      BY <2>3, <1>1, <1>2, StreamIs
    <3>2. stream[n - 1].key
      BY <3>1, <2>3, <1>1, <1>3 DEF Shaped, OrderedIn
    <3>3. n - 1 \notin received /\ n - 1 # n
      BY <3>2, <2>3, <1>2, <1>12 DEF Same
    <3> QED BY <3>1, <3>3, <2>3, <1>3 DEF Headless
  <2> QED BY <2>1, <2>2, <2>3, <1>2
<1>15. HeadInv(stream, w, rec)
  BY <1>6, <1>14 DEF HeadInv
<1>16. WaitInv(stream, w, rec)
  <2>1. n <= n + 1 /\ n + 1 \notin rec
    BY <1>2, <1>8
  <2>2. stream[n].marker => Headless(stream, rec, n)
    <3>1. SUFFICES ASSUME stream[n].marker, Begins(stream, n) PROVE FALSE
      BY <1>14
    <3>2. n - 1 \in DOMAIN stream /\ Same(stream, n - 1, n)
      BY <3>1, <1>1, <1>3 DEF Shaped, FramedIn
    <3>3. n # 1
      BY <3>2, <1>1
    <3> QED BY <3>1, <3>2, <3>3 DEF Begins
  <2>3. \A y \in n .. (n + 1) - 1 : y = n
    BY <1>2
  <2> QED BY <2>1, <2>2, <2>3, <1>6 DEF WaitInv
<1>17. PassedInv(stream, w, rec, out)
  <2>1. SUFFICES ASSUME NEW y \in rec, y < n PROVE \E m \in rec : stream[m].key /\ stream[y].ts < stream[m].ts
    BY <1>6 DEF PassedInv
  <2>2. y \in received /\ stream[y].ts <= stream[n].ts
    BY <2>1, <1>2, <1>11
  <2>3. stream[y].ts # stream[n].ts
    <3>1. SUFFICES ASSUME stream[y].ts = stream[n].ts PROVE FALSE
      OBVIOUS
    <3>2. stream[y].key
      BY <3>1, <2>1, <2>2, <1>1, <1>3 DEF Shaped, OrderedIn, Same
    <3> QED BY <3>1, <3>2, <2>2, <1>12
  <2>4. stream[y].ts < stream[n].ts
    BY <2>2, <2>3, <1>1
  <2> QED BY <2>4, <1>3
<1> QED BY <1>7, <1>9, <1>10, <1>13, <1>15, <1>16, <1>17 DEF Ordered, rec

\* A packet that is kept for later.
LEMMA OrderStore ==
    ASSUME Sound(frames, stream, track, received, out, came), Core(stream, track, received, out, came, stray),
           Ordered(stream, track, received, out), track.tail = NoTail,
           NEW n \in DOMAIN stream, CanCome(received, n), stream[n].key => \A m \in received : m < n,
           NEW w, StepStore(track, n, w, stray \/ Astray(n))
    PROVE  Ordered(stream, w, received \cup {n}, out)
<1> DEFINE rec == received \cup {n}
           h == Hd(track)
           l == Ls(track)
<1>1. /\ Shaped(frames, stream) /\ track \in TrackRecord /\ received \subseteq DOMAIN stream
      /\ h \in Nat /\ n \notin received
  BY StreamNumbers DEF CanCome
<1>2. w = Put(track, n) /\ l # n /\ (stream[n].key => track.key_frame_ts = stream[n].ts)
  BY DEF StepStore
<1>3. /\ w.header_sn = track.header_sn /\ w.lost_sn = track.lost_sn /\ w.key_frame_ts = track.key_frame_ts
  BY <1>1, <1>2, PutIs
<1>4. Hd(w) = h /\ Ls(w) = l
  BY <1>3 DEF Hd, Ls
<1>5. /\ OutOrdered(w, out) /\ StillThere(w, rec) /\ KeyRun(stream, w, rec) /\ KeyHist(stream, w, rec)
      /\ HeadInv(stream, w, rec) /\ PassedInv(stream, w, rec, out)
  BY <1>2, <1>3, <1>4, OrderKept
<1>6. WaitInv(stream, w, rec)
  <2>1. h <= l
    BY DEF Ordered, WaitInv
  <2>2. ASSUME KeyCame(stream, rec), ~Headless(stream, rec, h)
        PROVE  l \notin rec /\ (CanCome(rec, l) => \A y \in h .. l - 1 : ~stream[y].marker)
    <3>1. KeyCame(stream, received) /\ ~Headless(stream, received, h)
      BY <2>2, <1>1, <1>2, KeyCameBefore, HeadlessStays
    <3>2. l \notin received /\ (CanCome(received, l) => \A y \in h .. l - 1 : ~stream[y].marker)
      BY <3>1 DEF Ordered, WaitInv
    <3>3. CanCome(rec, l) => CanCome(received, l)
      BY DEF CanCome
    <3> QED BY <3>2, <3>3, <1>2
  <2> QED BY <2>1, <2>2, <1>4 DEF WaitInv
<1> QED BY <1>5, <1>6 DEF Ordered

\* The packet that was waited for.
LEMMA OrderHit ==
    ASSUME Sound(frames, stream, track, received, out, came), Core(stream, track, received, out, came, stray),
           Ordered(stream, track, received, out), track.tail = NoTail,
           NEW n \in DOMAIN stream, CanCome(received, n), stream[n].key => \A m \in received : m < n,
           NEW w, StepHit(track, n, w)
    PROVE  Ordered(stream, w, received \cup {n}, out)
<1> DEFINE rec == received \cup {n}
           h == Hd(track)
           t == Put(track, n)
<1>1. /\ Shaped(frames, stream) /\ track \in TrackRecord /\ received \subseteq DOMAIN stream
      /\ h \in Nat /\ n \notin received /\ n \in Nat /\ 1 <= n
  BY StreamNumbers DEF CanCome
<1>2. /\ t \in TrackRecord /\ t.header_sn = track.header_sn /\ t.lost_sn = track.lost_sn
      /\ t.key_frame_ts = track.key_frame_ts
  BY <1>1, PutIs
<1>3. Hd(t) = h /\ Ls(t) = Ls(track)
  BY <1>2 DEF Hd, Ls
<1>4. /\ stream[n].key => track.key_frame_ts = stream[n].ts
      /\ Ls(track) = n /\ h <= n /\ Outcome(stream, t, w, h, n)
  BY DEF StepHit
<1>5. ASSUME w.cache = t.cache, Hd(w) = h, w.key_frame_ts = track.key_frame_ts
      PROVE  /\ OutOrdered(w, out) /\ StillThere(w, rec) /\ KeyRun(stream, w, rec) /\ KeyHist(stream, w, rec)
             /\ HeadInv(stream, w, rec) /\ PassedInv(stream, w, rec, out)
  BY <1>4, <1>5, OrderKept
<1> HIDE DEF t, h
<1>6. ASSUME NEW x \in Nat, WaitsFor(stream, t, w, h, n, x)
      PROVE  Ordered(stream, w, rec, out)
  <2>1. /\ n <= x /\ x <= SeqCount /\ ~At(t, x).in_use
        /\ \A y \in n .. x - 1 : ~stream[y].marker
    BY <1>6 DEF WaitsFor
  <2>2. w.cache = t.cache /\ Ls(w) = x /\ Hd(w) = h /\ w.key_frame_ts = track.key_frame_ts
    <3>1. 1 <= x
      BY <2>1, <1>1
    <3> QED BY <3>1, <1>2, <1>3, <1>6, WaitsForIs
  <2>3. h <= x
    BY <2>1, <1>1, <1>4
  <2>4. x \notin rec
    <3>1. SUFFICES ASSUME x \in rec PROVE FALSE
      OBVIOUS
    <3>2. ASSUME NEW m \in rec PROVE m < x + CacheLen
      <4>1. m = n \/ (m \in Nat /\ m < n + MaxDelay)
        BY StreamNumbers DEF CanCome
      <4> QED BY <4>1, <2>1, <1>1, RoomIs, Numbers
    <3>3. Has(w, x)
      BY <3>1, <3>2, <2>2, <2>3, <1>5 DEF StillThere
    <3> QED BY <3>3, <2>1, <2>2 DEF Has, At
  <2>5. ASSUME KeyCame(stream, rec), ~Headless(stream, rec, h), NEW y \in h .. x - 1
        PROVE  ~stream[y].marker
    <3>1. CASE n <= y
      BY <3>1, <2>1, <1>1, <1>4
    <3>2. CASE y < n
      <4>1. KeyCame(stream, received) /\ ~Headless(stream, received, h)
        BY <2>5, <1>1, <1>4, KeyCameBefore, HeadlessStays
      <4>2. \A z \in h .. n - 1 : ~stream[z].marker
        BY <4>1, <1>4 DEF Ordered, WaitInv, h
      <4> QED BY <4>2, <3>2, <1>1
    <3> QED BY <3>1, <3>2, <1>1
  <2>6. WaitInv(stream, w, rec)
    BY <2>2, <2>3, <2>4, <2>5 DEF WaitInv
  <2> QED BY <2>2, <2>6, <1>5 DEF Ordered
<1>7. ASSUME NEW e \in Nat, EndsAt(stream, t, w, h, n, e)
      PROVE  Ordered(stream, w, rec, out)
  <2>1. e \in DOMAIN stream /\ h <= e /\ RunOf(stream, t, h, e + 1)
    BY <1>7 DEF EndsAt
  <2>2. /\ w.cache = t.cache /\ Ls(w) = n /\ Hd(w) = h /\ w.key_frame_ts = track.key_frame_ts
        /\ w.tail = NoTail => ~FirstIn(stream, h)
    BY <1>1, <1>2, <1>3, <1>4, <1>7, EndsAtIs
  <2>3. h \in DOMAIN stream
    <3>1. h \in h .. (e + 1) - 1
      BY <2>1, <1>1
    <3> QED BY <3>1, <2>1 DEF RunOf
  <2>4. ASSUME w.tail = NoTail, KeyCame(stream, rec) PROVE Headless(stream, rec, h)
    <3>1. Begins(stream, h) \/ Headless(stream, rec, h)
      BY <2>2, <2>4, <1>5 DEF HeadInv
    <3>2. h - 1 \in DOMAIN stream /\ Same(stream, h - 1, h)
      BY <2>2, <2>4 DEF FirstIn
    <3>3. h # 1
      BY <3>2, <1>1, StreamIs
    <3> QED BY <3>1, <3>2, <3>3, <2>3 DEF Begins
  <2>5. WaitInv(stream, w, rec)
    BY <2>2, <2>4, <1>4 DEF WaitInv
  <2> QED BY <2>2, <2>5, <1>5 DEF Ordered
<1> QED BY <1>4, <1>6, <1>7 DEF Outcome

\* A frame that goes out.
LEMMA OrderTurn ==
    ASSUME Sound(frames, stream, track, received, out, came), Core(stream, track, received, out, came, stray),
           Ordered(stream, track, received, out), track.tail # NoTail, Unmet(stray, received)
    PROVE  Ordered(stream, Advance(Packed(track), Plus(track.tail, 1)), received, Append(out, NextFrame(track)))
<1> DEFINE h == Hd(track)
           e == Tl(track)
           p == NextFrame(track)
           v == Packed(track)
           w == Advance(v, Plus(track.tail, 1))
           o == Append(out, p)
<1>1. /\ Shaped(frames, stream) /\ track \in TrackRecord /\ received \subseteq DOMAIN stream
      /\ \A m \in DOMAIN stream : m \in Nat /\ 1 <= m /\ m < SeqCount /\ m \in 1 .. SeqCount /\ stream[m].ts \in Nat
  BY StreamNumbers
<1>2. /\ h \in Nat /\ e \in Nat /\ 1 <= h /\ h <= e /\ e < SeqCount /\ e \in DOMAIN stream
      /\ IsRun(p, h, e) /\ (\A x \in h .. e : x \in received /\ Same(stream, x, h) /\ ~InOut(out, x))
      /\ v \in TrackRecord /\ Hd(v) = e + 1 /\ Ls(v) = Ls(track)
      /\ (\A x \in 1 .. SeqCount : Has(track, x) /\ x \notin h .. e => Has(v, x))
      /\ Outcome(stream, v, w, e + 1, e + 1)
  BY TurnIs
<1>3. v.key_frame_ts = NoKey \/ v.key_frame_ts = track.key_frame_ts
  BY <1>1, PackedIs
<1>4. /\ LastIn(stream, e)
      /\ ~stray => \A m \in received : m + 1 < h + CacheLen
  BY DEF Core, TailInv
<1>5. out \in Seq(Seq(Nat))
  BY DEF Sound, OutTyped
<1> HIDE DEF h, e, p, v, w
<1>6. /\ ToSet(p) = h .. e /\ p \in Seq(Nat) /\ p[1] = h
  BY <1>2, RunSet
<1>7. /\ Len(out) \in Nat /\ DOMAIN out = 1 .. Len(out) /\ DOMAIN o = 1 .. Len(out) + 1
      /\ \A j \in DOMAIN out : o[j] = out[j]
      /\ o[Len(out) + 1] = p
  BY <1>5, <1>6
<1>8. \A x : InOut(o, x) <=> InOut(out, x) \/ x \in h .. e
  BY <1>5, <1>6, InOutAppend
<1> HIDE DEF o
<1>9. e \in received /\ e + 1 \in Nat /\ h < e + 1
  BY <1>2
<1>10. Begins(stream, e + 1)
  <2>1. ASSUME e + 1 \in DOMAIN stream, Same(stream, e, e + 1) PROVE FALSE
    <3>1. e + 1 \in FrameIn(stream, e)
      BY <2>1 DEF FrameIn, Same
    <3>2. e + 1 <= e
      BY <3>1, <1>4 DEF LastIn
    <3> QED BY <3>2, <1>2
  <2>2. (e + 1) - 1 = e
    BY <1>2
  <2> QED BY <2>1, <2>2, <1>2 DEF Begins
<1>11. ASSUME w.cache = v.cache, Hd(w) = e + 1, w.key_frame_ts = v.key_frame_ts
       PROVE  /\ OutOrdered(w, o) /\ StillThere(w, received) /\ KeyRun(stream, w, received)
              /\ KeyHist(stream, w, received) /\ HeadInv(stream, w, received) /\ PassedInv(stream, w, received, o)
  <2>1. OutOrdered(w, o)
    <3>1. ASSUME NEW j \in DOMAIN out PROVE out[j][1] < h /\ \A x \in ToSet(out[j]) : x < h
      <4>1. PICK a \in Nat, b \in Nat : IsRun(out[j], a, b)
        BY DEF Core, OutInv, FrameOut
      <4>2. ToSet(out[j]) = a .. b /\ out[j][1] = a /\ a <= b
        BY <4>1, RunSet DEF IsRun
      <4>3. out[j][1] \in ToSet(out[j])
        BY <4>2
      <4> QED BY <4>3 DEF Ordered, OutOrdered, h
    <3>2. ASSUME NEW j \in DOMAIN o, NEW x \in ToSet(o[j]) PROVE x < e + 1
      <4>1. CASE j \in DOMAIN out
        <5>1. x < h /\ x \in Nat
          <6>1. PICK a \in Nat, b \in Nat : IsRun(out[j], a, b)
            BY <4>1 DEF Core, OutInv, FrameOut
          <6>2. x \in a .. b
            BY <6>1, <4>1, <3>2, <1>7, RunSet
          <6> QED BY <6>2, <4>1, <3>1, <3>2, <1>7
        <5> QED BY <5>1, <1>9, <1>2
      <4>2. CASE j = Len(out) + 1
        BY <4>2, <3>2, <1>2, <1>6, <1>7
      <4> QED BY <4>1, <4>2, <1>7
    <3>3. ASSUME NEW j \in DOMAIN o, NEW l \in DOMAIN o, j < l PROVE o[j][1] < o[l][1]
      <4>1. j \in DOMAIN out /\ (l \in DOMAIN out \/ l = Len(out) + 1)
        BY <3>3, <1>7
      <4>2. CASE l \in DOMAIN out
        BY <4>1, <4>2, <3>3, <1>7 DEF Ordered, OutOrdered
      <4>3. CASE l = Len(out) + 1
        BY <4>1, <4>3, <3>1, <1>6, <1>7
      <4> QED BY <4>1, <4>2, <4>3
    <3> QED BY <3>2, <3>3, <1>11 DEF OutOrdered
  <2>2. StillThere(w, received)
    <3>1. SUFFICES ASSUME NEW x \in received, e + 1 <= x, \A m \in received : m < x + CacheLen PROVE Has(w, x)
      BY <1>11 DEF StillThere
    <3>2. x \in Nat /\ x \in 1 .. SeqCount /\ h <= x /\ x \notin h .. e
      BY <3>1, <1>1, <1>2
    <3>3. Has(track, x)
      BY <3>1, <3>2 DEF Ordered, StillThere, h
    <3>4. Has(v, x)
      BY <3>2, <3>3, <1>2
    <3> QED BY <3>4, <1>11 DEF Has, At
  <2>3. KeyRun(stream, w, received)
    <3>1. SUFFICES ASSUME KeyCame(stream, received)
                   PROVE  \E m \in received : stream[m].key /\ m <= e + 1 /\ \A x \in m .. (e + 1) - 1 : x \in received
      BY <1>11 DEF KeyRun
    <3>2. PICK m \in received : stream[m].key /\ m <= h /\ \A x \in m .. h - 1 : x \in received
      BY <3>1 DEF Ordered, KeyRun, h
    <3>3. m \in Nat /\ m <= e + 1
      BY <3>2, <1>1, <1>2
    <3>4. \A x \in m .. (e + 1) - 1 : x \in m .. h - 1 \/ x \in h .. e
      BY <3>3, <1>2
    <3> QED BY <3>2, <3>3, <3>4, <1>2
  <2>4. KeyHist(stream, w, received)
    <3>1. SUFFICES ASSUME NEW x \in received, stream[x].key, stream[x].ts # v.key_frame_ts
                   PROVE  \E y \in received : \A m \in FrameIn(stream, x) : m <= y
      BY <1>11 DEF KeyHist
    <3>2. CASE stream[x].ts # track.key_frame_ts
      BY <3>1, <3>2 DEF Ordered, KeyHist
    <3>3. CASE stream[x].ts = track.key_frame_ts
      <4>1. track.key_frame_ts # NoKey
        BY <3>3, <1>1, Numbers
      <4>2. \/ h \in DOMAIN stream /\ stream[h].ts = track.key_frame_ts
            \/ \A m \in DOMAIN stream : stream[m].ts = track.key_frame_ts => m < h
        BY <4>1 DEF Core, KeyInv, h
      <4>3. CASE h \in DOMAIN stream /\ stream[h].ts = track.key_frame_ts
        <5>1. Same(stream, e, h)
          BY <1>2
        <5>2. FrameIn(stream, x) = FrameIn(stream, e)
          BY <5>1, <4>3, <3>3 DEF FrameIn, Same
        <5> QED BY <5>2, <1>4, <1>9 DEF LastIn
      <4>4. CASE \A m \in DOMAIN stream : stream[m].ts = track.key_frame_ts => m < h
        <5>1. \A m \in FrameIn(stream, x) : m \in Nat /\ m < h
          BY <4>4, <3>3, <1>1 DEF FrameIn
        <5>2. \A m \in FrameIn(stream, x) : m <= e
          BY <5>1, <1>2
        <5> QED BY <5>2, <1>9
      <4> QED BY <4>2, <4>3, <4>4
    <3> QED BY <3>2, <3>3
  <2>5. HeadInv(stream, w, received)
    BY <1>10, <1>11 DEF HeadInv
  <2>6. PassedInv(stream, w, received, o)
    <3>1. SUFFICES ASSUME KeyCame(stream, received), NEW x \in received, x < e + 1
                   PROVE  InOut(o, x) \/ \E m \in received : stream[m].key /\ stream[x].ts < stream[m].ts
      BY <1>11 DEF PassedInv
    <3>2. CASE x < h
      BY <3>1, <3>2, <1>8 DEF Ordered, PassedInv, h
    <3>3. CASE h <= x
      <4>1. x \in h .. e
        BY <3>1, <3>3, <1>1, <1>2
      <4> QED BY <4>1, <1>8
    <3> QED BY <3>2, <3>3, <1>1, <1>2
  <2> QED BY <2>1, <2>2, <2>3, <2>4, <2>5, <2>6
<1>12. ASSUME NEW x \in Nat, WaitsFor(stream, v, w, e + 1, e + 1, x)
       PROVE  Ordered(stream, w, received, o)
  <2>1. /\ e + 1 <= x /\ ~At(v, x).in_use
        /\ \A y \in e + 1 .. x - 1 : ~stream[y].marker
    BY <1>12 DEF WaitsFor
  <2>2. w.cache = v.cache /\ Ls(w) = x /\ Hd(w) = e + 1 /\ w.key_frame_ts = v.key_frame_ts
    <3>1. 1 <= x
      BY <2>1, <1>2
    <3> QED BY <3>1, <1>2, <1>12, WaitsForIs
  <2>3. x \notin received
    <3>1. SUFFICES ASSUME x \in received PROVE FALSE
      OBVIOUS
    <3>2. ASSUME NEW m \in received PROVE m < x + CacheLen
      <4>1. m \in Nat /\ (m < CacheLen \/ m + 1 < h + CacheLen)
        BY <1>1, <1>4 DEF Unmet
      <4> QED BY <4>1, <2>1, <1>2, Numbers
    <3>3. Has(w, x)
      BY <3>1, <3>2, <2>1, <2>2, <1>11 DEF StillThere
    <3> QED BY <3>3, <2>1, <2>2 DEF Has, At
  <2>4. WaitInv(stream, w, received)
    BY <2>1, <2>2, <2>3 DEF WaitInv
  <2> QED BY <2>2, <2>4, <1>11 DEF Ordered
<1>13. ASSUME NEW x \in Nat, EndsAt(stream, v, w, e + 1, e + 1, x)
       PROVE  Ordered(stream, w, received, o)
  <2>1. x \in DOMAIN stream /\ e + 1 <= x /\ RunOf(stream, v, e + 1, x + 1)
    BY <1>13 DEF EndsAt
  <2>2. /\ w.cache = v.cache /\ Hd(w) = e + 1 /\ w.key_frame_ts = v.key_frame_ts
        /\ w.tail = NoTail => ~FirstIn(stream, e + 1)
    BY <1>1, <1>2, <1>13, EndsAtIs
  <2>3. FirstIn(stream, e + 1)
    <3>1. e + 1 \in e + 1 .. (x + 1) - 1
      BY <2>1, <1>2
    <3>2. e + 1 \in DOMAIN stream /\ e + 1 # 1
      BY <3>1, <2>1, <1>2 DEF RunOf
    <3> QED BY <3>2, <1>10 DEF Begins, FirstIn
  <2>4. WaitInv(stream, w, received)
    BY <2>2, <2>3 DEF WaitInv
  <2> QED BY <2>2, <2>4, <1>11 DEF Ordered
<1>14. Ordered(stream, w, received, o)
  BY <1>2, <1>12, <1>13 DEF Outcome
<1> QED BY <1>14 DEF w, v, o, p

LEMMA OrderGrown ==
    ASSUME Sound(frames, stream, track, received, out, came), Core(stream, track, received, out, came, stray),
           Ordered(stream, track, received, out), NEW s2, Grown(stream, s2)
    PROVE  Ordered(s2, track, received, out)
<1> DEFINE h == Hd(track)
           l == Ls(track)
<1>1. received \subseteq DOMAIN stream /\ h \in Nat /\ l \in Nat
  BY StreamNumbers
<1>2. /\ DOMAIN stream \subseteq DOMAIN s2 /\ \A n \in DOMAIN stream : s2[n] = stream[n]
      /\ \A n \in DOMAIN s2, m \in DOMAIN stream : n \notin DOMAIN stream => s2[n].ts # stream[m].ts
  BY DEF Grown
<1>3. \A n \in DOMAIN stream : FrameIn(s2, n) = FrameIn(stream, n)
  BY <1>2 DEF FrameIn
<1>4. KeyCame(s2, received) <=> KeyCame(stream, received)
  BY <1>1, <1>2 DEF KeyCame
<1>5. Headless(stream, received, h) => Headless(s2, received, h)
  BY <1>1, <1>2 DEF Headless, Same
<1>6. Begins(stream, h) => Begins(s2, h)
  <2>1. SUFFICES ASSUME h - 1 \in DOMAIN stream, h \in DOMAIN stream => ~Same(stream, h - 1, h),
                        h \in DOMAIN s2
                 PROVE  ~Same(s2, h - 1, h)
    BY <1>2 DEF Begins
  <2>2. CASE h \in DOMAIN stream
    BY <2>1, <2>2, <1>2 DEF Same
  <2>3. CASE h \notin DOMAIN stream
    BY <2>1, <2>3, <1>2 DEF Same
  <2> QED BY <2>2, <2>3
<1>7. KeyRun(s2, track, received) /\ KeyHist(s2, track, received) /\ HeadInv(s2, track, received)
  <2>1. KeyRun(s2, track, received)
    BY <1>1, <1>2, <1>4 DEF Ordered, KeyRun
  <2>2. KeyHist(s2, track, received)
    BY <1>1, <1>2, <1>3 DEF Ordered, KeyHist
  <2>3. HeadInv(s2, track, received)
    BY <1>4, <1>5, <1>6 DEF Ordered, HeadInv
  <2> QED BY <2>1, <2>2, <2>3
<1>8. PassedInv(s2, track, received, out)
  BY <1>1, <1>2, <1>4 DEF Ordered, PassedInv
<1>9. WaitInv(s2, track, received)
  <2>1. ASSUME track.tail = NoTail, CanCome(received, l), NEW y \in h .. l - 1 PROVE s2[y] = stream[y]
    <3>1. RunOf(stream, track, h, l)
      BY <2>1 DEF Core, Waits
    <3> QED BY <3>1, <1>2 DEF RunOf
  <2>2. ASSUME track.tail = NoTail, KeyCame(s2, received), ~Headless(s2, received, h)
        PROVE  l \notin received /\ (CanCome(received, l) => \A y \in h .. l - 1 : ~stream[y].marker)
    BY <2>2, <1>4, <1>5 DEF Ordered, WaitInv
  <2>3. track.tail = NoTail => h <= l
    BY DEF Ordered, WaitInv
  <2> QED BY <2>1, <2>2, <2>3 DEF WaitInv
<1> QED BY <1>7, <1>8, <1>9 DEF Ordered
-----------------------------------------------------------------------------
(* The inductive invariant.                                                *)

OrderedNow == Ordered(stream, track, received, out)
OInv == IInv /\ keyLate \in BOOLEAN /\ (NoRelics /\ ~keyLate => OrderedNow)

LEMMA OStart == Init => OInv
<1> SUFFICES ASSUME Init PROVE OInv
  OBVIOUS
<1>1. IInv
  BY Start
<1>2. /\ received = {} /\ out = << >> /\ keyLate = FALSE /\ track.header_sn = track.lost_sn
  BY DEF Init
<1>3. Hd(track) = Ls(track) /\ Hd(track) \in Nat
  <2>1. Hd(track) \in Nat
    BY <1>1, StreamNumbers DEF IInv, SoundNow
  <2> QED BY <2>1, <1>2 DEF Hd, Ls
<1>4. ~KeyCame(stream, received)
  BY <1>2 DEF KeyCame
<1>5. OutOrdered(track, out)
  BY <1>2 DEF OutOrdered
<1>6. StillThere(track, received) /\ KeyHist(stream, track, received)
  BY <1>2 DEF StillThere, KeyHist
<1>7. WaitInv(stream, track, received)
  BY <1>3, <1>4 DEF WaitInv
<1>8. OrderedNow
  BY <1>4, <1>5, <1>6, <1>7 DEF OrderedNow, Ordered, KeyRun, HeadInv, PassedInv
<1> QED BY <1>1, <1>2, <1>8 DEF OInv

LEMMA OPush ==
    ASSUME OInv, NEW f \in Frame, Push(f)
    PROVE  keyLate' \in BOOLEAN /\ (NoRelics' /\ ~keyLate' => OrderedNow')
<1>1. /\ track' = track /\ received' = received /\ out' = out /\ stray' = stray /\ keyLate' = keyLate
  BY DEF Push, netVars
<1>2. Sound(frames, stream, track, received, out, came) /\ Grown(stream, stream')
  BY PushSound DEF OInv, IInv, SoundNow
<1>3. ASSUME NoRelics', ~keyLate' PROVE OrderedNow'
  <2>1. NoRelics /\ ~keyLate
    BY <1>1, <1>3 DEF NoRelics
  <2>2. Core(stream, track, received, out, came, stray) /\ Ordered(stream, track, received, out)
    BY <2>1 DEF OInv, IInv, CoreNow, OrderedNow
  <2>3. Ordered(stream', track, received, out)
    BY <2>2, <1>2, OrderGrown
  <2> QED BY <2>3, <1>1 DEF OrderedNow
<1> QED BY <1>1, <1>3 DEF OInv

LEMMA OOnRtp ==
    ASSUME OInv, NEW n \in DOMAIN stream, on_rtp(n)
    PROVE  keyLate' \in BOOLEAN /\ (NoRelics' /\ ~keyLate' => OrderedNow')
<1>1. /\ track.tail = NoTail /\ n \notin received /\ (\A m \in received : m < n + MaxDelay)
      /\ track' = IF stream[n].key THEN KeyPath(track, n) ELSE DeltaPath(track, n)
      /\ received' = received \cup {n} /\ stray' = (stray \/ Astray(n))
      /\ keyLate' = (keyLate \/ (stream[n].key /\ \E m \in received : n < m))
      /\ stream' = stream /\ out' = out
  BY DEF on_rtp
<1>2. Sound(frames, stream, track, received, out, came)
  BY DEF OInv, IInv, SoundNow
<1>3. ASSUME NoRelics', ~keyLate' PROVE OrderedNow'
  <2>1. Unmet(stray \/ Astray(n), received \cup {n})
    BY <1>1, <1>3 DEF NoRelics, Unmet
  <2>2. NoRelics /\ ~keyLate
    BY <2>1, <1>1, <1>3 DEF NoRelics, Unmet
  <2>3. Core(stream, track, received, out, came, stray) /\ Ordered(stream, track, received, out)
    BY <2>2 DEF OInv, IInv, CoreNow, OrderedNow
  <2>4. CanCome(received, n)
    BY <1>1 DEF CanCome
  <2>5. stream[n].key => \A m \in received : m < n
    <3>1. SUFFICES ASSUME stream[n].key, NEW m \in received PROVE m < n
      OBVIOUS
    <3>2. ~(n < m)
      BY <3>1, <1>1, <1>3
    <3>3. m \in Nat /\ n \in Nat /\ m # n
      BY <1>1, <1>2, StreamNumbers
    <3> QED BY <3>2, <3>3
  <2> DEFINE w == track'
  <2>6. w = IF stream[n].key THEN KeyPath(track, n) ELSE DeltaPath(track, n)
    BY <1>1
  <2> HIDE DEF w
  <2>7. \/ StepStart(track, n, w) \/ StepBack(track, n, w) \/ StepHit(track, n, w)
        \/ StepStore(track, n, w, stray \/ Astray(n))
    BY <2>1, <2>3, <2>4, <2>6, <1>1, <1>2, OnRtpIs
  <2>8. ~StepBack(track, n, w)
    <3>1. SUFFICES ASSUME StepBack(track, n, w) PROVE FALSE
      OBVIOUS
    <3>2. stream[n].key /\ track.key_frame_ts = stream[n].ts /\ n < Hd(track)
      BY <3>1 DEF StepBack
    <3>3. Hd(track) <= n
      BY <3>2, <2>3, <2>5, <1>2, HeadBehind
    <3>4. n \in Nat /\ Hd(track) \in Nat
      BY <1>2, StreamNumbers
    <3> QED BY <3>2, <3>3, <3>4
  <2>9. Ordered(stream, w, received \cup {n}, out)
    BY <2>3, <2>4, <2>5, <2>7, <2>8, <1>1, <1>2, OrderStart, OrderHit, OrderStore
  <2> QED BY <2>9, <1>1 DEF OrderedNow, w
<1>4. keyLate' \in BOOLEAN
  BY <1>1 DEF OInv
<1> QED BY <1>3, <1>4

LEMMA OTurn ==
    ASSUME OInv, packet_video
    PROVE  keyLate' \in BOOLEAN /\ (NoRelics' /\ ~keyLate' => OrderedNow')
<1>1. /\ track.tail # NoTail /\ out' = Append(out, NextFrame(track))
      /\ track' = Advance(Packed(track), Plus(track.tail, 1))
      /\ stream' = stream /\ received' = received /\ stray' = stray /\ keyLate' = keyLate
  BY DEF packet_video, netVars
<1>2. ASSUME NoRelics', ~keyLate' PROVE OrderedNow'
  <2>1. NoRelics /\ ~keyLate
    BY <1>1, <1>2 DEF NoRelics
  <2>2. /\ Sound(frames, stream, track, received, out, came) /\ Core(stream, track, received, out, came, stray)
        /\ Ordered(stream, track, received, out)
    BY <2>1 DEF OInv, IInv, SoundNow, CoreNow, OrderedNow
  <2>3. Ordered(stream, Advance(Packed(track), Plus(track.tail, 1)), received, Append(out, NextFrame(track)))
    BY <2>1, <2>2, <1>1, UnmetIs, OrderTurn
  <2> QED BY <2>3, <1>1 DEF OrderedNow
<1> QED BY <1>1, <1>2 DEF OInv

LEMMA OStep == OInv /\ [Next]_vars => OInv'
<1> SUFFICES ASSUME OInv, [Next]_vars PROVE OInv'
  OBVIOUS
<1>1. IInv'
  BY Step DEF OInv
<1>2. ASSUME NEW f \in Frame, Push(f) PROVE OInv'
  BY <1>1, <1>2, OPush DEF OInv
<1>3. ASSUME NEW n \in DOMAIN stream, on_rtp(n) PROVE OInv'
  BY <1>1, <1>3, OOnRtp DEF OInv
<1>4. CASE packet_video
  BY <1>1, <1>4, OTurn DEF OInv
<1>5. CASE UNCHANGED vars
  BY <1>1, <1>5 DEF vars, netVars, OInv, OrderedNow, NoRelics
<1> QED BY <1>2, <1>3, <1>4, <1>5 DEF Next

LEMMA OInvariant == Spec => []OInv
BY OStart, OStep, PTL DEF Spec
-----------------------------------------------------------------------------
(* What follows of it.                                                     *)

LEMMA InOrderIs == OInv => InOrder
<1> SUFFICES ASSUME OInv, NoRelics, ~keyLate, NEW k \in DOMAIN out, k > 1
             PROVE  out[k - 1][1] < out[k][1]
  BY DEF InOrder
<1>1. out \in Seq(Seq(Nat))
  BY DEF OInv, IInv, SoundNow, Sound, OutTyped
<1>2. k - 1 \in DOMAIN out /\ k - 1 < k
  BY <1>1
<1> QED BY <1>2 DEF OInv, OrderedNow, Ordered, OutOrdered

LEMMA LostIsMissingIs == OInv => LostIsMissing
<1> SUFFICES ASSUME OInv, NoRelics, ~keyLate, track.tail = NoTail, \E m \in received : stream[m].key,
                    NEW n \in received, Seqn(n) = track.lost_sn
             PROVE  /\ LacksFront
                    /\ (\A m \in received : m < n + CacheLen) => n \in Held(track)
  BY DEF LostIsMissing
<1> DEFINE h == Hd(track)
<1>1. Sound(frames, stream, track, received, out, came) /\ OrderedNow
  BY DEF OInv, IInv, SoundNow
<1>2. n \in 1 .. SeqCount /\ received \subseteq DOMAIN stream
  BY <1>1, StreamNumbers
<1>3. n = Ls(track)
  BY <1>2, SeqnIs DEF Ls
<1>4. h <= n
  BY <1>1, <1>3 DEF OrderedNow, Ordered, WaitInv
<1>5. ASSUME \A m \in received : m < n + CacheLen PROVE n \in Held(track)
  <2>1. Has(track, n)
    BY <1>1, <1>4, <1>5 DEF OrderedNow, Ordered, StillThere
  <2>2. Spot(n) \in Slot
    BY <1>2, SpotType
  <2> QED BY <2>1, <2>2 DEF Has, At, Held
<1>6. Headless(stream, received, h)
  BY <1>1, <1>3 DEF OrderedNow, Ordered, WaitInv, KeyCame
<1>7. LacksFront
  <2>1. h \in received /\ stream[h].key /\ h - 1 \in FrameOf(h) \ received
    BY <1>6 DEF Headless, Same, FrameOf
  <2>2. Seqn(h) = track.header_sn
    BY <1>1, NumbersOf DEF Sound
  <2> QED BY <2>1, <2>2 DEF LacksFront
<1> QED BY <1>5, <1>7

LEMMA NothingWithheldIs == OInv => NothingWithheld
<1> SUFFICES ASSUME OInv, NoRelics, ~keyLate, track.tail = NoTail, \A n \in received : 1 .. n \subseteq received,
                    NEW n \in received, HasLast(n), FrameOf(n) \subseteq received,
                    \A m \in received : stream[m].key => stream[m].ts <= stream[n].ts
             PROVE  n \in Handed
  BY DEF NothingWithheld
<1> DEFINE h == Hd(track)
           l == Ls(track)
<1>1. /\ Sound(frames, stream, track, received, out, came) /\ Core(stream, track, received, out, came, stray)
      /\ OrderedNow
  BY DEF OInv, IInv, SoundNow, CoreNow
<1>2. /\ Shaped(frames, stream) /\ received \subseteq DOMAIN stream
      /\ \A m \in DOMAIN stream : m \in Nat /\ 1 <= m /\ stream[m].ts \in Nat
      /\ h \in Nat /\ l \in Nat /\ 1 <= l
  BY <1>1, StreamNumbers
<1>3. KeyCame(stream, received)
  <2>1. 1 \in received /\ 1 \in DOMAIN stream
    BY <1>2
  <2>2. stream[1].key
    BY <2>1, <1>2 DEF Shaped, FramedIn
  <2> QED BY <2>1, <2>2 DEF KeyCame
<1>4. ~Headless(stream, received, h)
  <2>1. SUFFICES ASSUME h \in received, h - 1 \in DOMAIN stream PROVE h - 1 \in received
    BY DEF Headless
  <2>2. h - 1 \in 1 .. h
    BY <2>1, <1>2
  <2> QED BY <2>1, <2>2
<1>5. h <= l /\ l \notin received /\ (CanCome(received, l) => \A y \in h .. l - 1 : ~stream[y].marker)
  BY <1>1, <1>3, <1>4 DEF OrderedNow, Ordered, WaitInv
<1>6. \A m \in received : m < l
  <2>1. SUFFICES ASSUME NEW m \in received, ~(m < l) PROVE FALSE
    OBVIOUS
  <2>2. l \in 1 .. m
    BY <2>1, <1>2
  <2> QED BY <2>2, <1>5
<1>7. \A y \in h .. l - 1 : ~stream[y].marker
  <2>1. \A m \in received : m < l + MaxDelay
    BY <1>2, <1>6, Numbers
  <2> QED BY <2>1, <1>5 DEF CanCome
<1>8. PICK e \in FrameOf(n) : stream[e].marker
  BY DEF HasLast
<1>9. e \in received /\ e \in Nat /\ n \in Nat /\ e \in DOMAIN stream
  BY <1>2, <1>8 DEF FrameOf
<1>10. n <= e
  <2>1. LastIn(stream, e)
    BY <1>2, <1>8, <1>9, MarkerIsLast
  <2>2. n \in FrameIn(stream, e)
    BY <1>2, <1>8 DEF FrameOf, FrameIn
  <2> QED BY <2>1, <2>2 DEF LastIn
<1>11. n < h
  <2>1. SUFFICES ASSUME h <= n PROVE FALSE
    BY <1>2, <1>9
  <2>2. e \in h .. l - 1
    BY <2>1, <1>2, <1>6, <1>9, <1>10
  <2> QED BY <2>2, <1>7, <1>8
<1>12. InOut(out, n)
  <2>1. InOut(out, n) \/ \E m \in received : stream[m].key /\ stream[n].ts < stream[m].ts
    BY <1>1, <1>3, <1>11 DEF OrderedNow, Ordered, PassedInv
  <2>2. \A m \in received : stream[m].key => ~(stream[n].ts < stream[m].ts)
    BY <1>2
  <2> QED BY <2>1, <2>2
<1> QED BY <1>12 DEF InOut, Handed

-----------------------------------------------------------------------------
(* What follows for every behaviour.                                       *)

\* The decoder gets the frames in the order in which they were encoded: a turn
\* of yang_playtrackH264_packet_video packs the frame at header_sn, which never
\* moves back behind a frame that went out.
THEOREM FramesInOrder == Spec => []InOrder
BY OInvariant, InOrderIs, PTL

\* Once a packet of a key frame has come, lost_sn, for which
\* yang_playtrackH264_on_rtp waits, is a packet that has not come, unless the
\* front of the key frame is missing; then it is at least still in the cache.
THEOREM LostMissing == Spec => []LostIsMissing
BY OInvariant, LostIsMissingIs, PTL

\* If nothing is missing, every frame that has come whole since the newest key
\* frame has gone to the decoder: yang_playtrackH264_packet_video goes on to
\* the next frame until it finds a packet missing.
THEOREM NoneWithheld == Spec => []NothingWithheld
BY OInvariant, NothingWithheldIs, PTL
-----------------------------------------------------------------------------
(* The refinement.                                                         *)

LEMMA PushGrows ==
    ASSUME OInv, NEW f \in Frame, Push(f)
    PROVE  Delivery!Grow
<1>1. /\ received' = received /\ came' = came /\ out' = out /\ stray' = stray /\ keyLate' = keyLate
  BY DEF Push, netVars
<1>2. stream \in Seq(Packet) /\ stream' \in Seq(Packet) /\ Grown(stream, stream')
  BY PushSound DEF OInv, IInv, SoundNow, Sound, Shaped
<1>3. /\ DOMAIN stream = 1 .. Len(stream) /\ Len(stream) \in Nat
      /\ DOMAIN stream' = 1 .. Len(stream') /\ Len(stream') \in Nat
  BY <1>2
<1>4. /\ 1 .. Len(stream) \subseteq 1 .. Len(stream')
      /\ \A i \in 1 .. Len(stream) : stream'[i] = stream[i]
  BY <1>2, <1>3 DEF Grown
<1>5. Len(stream) <= Len(stream')
  <2>1. SUFFICES ASSUME ~(Len(stream) <= Len(stream')) PROVE FALSE
    OBVIOUS
  <2>2. Len(stream) \in 1 .. Len(stream)
    BY <2>1, <1>3
  <2>3. Len(stream) \in 1 .. Len(stream')
    BY <2>2, <1>4
  <2> QED BY <2>1, <2>3, <1>3
<1>6. SubSeq(stream, 1, Len(stream)) = SubSeq(stream', 1, Len(stream))
  <2>1. SubSeq(stream', 1, Len(stream)) = Restrict(stream', 1 .. Len(stream))
    <3>1. Len(stream) \in 0 .. Len(stream')
      BY <1>3, <1>5
    <3> QED BY <3>1, <1>2, SubSeqRestrict
  <2>2. SubSeq(stream, 1, Len(stream)) = Restrict(stream, 1 .. Len(stream))
    <3>1. Len(stream) \in 0 .. Len(stream)
      BY <1>3
    <3> QED BY <3>1, <1>2, SubSeqRestrict
  <2> QED BY <2>1, <2>2, <1>4 DEF Restrict
<1>7. Delivery!IsPrefix(stream, stream')
  BY <1>5, <1>6 DEF Delivery!IsPrefix
<1>8. (~NoRelics)' = (~NoRelics)
  BY <1>1 DEF NoRelics
<1> QED BY <1>1, <1>7, <1>8 DEF Delivery!Grow

LEMMA OnRtpReceives ==
    ASSUME OInv, NEW n \in DOMAIN stream, on_rtp(n)
    PROVE  Delivery!Receive(n)
<1>1. /\ n \notin received /\ received' = received \cup {n} /\ came' = n /\ stray' = (stray \/ Astray(n))
      /\ keyLate' = (keyLate \/ (stream[n].key /\ \E m \in received : n < m))
      /\ stream' = stream /\ out' = out
  BY DEF on_rtp
<1>2. keyLate' \in {keyLate, TRUE}
  BY <1>1 DEF OInv
<1>3. NoRelics' => NoRelics
  BY <1>1 DEF NoRelics
<1>4. (~NoRelics') \in {~NoRelics, TRUE}
  BY <1>3 DEF NoRelics
<1> QED BY <1>1, <1>2, <1>4 DEF Delivery!Receive

LEMMA TurnReleases ==
    ASSUME OInv, packet_video
    PROVE  out' # << >> /\ Delivery!Release(Last(out'))
<1> DEFINE h == Hd(track)
           e == Tl(track)
           p == NextFrame(track)
<1>1. /\ track.tail # NoTail /\ out' = Append(out, p) /\ came' = NoPacket
      /\ stream' = stream /\ received' = received /\ stray' = stray /\ keyLate' = keyLate
  BY DEF packet_video, netVars
<1>2. Sound(frames, stream, track, received, out, came)
  BY DEF OInv, IInv, SoundNow
<1>3. out \in Seq(Seq(Nat)) /\ p \in Seq(Nat)
  <2>1. p \in Seq(Nat)
    BY <1>1, <1>2, TakenIs DEF Sound
  <2> QED BY <2>1, <1>2 DEF Sound, OutTyped
<1> HIDE DEF h, e, p
<1>4. out' # << >> /\ Last(out') = p
  <2>1. Len(out) \in Nat /\ Len(Append(out, p)) = Len(out) + 1 /\ Append(out, p)[Len(out) + 1] = p
    BY <1>3
  <2>2. Append(out, p) # << >>
    <3>1. Len(out) + 1 \in DOMAIN Append(out, p)
      BY <1>3, <2>1
    <3> QED BY <3>1
  <2> QED BY <2>1, <2>2, <1>1 DEF Last
<1>5. ASSUME NoRelics
      PROVE  /\ Delivery!IsFrame(p) /\ Delivery!Follows(p)
             /\ \A m \in Delivery!ToSet(p) : ~Delivery!InOut(m)
             /\ keyLate \/ out = << >> \/ Delivery!Last(out)[1] < p[1]
  <2>1. Core(stream, track, received, out, came, stray)
    BY <1>5 DEF OInv, IInv, CoreNow
  <2>2. /\ h \in Nat /\ e \in Nat /\ h <= e /\ e \in DOMAIN stream
        /\ IsRun(p, h, e) /\ \A x \in h .. e : x \in received /\ Same(stream, x, h) /\ ~InOut(out, x)
    BY <1>1, <1>2, <1>5, <2>1, UnmetIs, TurnIs DEF h, e, p
  <2>3. /\ LastIn(stream, e) /\ WholeFrom(stream, h)
        /\ IF came # NoPacket THEN h <= came /\ came <= e + 1
           ELSE out # << >> /\ Last(Last(out)) + 1 = h
    BY <1>1, <2>1 DEF Core, TailInv, h, e
  <2>4. /\ ToSet(p) = h .. e /\ p # << >> /\ p[1] = h
        /\ \A i \in DOMAIN p : i \in Int /\ p[i] = h + i - 1
    <3>1. ToSet(p) = h .. e /\ p # << >> /\ p[1] = h /\ DOMAIN p = 1 .. e - h + 1
          /\ \A i \in DOMAIN p : p[i] = h + i - 1
      BY <2>2, RunSet
    <3> QED BY <3>1
  <2>5. received \subseteq DOMAIN stream
    BY <1>2 DEF Sound
  <2>6. Delivery!FrameOf(h) = FrameIn(stream, h)
    BY DEF Delivery!FrameOf, FrameIn
  <2>7. Delivery!IsFrame(p)
    <3>1. h .. e \subseteq FrameIn(stream, h) \cap received
      BY <2>2, <2>5 DEF FrameIn, Same
    <3>2. ASSUME NEW m \in FrameIn(stream, h), stream[m].nalu # "stap" PROVE m \in h .. e
      <4>1. h <= m
        BY <3>2, <2>3 DEF WholeFrom
      <4>2. m <= e
        <5>1. Same(stream, e, h)
          BY <2>2
        <5>2. m \in FrameIn(stream, e)
          BY <5>1 DEF FrameIn, Same
        <5> QED BY <5>2, <2>3 DEF LastIn
      <4>3. m \in Nat
        BY <1>2, StreamNumbers DEF FrameIn
      <4> QED BY <4>1, <4>2, <4>3, <2>2
    <3>3. Delivery!Needed(h) \subseteq h .. e
      BY <3>2, <2>6 DEF Delivery!Needed
    <3>4. \A i, j \in DOMAIN p : i < j => p[i] < p[j]
      BY <2>2, <2>4
    <3> QED BY <3>1, <3>3, <3>4, <2>4, <2>6 DEF Delivery!IsFrame, Delivery!ToSet, ToSet
  <2>8. Delivery!Follows(p)
    <3>1. CASE came # NoPacket
      <4>1. came \in Nat
        <5>1. came \in received
          BY <3>1, <1>2 DEF Sound
        <5> QED BY <5>1, <1>2, StreamNumbers
      <4>2. came \in h .. e \/ came - 1 \in h .. e
        BY <4>1, <3>1, <2>2, <2>3
      <4>3. {came - 1, came} \cap Delivery!ToSet(p) # {}
        BY <4>2, <2>4 DEF Delivery!ToSet, ToSet
      <4> QED BY <4>3, <3>1, Numbers DEF Delivery!Follows
    <3>2. CASE came = NoPacket
      <4>1. out # << >> /\ Last(Last(out)) + 1 = p[1]
        BY <3>2, <2>3, <2>4
      <4>2. Delivery!Last(Delivery!Last(out)) = Last(Last(out))
        BY DEF Delivery!Last, Last
      <4> QED BY <3>2, <4>1, <4>2, Numbers DEF Delivery!Follows
    <3> QED BY <3>1, <3>2
  <2>9. \A m \in Delivery!ToSet(p) : ~Delivery!InOut(m)
    BY <2>2, <2>4 DEF Delivery!InOut, InOut, Delivery!ToSet, ToSet
  <2>10. ASSUME ~keyLate, out # << >> PROVE Last(out)[1] < p[1]
    <3>1. Len(out) \in DOMAIN out /\ Last(out) = out[Len(out)]
      BY <1>3, <2>10 DEF Last
    <3>2. PICK a \in Nat, b \in Nat : IsRun(out[Len(out)], a, b)
      BY <3>1, <2>1 DEF Core, OutInv, FrameOut
    <3>3. out[Len(out)][1] \in ToSet(out[Len(out)])
      <4>1. ToSet(out[Len(out)]) = a .. b /\ out[Len(out)][1] = a /\ a <= b
        BY <3>2, RunSet DEF IsRun
      <4> QED BY <4>1
    <3>4. Ordered(stream, track, received, out)
      BY <1>5, <2>10 DEF OInv, OrderedNow
    <3> QED BY <3>1, <3>3, <3>4, <2>4 DEF Ordered, OutOrdered, h
  <2> QED BY <2>7, <2>8, <2>9, <2>10 DEF Delivery!Last, Last
<1>6. NoRelics' <=> NoRelics
  BY <1>1 DEF NoRelics
<1>7. came' = 0
  BY <1>1, Numbers
<1>8. Delivery!Release(p)
  BY <1>1, <1>5, <1>7 DEF Delivery!Release, NoRelics
<1> QED BY <1>4, <1>8

\* Every step of the cache is one that module FrameDelivery allows: a packet that
\* comes only makes frames go out that it belongs to or ends, or that follow
\* those, each whole, once and in order.
THEOREM ImplementsDelivery == Spec => IsDelivery
<1>1. Init => Delivery!Init
  BY Numbers DEF Init, Delivery!Init, NoRelics
<1>2. OInv /\ [Next]_vars => [Delivery!Next]_(Delivery!vars)
  <2> SUFFICES ASSUME OInv, [Next]_vars PROVE [Delivery!Next]_(Delivery!vars)
    OBVIOUS
  <2>1. ASSUME NEW f \in Frame, Push(f) PROVE Delivery!Next
    BY <2>1, PushGrows DEF Delivery!Next
  <2>2. ASSUME NEW n \in DOMAIN stream, on_rtp(n) PROVE Delivery!Next
    BY <2>2, OnRtpReceives DEF Delivery!Next
  <2>3. CASE packet_video
    BY <2>3, TurnReleases DEF Delivery!Next, Delivery!Last, Last
  <2>4. CASE UNCHANGED vars
    BY <2>4 DEF vars, netVars, Delivery!vars, NoRelics
  <2> QED BY <2>1, <2>2, <2>3, <2>4 DEF Next
<1> QED BY <1>1, <1>2, OInvariant, PTL DEF Spec, IsDelivery, Delivery!Spec
=============================================================================
