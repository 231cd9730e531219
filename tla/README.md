# CalcTunes in TLA+

CalcTunes is a music player for Android: a Java application, and a native library
(`src/jni`) that decodes lossless formats. This directory holds TLA+ modules that
follow both, TLC configurations that check them on small instances, and TLAPS proofs
of the properties that matter most. Java paths are relative to
`src/src/com/calcprogrammer1/calctunes/`, native ones to `src/jni/`.

Each module says in its header what it follows; `PROJECT.json` maps definitions to source
lines (a small helper of a decoder is under the definition whose code it shares), and
lists the hazards of the code with the properties about them. A module `M_proofs` holds
the theorems about `M`.
Definitions keep the names of the code where TLA+ allows it.

## 1. The system and its parts

| Part | State | Operations | Interacts with |
|---|---|---|---|
| `MediaPlayer/MediaPlayerHandler` | `mp`, `prepared`, `playonprepare`, the current path and texts | `initialize`, `startPlayback`, `pausePlayback`, `stopPlayback`, `seekPlayback`, the listeners | called by the service on several threads; the player calls back on the main thread |
| `ContentPlaybackService/ContentPlaybackService` | the content and its type, random mode, timers of the next button | buttons, completion, choosing a content, `NextTrack` (a new thread each), `PrevTrack` (a task) | owns the handler and the content |
| `ContentPlaybackService/ContentPlayback{Library,Playlist,Subsonic,Filesystem}` | a cursor, a list, lists fetched from a server, or one file; the position in it | next, previous, random, clean-up | called by the service; the playlist shares its list with the fragment that edits it |
| `Subsonic/SubsonicDownloaderService` | `downloadQueue`, `isDownloading`, threads | an intent queues a job; a thread serves the queue | broadcasts to the list of the server's music |
| `MediaPlayer/LosslessMediaCodecHandler` with `main.c`, `std_audio.cpp` | the context `msm_ctx`: state, mutex, file, AudioTrack, callback buffer; the play thread | `start`, `stop`, `pause`, `resume`, `seekTo`, the position; the AudioTrack's callback | Java's main thread, the play thread and the AudioTrack's thread share the context |
| `flac`, `wv`, `alac`, `ape`, `mpc`, `wav` | the decoder of one format, its file | a play function each: open, seek, decode, write; some a duration and a cue sheet | run inside the play thread, write through `audio_write()` |
| `Subsonic/SubsonicConnection`, `SubsonicAPI`, `PlaylistEditor`, library scanner, source lists, `SeekHandler`, remote control, `LastFm`, art cache, user interface | views, files, documents | | see section 6 |

What is hard here:

* **The player's preparation is asynchronous.** Between `prepareAsync()` and
  `onPrepared` the user can ask for another track, stop or seek, and the callbacks
  of a player that was given up act on whatever player is current by then.
* **Nothing is locked in Java.** The service runs `NextTrack()` on a thread per press or
  completion, `PrevTrack()` on a background task and the rest on the main thread, all
  on the same content and handler; the download service tests a flag on the main
  thread that a worker sets; playlists are edited while they are played.
* **The native player is locked by hand.** A mutex that a pause takes and a resume
  releases, a state that several threads test before they take it, a condition that
  is signalled whether or not somebody waits, a file closed under its reader.
* **Decoders and encoders must agree to the bit**, in adaptive state that a single
  wrong bit upsets for good, with words at the limits of their width; and seeks guess
  places in a file of which only parts are known.

## 2. The modules

### The service and what it plays

`AndroidMediaPlayer` states what the handler relies on of `android.media.MediaPlayer`
(external): the states, what a call does in each, and the messages listeners get.

`MediaPlayerHandler` is the class. Each method and each listener is one action, from
end to end: `Open` and `OpenFails` are the two ends of `initialize()` with the
`stopPlayback()` it begins with; `Refresh` is the service's `refreshMediaPlayer()`,
`Initialize` the same opening when a thread of the service calls it some time after its
`stopPlayback()`. The platform's own steps (`PrepareDone`, `PlaybackEnds`, `SeekDone`,
`MediaFails`) happen at any time and post a message into `looper`. A released player's
messages are discarded, and the object may stand for a later one. `Restart` is the
service in a new process. `stopped` and `hurried` are history: how the last stop found
the handler, and that a track was changed before the earlier player was prepared.

`PlaybackService` adds `ContentPlaybackService`: the content, the buttons in both
playback modes, the timers and tasks behind the next button (`pending`), and the threads
that carry a command out. A command is a sequence of statements (`plan`): move the
content on, stop the player, read the path, initialize the player, start it. Each is an
action, so that all threads and callbacks interleave between any two of them. The
methods of the handler are indivisible here, and a content moves to any track when it
moves at all. `overlapped` and `calm` are history.

`TrackRing` is the abstract specification of a content: tracks form a ring, next and
previous move one step, random moves anywhere; a content may give the promise up for
good. `LibraryContent` follows `ContentPlaybackLibrary` access by access, for any number
of threads: the test of the position, load and store of `nowPlayingPos++`, the cursor's
move, the read, the assignment, and the statements of `CleanUp()` are separate actions.
`PlaylistContent` has the list it shares with the fragment, whose removals fall between
the two halves of a command; `PrevTrack` moves forward, as the source does.
`SubsonicContent` follows `ContentPlaybackSubsonic` for any library of artists, albums
and songs, a song played from the cache included. Two constant operators, `Before` and
`Total`, give each song its place among all the songs of a library; what makes them a
count is the assumption `LibrariesAreCounted`. `MCContents` puts the library and the Subsonic
content side by side, and gives `Before` and `Total` as sums, for which TLC evaluates
the assumption in every library of its instance.

`DownloadQueue` is the abstract queue, which gives its promise up with the first two
changes of the list that overlap. `SubsonicDownloader` is the service. Its `ArrayList` is
a size and an array, as the platform implements it, and nothing locks them: one action
is one access to the size, to a cell or to the flag, so `add()` on the main thread and
`remove()` on the downloader threads interleave inside the calls. `risked` is history:
the requests that had come by the time two changes last overlapped. `Throw` is an exception that nothing catches.

### The native player

`NativePlayer` is `LosslessMediaCodecHandler` over `main.c` and `std_audio.cpp`, with the
control of the six play functions (which differ in `Play`: what they do at the end of the
data, at a file closed under them, at a failed opening). Three threads: `Main` calls
`stop()`, `start()`, `seekTo()`, `pause()` and `resume()`; `PlayThread` is a thread inside a play
function; `cbf` is the AudioTrack's callback. Each access to a shared field is an action:
`audio_stop` is `Test`, `CloseFile`, `StopRing`, `Silence`, `Clear` and so on, by either
thread; a write is the lock, the copy, the unlock and the count, in the order of each codec. The three modes (device, AudioTrack, AudioTrack with a callback) are chosen at
the start. Sound is units; one unit stands for a second where positions are compared. What
a track has accepted (`given`) is heard later, by the track's own step `Sound`, and the next
`audio_start()` throws away what it holds. Each codec says how many bytes of a sample it writes and how
many it counts (`rates`).
That a paused track takes nothing in any mode is assumed of the platform.
`AudioPipe` is the abstract specification of the callback buffer: a bounded first-in
first-out pipe that can be thrown away.

### The decoders

Decoders are pure: most of each module is functions on bits. What is not one, the loop
of the play function that reads, seeks, decodes and writes, is a state machine. Each has an
encoder to compare with: the repository's own for WavPack, and for the others one
written from the format as the decoder reads it (`FlacFormat`, `ApeFormat`, `MpcFormat`, the
first part of `MCAlac`), which is test equipment and stands for no code. `FlacSeek` knows nothing of the bits:
a file is the places and sizes of its frames and what the metadata says of them, for any set of `Files` with `FilesAssumption`. Nor does
`FlacCue`: a cue sheet is the row of its numbers and the album they were written of, for any `CueFiles` in which the one holds the other
field by field (`CueAssumption`).

| Format | Modules | What they follow |
|---|---|---|
| FLAC | `FlacDecoder`, `FlacSeek`, `FlacCue`, `MCFlac` | bit reader, Rice codes, sub-frames, predictions, channels, the buffer of the loop; `flac_init`, `frame_sync`, `flac_seek`; the cue sheet's times |
| WavPack | `WavPackWords`, `WavPackUnpack`, `WavPackBlock`, `WavPackFile`, `MCWavPack` | entropy coder and decoder of words, decorrelation passes, metadata, integers and floats, packing of blocks; calls across blocks, seek, duration |
| Apple Lossless | `AlacDecoder`, `AlacMovie`, `MCAlac` | Rice codes and running mean, adaptive prediction, unmixing; the atoms, tables of samples and chunks, seek and loop |
| Monkey's Audio | `ApeDecoder`, `ApeVectors`, `ApeFile`, `MCApe` | range decoder, filters, predictor, frames of versions 3.97 to 3.99; vector routines of three ARM processors and the ColdFire against those in C; both header readers, the table, seek and loop |
| Musepack | `MpcTables`, `MpcDecoder`, `MpcSynthesis`, `MpcFile`, `MCMpc` | ring of words, Huffman codes, frames of streams 4 to 7, scale factors, requantization; the synthesis filter; stream information, ID3, seek and loop |

`Bits` has what they share: arithmetic of a given width, floors, bits of numbers.

Operators whose comment begins with "Mutant" are plausible mistakes in the definition they
stand before. Nothing uses them; substituting one makes TLC refute the property
`PROJECT.json` names beside it, which shows that the property can fail.

## 3. What the runs check

Every run but one passes, and covers its whole state space.

| Run | Instance | What it shows |
|---|---|---|
| `handler` | 3 players, 3 tracks of which 2 can be read, 3 waiting messages | **AudibleIsStoppable** whatever is heard comes from `mp` with `prepared` set; **TitleMatchesPlayer**; **StopIsFinal** after a stop that found no start request nothing is heard until the next command; **HurryIsToBlame** leaks, a `prepared` without player and crashes of listeners need a track change during preparation; **StartRequestAnswered** |
| `service` | 2 players, 2 tracks, 1 waiting message, main, task and one worker thread, all kinds of content | **CalmStopIsFinal** a stop with nothing under way lasts until the next button; **NowPlayingMatchesContent** after a command that no other overlapped the player holds the content's track, whatever raced before |
| `contents` | library of 3 rows with main thread, one task and two `NextTrack` threads; every Subsonic library of up to 3 artists, 2 albums, 2 songs | **FileMatchesPosition**, **CrashNeedsOverlapOrStop**, **PositionRecovers**, **ImplementsRing**, **SubsonicImplementsRing** |
| `playlist` | 4 tracks in every order | **CrashNeedsRemoval**; **RemovalsAreOvercome** an edit misleads one command at most, and every track that stays comes up again |
| `downloader` | 3 requests, 2 threads, every call on the list taken access by access | **ImplementsQueue** until two changes overlap, and a request that comes after the last overlap is not lost; **ServedOrStuck** |
| `player` | six codecs, three modes, two plays, one pause, a file of 5 units written by 2 into a ring of 3, a track that holds 2 | **ImplementsPipe**; **EndReachesTheTrack** a play that ends by itself gave the track its file in order and to the end, but for less than a write, and for what still waits when `wavPlay()` ends; **SilentAfterStop**; **CompletionMeansEnd**; **MutexComesBack** only a pause that was stopped keeps it; **PositionFollowsTheSound** but for what is not heard or not counted yet, at the rate of each codec; **StopReturnsOrStuck** `stop()` returns unless one of two named cases |
| `player_stop` | one codec, one play | a counterexample to **StopReturns**, see below |
| `flac` | streams of one and two frames in every coding, some damaged; files of four frames with every target; cue sheets of three tracks | **PlaysWhatWasEncoded**, **SeekFinds**, **SeekEnds**, **CueGivesTheTracks** |
| `wavpack` | files of the library's encoder in every mode, files of other encoders and of a version not known, blocks lost or damaged, also of four channels; three sizes of calls, six starts | **PlaysTheRecording**, **WrongIsNoticed**, **LossStaysInPlace**, **SeekStaysInTheFile** |
| `alac` | blocks of one and two channels in every coding, of samples of 8, 16, 20 and 24 bits; movies of five blocks in six arrangements of chunks, four of durations, and odd or cut files; 22 starts | **BlocksAreRestored**, **PlaysTheTrack**, **ReadingEnds** |
| `ape` | every version and kind of compression, three widths, silent and equal channels, headers that differ, cut files; 13 starts | **ApeIsRestored**, **SeekStaysInTheLoop**, **VectorsAgree** |
| `mpc` | streams with every quantizer, order of scale factors and kind of last frame, tags, refused headers, cut files; old streams called directly; clicks through the filter | **PlaysTheStream**, **SeekIsRightOrSilent**, **SynthesisDelays481** |

### What the decoders are found to do

Each of the properties names the exceptions the code makes; they are part of what is checked.

* FLAC: not restored are widths other than 16 and 24 bits, Rice parameters of 25 or more, partitions
  of width 0, and a prediction in a side channel at the limit of 32 bits. A seek in a file of fixed
  blocksize misses where entries of a SEEKTABLE surround the target and the file has an ID3 tag; where none do, if the last frame is
  longer than the guess of a frame's size; and where
  more bytes that look like a header follow one another than `frame_sync()` gets past. A file that does not say how many samples it
  has is not played at all: `flac_init()` divides by the length in milliseconds, 0, and ends the process (`"dead"` in the model). Of a cue
  sheet the times are those of the tracks with an index 01: behind one without it every track has the number of an earlier one.
* WavPack: samples too wide for the weights come out wrong, and are noticed; a seek in a
  file of more than two channels may make noise of a block; the block behind a lost one
  is silent. `wvPlay()` uses a null context when a guess lands behind the last header: the index of none is the
  largest number, -1 as an `int`, and the next guess wraps. The
  library's encoder writes no unusual sample rate.
* Apple Lossless: a very loud steady passage reads behind a table of bits. Samples of 20 and 24 bits are decoded but
  not justified, though the two bytes written of each are taken as if they were, and channels mixed in samples that
  have not 16 bits stay mixed. An entry of `stsd` that is shorter than its fields, or longer than `codecdata`, overruns it. Gaps between
  chunks are not skipped; a start in a second `mdat` plays the file's first bytes;
  tables that are missing are used unset; two kinds of file are read for ever.
* Monkey's Audio: a jump behind a silence is escaped and read with the wrong sign; a
  seek in a file whose first frame is not at a multiple of four bytes finds noise; a cut file
  crashes or ends in noise.
* Musepack: files of streams 4 to 6 are always refused, though their decoder is there; a
  header of versions 0x27 to 0x67 is taken and plays nothing; after a seek, bands whose
  scale factors are differences are silent until they are set anew.

### The counterexample

`flac/main.c:692` and its like say "we were stopped from the main thread" of a play that returns.
`player_stop` shows a `stop()` that comes when the play has left its loop and is about to wait
for the rest of the sound: `cbdone` is signalled to nobody, the thread never ends, and
`stop()` never returns from joining it. The second case that `StopReturnsOrStuck` admits is a pause
that is stopped: `audio_stop()` does not release the mutex the pause holds.

Elsewhere the properties are stated so that they hold, and their exceptions tell what goes wrong:
a late `onPrepared` starts the successor of its player (`HurryIsToBlame`); a request between the test and the
set of `isDownloading` starts a second thread, and an exception leaves the flag set for ever
(`ServedOrStuck`); `StopPlayback()` keeps a content it has cleaned up (`CrashNeedsOverlapOrStop`);
the previous track of a playlist is the next one (`Following`).

### Bounds

* `handler`, `service`: `MaxMessages` caps the waiting messages; three are one per player. Three players let two
  be forgotten while a third is held; an unreadable track is needed for `OpenFails`. `MaxBusy` lets the user
  give a command while at most one is under way (with the song's end and the timers three threads still overlap).
* `contents`: three rows are a first, a middle and a last; `MaxDrift` caps how far
  racing commands carry the position out of the table, and one row beyond each end tells before, in
  and after apart; three threads are the fewest with which two commands overlap while a third reads.
* `downloader`, `playlist`: two threads and the main thread exhibit every conflict over the list that involves a pair, and three requests
  leave one to be lost or doubled behind the two in conflict; four tracks leave three after a
  removal, the fewest whose previous track is not also the next.
* `player`: a ring of 3 with writes of 2 wraps within the second write and cannot take two; a file of 5 is, from the third unit, one write and a
  tail, and from the first, where all but FLAC files begin whatever is asked, two writes and a tail; a frame of 3 is more than a write. A track of 2 holds one
  write. The second play of `MaxPlays` meets what the first left behind. `player_stop` has a file of 6 written by 3.
* Decoders: words of 21 to 31 bits instead of 32 (`WordBits`, `CrcBits`, `CodeBits`, `Depth`), because TLC's
  integers have 32; the frames are of a few samples, and signals are chosen so that they reach the
  limits of the smaller words. The Monkey's Audio filters have orders 16 to 48 for 16 to 1280, their history
  wraps after 3 and 5 samples, a loop has 2, and headers are 20, 8 and 16 bytes for 52, 24 and 32. A half word of `ApeVectors` has 8
  bits. A Musepack frame is 36 steps of 32 samples; half of the ring (32 words) is longer than a frame, as 8192 are in the code.
  `Beyond`, `SizeBits`, `IntBits`, `SkipLimit` and `MaxTries` stand for the code's own limits, made small enough to be passed.

### Symmetry, deadlock, fairness

`contents` and `service` use symmetry over threads, or players and tracks; no constant names one, and
they check nothing under fairness. Only the runs `handler` and `wavpack` leave the deadlock check on: the others may
stop, because a process ends, a queue is served, a track is over, or a thread is stuck for good.

The handler's `FairSpec` assumes that the main thread handles the messages of its looper and that the
platform finishes a preparation, one way or the other. The downloader's assumes that started threads take
their next step and that a transfer ends. The playlist's assumes that a song ends and that a command
goes on. `NativePlayer` assumes that the play thread runs when it can, that a track that plays plays what it has and keeps asking for
more (`Sound`, `cbf`), and that a call the user has begun goes on (`audio_stop`, `Join`, `Spawn`, `audioPause`). `flac` and `alac` assume that the
one thread that reads goes on. No fairness is assumed of the user; the playlist's liveness speaks of behaviours in
which, from some point on, nothing is done but removing tracks.

## 4. What is proved

The proofs hold for every value of the constants under the named assumptions: any number
of players, tracks, threads, requests and rows; any sizes of files, writes and buffers.

* `MediaPlayerHandler_proofs`: `TypeCorrect`, `AudibleStoppable`, `TitleMatches`, `FinalStop`,
  `HurryBlamed`. None is inductive alone: that an abandoned player is silent needs that only a
  prepared `mp` is started, which needs that seeks in progress belong to `mp`, which needs that a release empties them.
  `IInv` is their conjunction, with what an unhurried handler looks like for `HurryBlamed`.
* `PlaybackService_proofs`: `ServiceUsesHandler` shows that every step of the service is a step
  of the handler, its methods taken as indivisible, or leaves it alone. What it says nothing of is two threads inside those methods
  (section 6). `CalmStopLasts` needs `CalmInv`: after a calm stop no press is on its way, every thread is idle or stopping again, and no player is alive.
  `PlayerFollowsContent` (`NowPlayingMatchesContent`) needs `PlansInv` and `NowInv`: a thread has an end of one of the service's commands left to do; a command that no other overlaps
  is alone; the path it has read is still the content's when it opens the player; and the player matches the content before the command and
  again once it has opened.
* `SubsonicDownloader_proofs`: `DownloaderTypeCorrect`, `JobsAreKept`, `WakeupsAreKept`, `QueueRefinement`. Nothing is taken to be
  indivisible but one access. `MainInv` and `ThreadInv` are what a thread knows whatever the others do to the list; `SoloInv` says, as long as a request came after the last
  overlap, that at most one thread is inside a change, with the size it has read still the list's, so that none of these requests is lost;
  `OnceInv` and `RemoveInv`, until the first overlap, that the list holds a request once and that a thread about to remove one finds it first or
  not at all, which makes the list the abstract queue.
* `LibraryContent_proofs`: `LibraryTypeCorrect`, `FileIsAtPosition`, `CrashesAreExplained`, `RacesRecover`,
  `RingRefinement`. The invariant says what each thread knows whatever the others do (`LocalInv`), what holds until
  two commands overlap (`SoloInv`), and that a position outside the table is about to be found out by a thread that has yet to read (`RecoverInv`).
* `PlaylistContent_proofs` (from `TracksAssumption`: the tracks are finitely many): `PlaylistTypeCorrect`, `PlaylistCrashes`
  (`CrashNeedsRemoval`), `EditMisleadsOne`. The invariant says that a list holds a track once (`OnceInv`), that until it is edited the position
  is that of the file, or in the middle of a command that of its follower (`PlaceInv`), and that a command no removal interrupted
  reads inside the list (`BoundInv`). Lemmas say what a removal leaves of the elements.
* `SubsonicContent_proofs`: `SubsonicInvariance` and `SubsonicRing`, the refinement of `TrackRing` for every library, of any depth and
  width, from `LibrariesAreCounted`. `ForwardFacts` and `BackFacts` go through the cases of the two nested searches: each moves
  the place by one, around the ends.
* `NativePlayer_proofs` (from `SizesAssumption`: a write is smaller than the ring, and there is a size of frames; and `KindsAssumption`): `MutexReturned`,
  `CompletionIsEnd`, `StopSilences` follow from `IInv`: the state is STOPPED while a play opens and whenever there is no
  thread (`StateInv`), a stop that found something meets no opening play and has paused the track before it joins
  (`StopInv`), and a thread being stopped was told so unless it had not begun (`ToldInv`). `PositionIsThatOfTheSound` and
  `PipeRefinement` add `PlayInv`: what was put, counted or not yet counted, was given to the track or waits in the ring, or was in it when it was
  thrown away (`CountInv`), and what is put is counted once, after the write (`PutInv`). The refinement rests on lemmas about the
  ring (`Turns`, `RingIndex`, `CopyAppends`, `TakeIsTail`): arithmetic modulo its size one turn at a time, by which a copy in two
  pieces appends to `Contents` and a request takes its front. That a full ring never looks empty is the strict comparison of `std_audio.cpp:235`.
  `EndOfFileReachesTheTrack` (`EndReachesTheTrack`) adds `EndInv`, in four parts: who holds the mutex, and that a play nobody stops goes through its
  steps undisturbed (`ControlInv`); what the track was given counts on from the first unit, and what waits and the decoder go on from there (`SoundInv`, with
  the lemmas `CountsOn` and `CountsCut`); less than a write is left over whenever the loop goes round (`FlushInv`); and a play that
  comes to its own end has decoded its file to the end and, where it waits for it, an empty callback buffer (`DoneInv`).
* `Decoder_proofs` on seeks (from `FilesAssumption`: frames follow one another, none is larger than its samples uncompressed and some
  bytes, and a SEEKTABLE is of frames): `SearchInvariance` and `SeekFindsItsFrame` (`SeekFinds`), for files of any number of frames. What the bisection
  must keep is that the frame of the target is between the bounds (`BracketInv`): the lower one is in front of a frame that is not
  behind it and behind the frame before, and the upper one is at a frame behind it, or at the end of a file whose last frame is
  not longer than the guess. `KnownInv` says that a search is of a file that tells its samples, since `flac_init()` lets no other pass (`NoSamplesNoTime`). `PositionBetween` bounds the interpolated place, `Landing` says which frame `frame_sync()` comes to,
  `Probing` that it is one that the bounds allow, and `Turns` that no turn gives up and each keeps the frame between the
  bounds. The layout of the frames (`Order`, `FrameOf`) is shown by the least counterexample (`Least`), which needs only that the numbers are well-founded.
  That a search does not go on for ever is the other half. `EverySearchAdvances`, for every file, with the oddities too: each step makes
  `Measure` less, four numbers of which the first that changes tells. They are how far the two calls of `flac_seek()` have come, whether the
  bounds have moved yet, how many samples are between them, and how far behind the lower one the next place is; a
  turn that finds a frame moves a bound (`TurnsOfTheLoop`), and one that does not steps back. `BoundsInv` is all that it needs. `SearchIsWellFounded`
  says that this order has no infinite descent.
* `Decoder_proofs` on cue sheets (from `CueAssumption`): `CueTracksAreGiven` (`CueGivesTheTracks`), for any blocks, tracks and indices. `CueInv` says what the loops know: before
  a sheet that no other sheet was passed and that the rate is the last one told (`RateIsKnown`, `RatesBehind`); in it that it is the sheet to be read, that `p` is at
  the place of the next track, and that the starts so far are those of the listed tracks before it, each at its rank (`TimesUpTo`). `WordsOfTrack` is the
  reading of one track: the sizes by which `p` goes on are those of the album's layout, and the first word of an index numbered 1 is its first INDEX 01.
* `Decoder_proofs` on the vectors of Monkey's Audio (from `HalfAssumption`: a half word has two values or more): `VectorsAreExact`, for every order of 16 or a
  multiple of 32, and `HalvesAreAsInC`. `VectorsAgree` compares the assemblers with the C code on the vectors of its run; here sums and
  differences are shown for all. A macro that adds a half by a shift and a rotation is right because the other half of one operand is 0 there and
  carries nothing (`SumOfPairs`, `DifferenceOfPairs`, from `Wrapped`); `Halves5`, `Halves6` and `HalvesCf` are the macros; `Neighbours` says which
  numbers an odd vector's words hold, and `Counts` that the loops go through the whole vector. The scalar products are sums over a vector, by a
  recursive function, and stay with the run.

Every assumption on a constant is evaluated by the run that extends its module.

## 5. What is only model-checked

Liveness under fairness, which the prover does not reach: `StartRequestAnswered`, `ServedOrStuck`, `RemovalsAreOvercome` (but for its first half, `EditMisleadsOne`),
`StopReturnsOrStuck`, `SeekEnds`, `ReadingEnds`. That the sums of `MCContents` count every library as `LibrariesAreCounted` says is induction over
the library; TLC evaluates it for the libraries of the run. Of `SeekEnds` it is proved that no search turns for ever; that the thread
which searches takes its steps is the fairness of the run.
The decoders: what their recursive functions compute for every input is
induction over data too, and most rest on `Bits`, whose operators are `RECURSIVE`; the runs compare them with encoders over the signals named above.

## 6. What is not modelled, and why

* **Inside the handler's methods** two threads can meet (both past `stopPlayback()` in `initialize()`, `MediaPlayerHandler.java:98`), and nothing in the code
  prevents it; `PlaybackService` interleaves between methods only, since splitting them multiplies its states past what TLC finishes. All
  its properties and theorems, `ServiceUsesHandler` too, are about methods that do not overlap.
* **Java's memory model**: every access of a thread sees the last write of the others. A thread may in truth see an old value of a field that is neither
  volatile nor locked; so the overlaps that the models find are not all there are. The growth of the download service's `ArrayList` (beyond 12 entries on Android), during
  which an element can be written to an array that is no longer used; what an `Iterator` would notice, since none is used.
* **The Subsonic browser** (`SubsonicConnection`, `ContentSubsonicFragment`) and the shared fields of `SubsonicAPI`: they change what is shown, not what is played. A server that fails between two requests of one command.
* **Files of the application**: playlists, source lists, the scan into the library's table, the art cache. They are input and output.
* **`SeekHandler`, remote control, start modes, `onDestroy`, redelivered intents, `LastFm`, notifications, the user interface.**
* **Native player**: volume, `libinit`, the probing of the platform's version, `audioExit`, the parsing of a WAV header; the pauses of `usleep()` before a write. `flacPlay()` leaves its loop
  when a frame cannot be decoded and less than two seconds are left (`flac/main.c:639`); in the model it may do so, leaving the descriptor open, at any such frame. That nothing waits for what
  the track holds at the end of a play in the mode that Java picks (`LosslessMediaCodecHandler.java:77`, `LIBMEDIA`) is in the model: how much of it is
  heard before the next start is the platform's doing, and no property promises it. Java never picks `CALLBACK`; the library offers it.
* **FLAC**: files of fewer than 8 bits or of no sampling rate, by which the code divides too; tags, `flacDuration`, the ARM assembler of the prediction.
* **WavPack**: the ARM assembler, blocks without sound, a damaged block whose check sum is right by chance, an encoder whose buffer overflows, an encoder's block of four-byte samples at the limit of its levels, getters that nothing calls.
* **Apple Lossless**: samples of 32 bits, which TLC's integers do not hold (they take the path of those of 20 and 24, which is run); tracks of AAC (`read_chunk_esds`), `alac_seek_raw`, which nothing calls, prediction types other than 0, wasted bytes and quantization 0.
* **Monkey's Audio**: the ARM twin of the predictor, the order of the registers in the vector assembler, the checksum, which the code never checks. A symbol past the table in a damaged stream stands for the last; bytes never filled are 0.
* **Musepack**: the arithmetic of single samples in the frames (a sample stays in its bands until the filter; the filter is checked on its own), `max_band` beyond 31, which nothing refuses.
* `include/` (headers of Android), the command-line tools of the decoders, and Android before API 10.
