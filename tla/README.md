# Smart-Doorbell: TLA+ models and proofs

The repository has two halves that do not call each other:

* its own C++ driver for an ArduCAM OV5642 camera on a Raspberry Pi 4
  (`src/camera`, `src/I2C`, `src/SPI`, `src/GPIO`, `src/timer`, `src/board`, `src/main`), one
  thread that talks to two devices by bit-banging and memory-mapped registers;
* `src/mjpg-streamer`, which grabs pictures from a UVC camera in one thread and hands them to
  HTTP clients, a file writer and others through a shared buffer.

Below, `M/` stands for `src/mjpg-streamer/mjpg-streamer-experimental/`.

## Inventory

| Component | State | Operations | What is hard | What makes it correct |
|---|---|---|---|---|
| Picture store: `global.in[i]` with `cam_thread` (`M/plugins/input_uvc`) and the clients of `M/plugins/output_http/httpd.c` | `db`, `db_update`, `buf`, `size`, `timestamp`; per thread its copies | grab, filter, publish, cleanup; wait, copy, send; stop | condition variable with many waiters, several error paths under the lock, a cleanup without it | whole pictures, in order; every waiter served; the mutex given back |
| File output (`M/plugins/output_file`) | `frame`, `max_frame_size`, counter, the folder | worker loop, `output_cmd` TAKE, `maintain_ringbuffer` | a buffer shared outside the lock, failing allocations and files, restarts | saved pictures are the copied ones; the ring buffer keeps its bound and the newest |
| HTTP server (`httpd.c`) | sockets, one thread per client, a heap record handed from one to the other | `server_thread`, requests, `A_TAKE`, commands | the client record shared between two accepts; one of several steps failing | one thread per accepted descriptor; one answer per request |
| UVC device control (`v4l2uvc.c`) | device, its mapped buffers, `streamingState` | `video_enable/disable`, `setResolution`, `-dv_timings` events, `input_cmd` | a pause flag, and no lock, against the grabbing thread; any step of the reopening may fail | no grab from unmapped buffers; a device that streams is whole |
| HTTP input (`M/plugins/input_http`) | connection, extractor state, its buffer | receive, extract, publish, cleanup | parts cut anywhere over chunks, a buffer of fixed size | what is published is what was sent, in order |
| File input (`M/plugins/input_file`) | folder listing, inotify, the picture's buffer | read, stamp, publish, remove, cleanup | buffers replaced under the lock, ways out of the loop with the lock held | files in turn; no picture half replaced |
| UDP and RTSP outputs (`M/plugins/output_udp`, `output_rtsp`) | its copy of the picture, the datagram | receive, wait, copy, save, reply | waits on the condition variable between two blocking calls | whole pictures; an answer per datagram |
| Start-up and shutdown (`M/mjpg_streamer.c`) | `global`, plugin handles | `main`, `signal_handler` | cancelling threads that hold or wait for `db`; destroying what is in use; unloading code | no thread uses what was destroyed |
| I2C (`src/I2C`, register calls of `src/camera`) | two GPIO latches, a direction | `start`, `stop`, `write`, `read`, `sendNACK`; register read and write | a sensor that refuses or answers at any time between two delays | calls are atomic register accesses; the bus is free after each |
| Camera driver (`src/camera`, `src/SPI`) | chip select, picture buffer | the SPI test of `init`, `singleCapture`, `resetFirmware` | a shield in an unknown state, stale flags, unchecked results | fresh and complete captures; framed commands |
| Camera settings (`src/camera` over I2C) | `format`, the sensor's registers | the rest of `init`, every setter, the register lists | results that nobody looks at, registers shared by settings | the setting called last is in force |
| GPIO, timer, board | registers, saved interrupt masks | pin operations, `noInterrupts`/`interrupts`, delays | read-modify-write, nesting | pins keep their other bits; interrupts come back |
| Other inputs (`input_raspicam`, ...) and outputs (`viewer`, ...) | as the picture store | produce, consume | as the picture store | as the picture store |

`cam_thread` and the clients share memory only under `db`, and are paired by `db_update`. The signal
handler sets `global.stop`, waits, and cancels the threads. HTTP clients call the file plugin
(`A_TAKE`) and the input plugin (`input_cmd`) in their own threads. The camera driver calls the
I2C, SPI and timer drivers, which call GPIO; there is no concurrency but that of the devices.
`PROJECT.json` lists every component, also those not modelled, and the hazards line by line.

## Modules

* `LatestFrame`: what the picture store promises: a register of the latest picture, never
  replaced by an older one, from which a client takes the latest, whole, until it is closed.
* `FrameStore`: the store with `cam_thread`, streaming and snapshot clients and the stop flag. A
  step is what a thread does between two points where others can interfere; reading length,
  timestamp and bytes are three steps, and so are copying, storing the length and storing the
  timestamp. A picture is the number of its capture, and `buf`, `size`, `stamp` each remember the
  capture they were set from, so a mixture of two can be told apart; `Torn` is a half-written
  buffer, `Freed` a freed one. The capture number is also the time. It INSTANCEs `LatestFrame`.
* `FrameStoreProofs`: the theorems about it.
* `SensorPort`: what `wrSensorReg16_8` and `rdSensorReg16_8` promise: a call takes effect at
  most once, between its start and its return, and the return value tells whether.
* `I2CBus`: the same calls as pin operations. The sensor is external: it follows the protocol,
  may refuse any byte, and answers a clock edge at any moment until the end of the next delay.
* `I2CBusProofs`: the theorems about it.
* `CameraDriver`: the bytes and chip select edges that `init`, `singleCapture` and
  `resetFirmware` put on the SPI bus, and the shield that decodes them (external). It starts in
  any state a killed run may leave: chip select low, half a command received, flags set, a
  capture under way. Writing the clear bit is taken to end a capture under way.
* `CameraSettings`: the identification of the chip, the configuration in `init` and every setter, as
  rows of register accesses of which the sensor may refuse any. Of the register lists it has the
  writes to the registers that its properties read and that a setting or another list writes
  differently; windows, timings, clocks and the like that each list sets for itself (0x3801, 0x3810,
  0x3815, 0x3824, 0x471c, 0x471d, 0x3002, 0x380c to 0x380f, 0x5682 and others) are left out. `stands` and `kept`
  remember which settings were taken whole and not undone by a call that is known to undo them.
* `CameraProofs`: the theorems about both sides of class Camera, `CameraDriver` and `CameraSettings`,
  whose states have no name in common.
* `FileOutput`: the file plugin's worker and TAKE commands over the register of `FrameStore`,
  the folder, and restarts of the program. Its buffer consists of cells that remember whose picture
  they hold; the folder is a set of names (time, number) with the order in which they were made.
* `FileOutputProofs`: the theorems about it.
* `PictureRelay`: what the HTTP input promises: it passes on what the server sends, in order,
  until a picture that is too large.
* `MultipartProxy`: the HTTP input, byte by byte. A byte is one of an alphabet that tells apart
  what the extractor's tests tell apart; `recv` returns any part of what was sent, and the server may
  break the connection at any byte. The relay's first "picture" is the text of the server's reply:
  `is_crlf` takes other letters for CR and LF, so the search for the end of the header stops early.
* `MultipartProxyProofs`: the theorems about it.
* `HttpServer`: `server_thread`, the record `pcfd` that it hands over, and the client threads with
  every kind of request and its error answers. An answer is its status, or "frame", or "stream".
  `accept` takes the first connection of the backlog, or fails: because the peer has gone, which
  takes the connection away, or for want of a descriptor or of memory, which leaves it where it is,
  to be reported by the next `select`. The code does not look at the result and starts a thread for
  the descriptor -1, whose `select(0, ...)` only lets five seconds pass before it ends
  (`BadDescriptor`). A fortified build would abort in `FD_SET(-1)`; that is not modelled.
* `HttpServerProofs`: the theorems about it with one listening socket.
* `UvcDevice`: the device, `setResolution` step by step in the threads of clients and, with
  `-dv_timings`, in `cam_thread`, the pause, the grab and the cleanup. A session is one opening of
  the device; buffers, mappings and descriptors remember theirs. The history `mixed` tells whether
  two threads have changed the device at once, or `cam_thread` began to stream on what a failed
  change had left, `disturbed` whether a client has begun a change since `cam_thread` was past its
  test of the pause, and `failed` whether the last change has failed.
* `UvcDeviceProofs`: the theorems about it.
* `SharedPicture`, `FileInput`, `UdpOutput`: one entry of `global.in[]`, a plugin that fills it and
  one that copies it, each with its own state and actions. `FilePipeline` composes them with the
  programs that fill the folder, the clients that send datagrams and the signal. It INSTANCEs
  `LatestFrame`, as `FrameStore` does, with a producer that allocates and frees the buffer for
  each picture.
* `FilePipelineProofs`: the theorems about it.

Modules name their mutated operators for what the mutation does (`CamSignal`, `RelockAlways`,
`busReadSelected`, ...). They stand beside the operator they vary and take no part in the
specification; they are there to see each property fail.

## Runs and bounds

| Run | Shows | Bounds, and why they are enough |
|---|---|---|
| `FrameStore.cfg` | mutual exclusion, whole pictures, order per connection, `-softfps` spacing, refinement of `LatestFrame`; every waiter is served | one client of each kind, so a wake-up has a rival; 4 captures with `-every 2` give two rounds of publishing, the third capture is too small, the frame period is two; spurious wake-ups. After the last capture the camera need not publish again, the worst case for a waiter left behind. More clients and captures are covered by the theorems |
| `I2CBus.cfg` | calls implement `SensorPort`; no byte cut short; contention only under a low clock; bus free between calls | two registers that differ in both bytes and two values, with both values of the last bit |
| `CameraDriver.cfg` | fresh and complete captures; no stray bytes once chip select was raised; the SPI test passes; captures return | pictures of 1 and 6 bytes (all three digits of the length), three captures after one left behind |
| `CameraSettings.cfg` | a setting that was taken whole stays in force; the picture format is kept | four calls, which is `init`, a setting, what undoes it, and one more; two refused accesses; a resolution whose list writes shared registers and one whose list does not; levels on both sides of zero; effects and sharpness types of every form |
| `FileOutput.cfg` | ring bound and newest pictures kept | three pictures left by earlier runs, one restart, three pictures per run; sizes -1, 0, 1, 2 and exceed 0, 2 |
| `FileOutputTorn.cfg` | violation: the saved file is not the copied picture | one TAKE, pictures of two sizes |
| `MultipartProxy.cfg` | the relay is faithful; lengths stay in the buffer; each complete picture is published; the worker leaves after a stop | an empty picture, one that begins like a boundary, the largest that fits and one that does not; a buffer of 9 bytes read in chunks of up to 3, so that boundary and header are cut everywhere; two pictures on each of two connections |
| `HttpServer.cfg` | with one listening socket: a thread per connection, one answer per request and only what the request may have, nothing but a refusal without credentials; a client is served whatever accepts and threads failed before | one accept that leaves its connection waiting, enough to see it retried (the bound `MaxFailures`; the theorems have any), any number of those that find the peer gone; two descriptors and two peers, so that a descriptor is used again and one client is in the server while the other is accepted; one peer asks for anything, the rival for a snapshot; two sets of options |
| `HttpServerTwo.cfg` | violation: with two listening sockets (IPv4 and IPv6) two connections share a record | as above with two sockets |
| `UvcDevice.cfg` | a device that streams is whole; `uvcGrab` copies from mapped into large enough memory; a pause ends if nothing fails | one client and `cam_thread` changing the device, two resolutions, three openings (the first, a change, a change after a failed or overlapping one), any call failing |
| `UvcDeviceCapture.cfg` | violation: a change in which nothing fails ends the capture | two openings, no faults |
| `FilePipeline.cfg` | files served in turn; refinement of `LatestFrame`; a worker that waits gets the picture that is announced | three files of which two are `.jpg`, three first folders (without, with one and with two of these), both modes, with and without `-remove`; three reads, so that the list is gone through and begun again; one file written or removed by others; one datagram |

The three violations are described, with the lines they contradict, under "findings" in
`PROJECT.json`. Deadlock is not checked where the system stops: programs end, crash or exit
in most modules, and bounds on time, calls and openings end the rest.

The models also show other defects, which the properties except by a condition that their comments
name. Two of them contradict a line of the repository. The properties have what the code does:

* `-size 0` is announced as "no ringbuffer" (`output_file.c:485`), but `maintain_ringbuffer` stops
  only at sizes below 0 (line 160): every time it runs it deletes all pictures. `RingBounded` holds of
  the size 0 as of any other, which says just that.
* A `TAKE` without a file name is answered with an error, since nothing is saved, but `ret` stays 0
  and a picture follows on the same connection, where the comment says that if the file "could not be saved
  then we won't transmit the frame" (`httpd.c:1366-1370`). `OneAnswer` lists the two answers.

The others contradict no line:

* `cam_cleanup` frees the buffer while clients copy it (`Open` in `FrameStore`); a capture of
  length 0 is announced with the bytes of the one before.
* `realloc` fails in `output_file` after `max_frame_size` was raised, so later copies go beyond the
  buffer.
* `in->buf` keeps the size of the first resolution: the copy of a picture of a larger one goes beyond
  it (`PublishFits` in `UvcDevice`; `CopiesFit` is about `tmpbuffer` only).
* After an `open` of the device that failed, `vd->fd` is -1 and every later change fails in
  `video_disable`; after any failed change the pause does not end (`failed` in `PauseEnds`).
* A failing `malloc` makes the file input leave its loop with `db` locked; nobody is served again.
* A command that arrives after `cam_cleanup` has taken the context away, and a script asked for
  without `-www`, end the program.
* Every list of a resolution but that of 2048x1536 switches special effects off, because it ends
  with a write to the register that they share; the list of 2048x1536 writes format and
  compression registers that no other list restores.

## Fairness

`FrameStore`: weak fairness of the steps inside a section, since a runnable thread runs; strong
fairness of taking `db` (`CamLock`, and `Lock` or `Relock` of a client), since a pthread mutex that
is free infinitely often is not kept from one thread for ever by a scheduler that time-slices.
Nothing is assumed of connecting, sending, spurious wake-ups, captures, the signal or failing
memory; none of the properties needs it. `FilePipeline`: the same, for its two threads.

`CameraDriver`: the single thread goes on, and a capture that was started is finished by the shield.
`MultipartProxy`: the worker's own steps, and `recv` returns when there is something to return.
`HttpServer`: the server goes on (`Serve`: `select`, an `accept` that finds the connection still
there, the end of the round), and so do the client threads; nothing of peers, who may never send what
they want (the read times out) or leave. `UvcDevice`: the steps of each thread. These are weak,
since nothing in those models waits for a lock. The other modules state safety only.

## Proofs

`FrameStoreProofs` proves, for any clients, options and number of captures, under the one
assumption `FrameStoreAssumption` (the kinds of threads are disjoint, options are naturals):
type correctness, mutual exclusion, whole pictures, order per connection, the spacing of `-softfps`,
and that `FrameStore` implements `LatestFrame`.

None of these is inductive by itself. `IInv` adds what the code relies on silently:

* `LockInv`: `db` names its owner exactly when that thread is inside a section. This carries
  mutual exclusion, and with it that nobody changes the store under a reader.
* `StoreInv`: what `buf`, `size` and `timestamp` hold at each place of `cam_thread`: outside
  the few steps of publishing all three belong to `pub`. `stamp = pub.stamp` at every place is why
  the unlocked test of `-softfps` reads a consistent time.
* `CamInv`: the camera's own picture is never older than the published one, even when an empty
  buffer repeats it; after the filter it is a frame period younger.
* `ReaderInv`: what a client has copied so far belongs to the published picture.
* `OrderInv`: shown <= about to be shown <= published, for bytes and timestamps.

`CamStepInv` and `ClientStepInv` have one case per action; `Invariance` puts them together.
The refinement maps `CamStamp` to a publication, `Copy` to taking (the client holds the latest
picture from its last read on), sending to releasing, `CamFree` to closing, all else to stuttering.

`UvcDeviceProofs` proves, for any clients, resolutions, options and faults, type correctness and
that a device that streams is whole and that `uvcGrab` copies from mapped into large enough
memory (not that `in->buf` is, into which the picture goes next). The code has no lock here, so the invariant says what holds for lack of interference. At
every place of `setResolution` there is a fact about what it has achieved so far (`ChangeInv`), which
holds `~mixed`, that is, until a second thread changes the device during a change (`AloneInv`: only
one is in it); a change that fails leaves the pause (`FailedInv`), `SettledInv` is what it leaves behind when it is over, and `GrabInv` what `cam_thread`
relies on past its test of the pause, until it is `disturbed`. `UsedInv` and `SessionInv` say that
sessions are numbered in the order of opening, which is how a mapping of an older one is told.

`FilePipelineProofs` proves that the file input and the UDP output implement `LatestFrame`, for any
files, folders, modes and failures, and type correctness and the order in which an existing folder
is served. `LockInv` ties `db` to places, as in `FrameStore`, with the exception that matters: the
input may have left with the lock held. `StoreInv` says which picture the buffer holds at each place
of the input, and `TakerInv` what the output has copied. `TurnInv` is about the list of the folder:
it is sorted, and between the file served last and the index only files were passed that the filter
leaves out, so that the next one served is the next in the list.

`HttpServerProofs` proves, for one listening socket and any clients, descriptors, requests and
options, accepts that fail, type correctness and what each client is owed: one thread and no double free, one
answer, which is an error or what it asked for and may have (but for the exceptions that `OneAnswer`
names), and nothing but a refusal without credentials. With two sockets the first is false
(`http_child`), so the assumption is part of each theorem. `RecordInv` is what two sockets break: a
record is fresh until it is handed over, and then one thread's until it has copied and freed it.
`CountInv` bounds the records that are handed over by the clients that have connected and the accepts
that have failed, so that the next one exists. `OpenInv` gives each open descriptor to one live thread, and `PeerInv` each client
to one place of the backlog or one descriptor; with both, what a thread sends is sent to its own
client, and `AnswerInv` says what that client was sent before, at each place of its thread.

`FileOutputProofs` proves, for any sizes, options, clients and number of restarts, type correctness
(with the bound on the shared buffer) and both promises of the ring buffer. `FolderInv` is the heart:
names are given out in increasing order across restarts, so the order of the names is the order in
which pictures were saved, and the next name is new. `RingInv` counts: after tidying up at most
`size` files are left (`Survivors`: of the files with fewer than `size` followers the oldest is
followed by all others), and each picture until the next time adds one (`Spare`, `CountOn`). For
`KeepsMostRecent` the witness is the youngest of the doomed files: none of its followers goes.

`CameraProofs` proves of `CameraDriver`, for pictures of any lengths and any number of captures, type
correctness, `FreshCapture` and `NoStrayByte`. `BusInv` is the shield's protocol: the operations that
are still to be done are well formed (`Framed`), and once the driver has
raised chip select (`raised`) the level of chip select and the shield's command are what the next of
them needs (`Follows`); before, it is still in the first transfer of the SPI test (`Lost`). `PollInv`
follows the request, byte by byte, from cleared to started, so that a flag left by an earlier capture
is gone before it is polled, and once the picture has come no other replaces it (`Taken`).
`LengthInv` says which digits `currentLength` has got, whatever the order of the reads, and
`DrainInv` that `readBuffer` holds as many bytes as the shield has given.

Of `CameraSettings` it proves, for any calls, levels and lists and however many accesses the sensor
refuses, that a setting taken whole stays in force (`SettingsInForce`) and that the picture format is
kept (`FormatKept`). The invariant looks ahead. `LeftInForce` says of a setting that stood when the
call in progress began, and that this call does not undo, that its registers still show it: the
rows of the call go to other registers, or write the same there (`ShowsApart`, `FormatApart`, from
`Reach`, the registers of each row). `WillBeInForce` says that if no access is refused the remaining
ones will bring about what the call wants: a register shows it already and none of them touches it,
or one of them writes it and none after it (`WillHold`); and for a register that is read, changed and
written back, the same of each of these steps (`WillChange`). One lemma for each row of accesses
says what the row writes.

`I2CBusProofs` proves, for any registers, values, address and answers of the sensor, that the pin
operations implement `SensorPort`, that the bus is free between calls, that SDA is contended only
under a low clock and that no byte is cut short. The one assumption says how wide the numbers are
and that the address is even. `Places` says where the bus may be: in `start`, `stop`, `sendNACK`,
`write` or `read`, with some of its operations done and those of the functions after it to come
(`Within`); and at each of these places what the lines are and how far the sensor has got
(`Starting`, `Stopping`, `Declining`, `Sending`, `Acknowledging`, `Fetching`). While a byte is sent
the sensor has its first bits (`Got`), and while one is fetched `data` has them; a byte that arrived
whole was acknowledged or refused (`Acked`, `Refused`), and the number of the register is complete
after its second byte (`RegAfter`). An answer of the sensor is due only while the clock is low, which
is what the delays are for. There is a lemma for what each kind of pin operation does to the lines
and the sensor, for the operations that each function consists of, and for each place whose next
operation or answer leads to another. In the refinement the answer that acknowledges the value byte
is the write, and the end of the fetch the read; everything between the begin and the return of a
call but these stutters.

`MultipartProxyProofs` proves, for any pictures, any sizes of the two buffers, any chunks and any
number of connections, that the extractor never writes past its buffer (`TypeOK`), that what is
published has a length within it, and that the HTTP input implements `PictureRelay`. The extractor
knows a byte at a time and the server writes whole pictures, so the invariant has to say what those
bytes are. `Item` names the pieces of the stream: the reply, then for each picture the line break
left by the boundary before it, its header, its bytes and its own boundary. `Laid` says that the
bytes still to be looked at, in `netbuffer` and on the wire, are the items from the one that is next,
laid end to end; `cut` gives the place where each begins, relative to the next byte, so that taking a
byte moves all of them by one and sending a picture adds one at the end, and nothing has to be
computed by recursion over the stream. A broken connection may have lost a part of the end.
`Follows` says where in its item the extractor is: in the preamble, with its last four bytes, or in
the content, with that much of it in the buffer and as much of the boundary matched as the buffer
ends with. Three facts about the extractor carry it. The header is taken to end exactly where the
preamble does, although `is_crlf` also takes "OK" for a line break (`HeaderEnds`). The matcher, which
does not go back when it fails, passes the boundary exactly at the end of the content
(`BoundaryPasses`). Then the buffer without the boundary and the line break before it is the picture
(`LastStep`). None of that is promised once a picture that is too large has filled the buffer
(`Stuck`): the code then drops every byte until the connection ends, and so does the promise of
`PictureRelay`.

The two properties about what is published assume that no picture contains the boundary
(`BoundaryAssumption`). A multipart stream takes that for granted, and neither the server nor the
extractor checks it; a picture that contains it would be cut there. `TypeOK` does not need it.

Only model-checked: what must eventually happen (`EveryWaiterServed`, `TestPasses`, `CaptureReturns`,
`PicturePublished`, `WorkerLeaves`, `Served`, `PauseEnds`, `RequestAnswered`), since liveness under
fairness is beyond the prover. Every invariant, action property and refinement that a passing run
checks is proved.

## What is left out, and assumptions

* The pixels, formats, HTTP texts and log output; compression and the insertion of Huffman tables
  (`memcpy_picture`) only say that the stored bytes are those of the capture. A picture in which no
  frame header is found is stored with length 0: an empty picture of its capture.
* Timestamps come from the driver in capture order. With `-timestamp` they are wall-clock times,
  and a clock that is set back is not covered.
* `UvcDevice` leaves out the camera's controls (`v4l2SetControl` and their enumeration) and the
  JPEG quality: they go to the driver and change no state of the threads. What the store does with a
  grabbed picture is in `FrameStore`, which leaves out the device; the two meet in `cam_thread`.
* `HttpServer` leaves out how a request line is parsed (a request has its kind), and the build
  options MANAGMENT and WXP_COMPAT, which are off.
* What `signal_handler` does after cancelling the threads: it destroys mutexes and condition
  variables that threads may be using, and unloads their code. POSIX gives that no outcome to model,
  and `exit(0)` follows. In the models threads are cancelled at their cancellation points.
* In `FileOutput` the local time never goes back and a restart takes at least a second: the names
  are sorted by time, and the code itself warns that it may delete the wrong files if the time is
  not valid. The linked name and the user's command are left out.
* In `MultipartProxy` the boundary does not occur in a picture (see Proofs).
* In `CameraDriver` what `init` does over I2C is one step (`CameraSettings` has it); pictures fit in
  `readBuffer` (the code does not check that).
* The register arithmetic of `src/GPIO` and `noInterrupts`/`interrupts`, which nothing calls; the time
  source of the delays, which are taken to be long enough for the sensor; `boardInit` and the command
  line, which run once from top to bottom.
* `ov5642_regs.h` is data: writes that no other list or setting contradicts, and the lists that
  nothing uses (RAW, 720P, 1080P), show in no property.
* The raspicam input and the vendored MMAL code, the inputs testpicture, control, opencv and ptp2,
  and the outputs viewer, autofocus and zmqserver: alternatives to what the doorbell uses, most of
  them driven by libraries that are not in the repository. The outputs repeat the waiting loop of
  `UdpOutput`.

Most of the repository's lines are vendored code, register tables and pictures stored as C arrays;
the map covers the program's own logic and little of that.

## Plan

Done: the store, the file plugins, the HTTP server and proxy, the UVC device, the UDP output, the
bus, the camera driver and its settings. What would add to them, in this order:

1. `Raspicam`: the encoder's callback as a producer for `LatestFrame`; it keeps the mutex from one
   callback to the next while a picture comes in pieces.
2. `Gpio`: the register arithmetic of the pin operations against a reference definition.
