------------------------------ MODULE MapFile ------------------------------
(***************************************************************************)
(* A map from the editor's drawing to the server and the client.  The map  *)
(* maker writes a drawing into a file of sections; the server and the      *)
(* client each read the files of their own directory, and know a map by    *)
(* the hash that its file begins with.  A room names its map by the hash   *)
(* in the host's file, and the server plays on what it has under it.       *)
(*                                                                         *)
(* A file is the sequence of its 16-bit words: every field is one or two   *)
(* of them.  SHA-256 is taken to tell apart whatever differs, so a hash is *)
(* the checksum it is made from, as one word.                              *)
(***************************************************************************)
EXTENDS Integers, SequencesExt

CONSTANT Drawings  \* pairs of what the server's and the client's file show

-----------------------------------------------------------------------------
(* The editor. *)

(* tileHandler: the id and the height of a tile. *)
TileInfo == [ground |-> <<101, 1>>, hill |-> <<201, 3>>, runway |-> <<301, 2>>,
             water |-> <<401, 0>>]

(* cellBounds, after CompressBounds. *)
Bounds(places) ==
    [xMin |-> Min({p[1] : p \in places}), yMin |-> Min({p[2] : p \in places}),
     width |-> Max({p[1] : p \in places}) - Min({p[1] : p \in places}) + 1,
     height |-> Max({p[2] : p \in places}) - Min({p[2] : p \in places}) + 1]

Rectangle(b) ==
    (b.xMin .. (b.xMin + b.width - 1)) \X (b.yMin .. (b.yMin + b.height - 1))

(* Coordinates that keep their value as short. *)
Shorts == ((-(2^15)) .. (2^15 - 1)) \X ((-(2^15)) .. (2^15 - 1))

(* A drawing: the tile at each place of a rectangle, where there are       *)
(* minerals and player start points, and the number of players typed in,   *)
(* which nothing compares with the start points.                           *)
IsDrawing(d) ==
    /\ DOMAIN d.tiles # {} /\ DOMAIN d.tiles \subseteq Shorts
    /\ DOMAIN d.tiles = Rectangle(Bounds(DOMAIN d.tiles))
    /\ \A p \in DOMAIN d.tiles : d.tiles[p] \in DOMAIN TileInfo
    /\ \A points \in {d.minerals, d.starts} : points # {} /\ points \subseteq Shorts
    /\ d.players \in Nat

ASSUME DrawingsAssumption == \A pair \in Drawings : IsDrawing(pair[1]) /\ IsDrawing(pair[2])

VARIABLES drawing,   \* "server" and "client" -> the drawing of its file
          index,     \* "server" and "client" -> how far it has read it
          mapData,   \* what the server has made of it: MapSectionData
          sections,  \* mapSectionData of the client: section -> its words
          shown,     \* Tilemap of the client: place -> tile
          map        \* Room.mapSectionData, NoMap before the game starts

fileVars == <<drawing, index, mapData, sections, shown, map>>

NoMap == [none |-> TRUE]
Null == [null |-> TRUE]

-----------------------------------------------------------------------------
(* The file. *)

Word(n) == n % 2^16
Short(w) == IF w < 2^15 THEN w ELSE w - 2^16
Int32(n) == <<n % 2^16, n \div 2^16>>
ToInt32(words, i) == words[i] + 2^16 * words[i + 1]

(* Fault: the loops over x and y are swapped. *)
ColumnByColumn(b) ==
    [i \in 1..(b.width * b.height) |->
        <<b.xMin + ((i - 1) \div b.height), b.yMin + ((i - 1) % b.height)>>]

(* The places of a rectangle, row by row. *)
RowByRow(b) ==
    [i \in 1..(b.width * b.height) |->
        <<b.xMin + ((i - 1) % b.width), b.yMin + ((i - 1) \div b.width)>>]

(* Records of n words, one after the other. *)
Flat(records, n) ==
    [i \in 1..(n * Len(records)) |-> records[(i - 1) \div n + 1][((i - 1) % n) + 1]]

TileMapDatas(d) ==
    LET places == RowByRow(Bounds(DOMAIN d.tiles))
    IN  Flat([i \in 1..Len(places) |-> TileInfo[d.tiles[places[i]]]], 2)

(* The places of some of the points, in the order of the rows. *)
Points(d, which) ==
    LET places == RowByRow(Bounds(d.minerals \cup d.starts))
        found[i \in Nat] == IF i = 0 THEN <<>>
                            ELSE IF places[i] \in which THEN Append(found[i - 1], places[i])
                            ELSE found[i - 1]
    IN  found[Len(places)]

Minerals(d) ==
    LET places == Points(d, d.minerals)
    IN  Flat([i \in 1..Len(places) |-> <<0, Word(places[i][1]), Word(places[i][2])>>], 3)

StartPoints(d) ==
    LET places == Points(d, d.starts)
    IN  Flat([i \in 1..Len(places) |-> <<Word(places[i][1]), Word(places[i][2])>>], 2)

(* MakeChecksum: without the size. *)
Checksum(d) == TileMapDatas(d) \o Minerals(d) \o StartPoints(d)

HASH == 0
OWNR == 1
SIZE == 2
MTXM == 3
RESO == 4
SPOS == 5

Section(code, words) == <<code>> \o Int32(2 * Len(words)) \o words

Scale == 2

WriteMapFile(d) ==
    LET b == Bounds(DOMAIN d.tiles)
    IN  Section(HASH, <<Checksum(d)>>)
        \o Section(OWNR, <<d.players>>)
        \o Section(SIZE, Int32(b.width) \o Int32(b.height) \o <<Scale>>)
        \o Section(MTXM, TileMapDatas(d))
        \o Section(RESO, Minerals(d))
        \o Section(SPOS, StartPoints(d))

File == [who \in {"server", "client"} |-> WriteMapFile(drawing[who])]

-----------------------------------------------------------------------------
(* The server. *)

NoData == [playerCount |-> 0, mapWidth |-> 0, mapHeight |-> 0, scale |-> 0,
           tiles |-> <<>>, height |-> <<>>, resources |-> <<>>, playerPos |-> <<>>]

(* ParsingMapData.  The scale is read as four bytes, of which the section  *)
(* has two: those land in it, and the two from beyond in its padding.      *)
ParsingMapData(code, words, out) ==
    CASE code = OWNR -> [out EXCEPT !.playerCount = words[1]]
      [] code = SIZE -> [out EXCEPT !.mapWidth = ToInt32(words, 1),
                                    !.mapHeight = ToInt32(words, 3),
                                    !.scale = words[5]]
      [] code = MTXM ->
            LET count == Len(words) \div 2
            IN  [out EXCEPT !.tiles = [i \in 1..count |-> words[2 * i - 1]],
                            !.height = [i \in 1..count |-> words[2 * i]]]
      [] code = RESO ->
            [out EXCEPT !.resources =
                [i \in 1..(Len(words) \div 3) |->
                    <<words[3 * i - 2], Short(words[3 * i - 1]), Short(words[3 * i])>>]]
      [] code = SPOS ->
            [out EXCEPT !.playerPos =
                [i \in 1..(Len(words) \div 2) |->
                    <<Short(words[2 * i - 1]), Short(words[2 * i])>>]]
      [] OTHER -> out

(* The section that begins after the first i words. *)
CodeAt(file, i) == file[i + 1]
WordsAt(file, i) == SubSeq(file, i + 4, i + 3 + ToInt32(file, i + 2) \div 2)
After(file, i) == i + 3 + ToInt32(file, i + 2) \div 2

More(who) == index[who] < Len(File[who])

(* One turn of the loop of SetHashToMap; its first part takes the hash. *)
ServerReads ==
    /\ More("server")
    /\ LET file == File["server"]
           i == index["server"]
       IN  /\ mapData' = ParsingMapData(CodeAt(file, i), WordsAt(file, i), mapData)
           /\ index' = [index EXCEPT !["server"] = After(file, i)]
    /\ UNCHANGED <<drawing, sections, shown, map>>

-----------------------------------------------------------------------------
(* The client. *)

(* One turn of the loop of ExtractionMapSection. *)
ClientReads ==
    /\ More("client") /\ map \notin {NoMap, Null}
    /\ LET file == File["client"]
           i == index["client"]
       IN  /\ sections' = [c \in DOMAIN sections \cup {CodeAt(file, i)} |->
                              IF c = CodeAt(file, i) THEN WordsAt(file, i) ELSE sections[c]]
           /\ index' = [index EXCEPT !["client"] = After(file, i)]
    /\ UNCHANGED <<drawing, mapData, shown, map>>

(* MapManager.BuildTileMap. *)
BuildTileMap ==
    /\ ~More("client") /\ shown = <<>>
    /\ LET width == ToInt32(sections[SIZE], 1)
           height == ToInt32(sections[SIZE], 3)
       IN  shown' = [p \in (0..(width - 1)) \X (0..(height - 1)) |->
                        sections[MTXM][2 * (p[1] + width * p[2]) + 1]]
    /\ UNCHANGED <<drawing, index, mapData, sections, map>>

-----------------------------------------------------------------------------
HashOf(who) == WordsAt(File[who], 0)

(* The host's client names the map by its own file's hash, which joining   *)
(* clients must have too.  hashToMap has it under the server's; with no    *)
(* map the start dereferences null.                                        *)
StartOnMap ==
    /\ ~More("server") /\ map = NoMap
    /\ map' = IF HashOf("client") = HashOf("server") THEN mapData ELSE Null
    /\ UNCHANGED <<drawing, index, mapData, sections, shown>>

FileInit ==
    /\ \E pair \in Drawings : drawing = [server |-> pair[1], client |-> pair[2]]
    /\ index = [server |-> 0, client |-> 0]
    /\ mapData = NoData /\ sections = <<>> /\ shown = <<>> /\ map = NoMap

FileNext == ServerReads \/ StartOnMap \/ ClientReads \/ BuildTileMap

-----------------------------------------------------------------------------
(* Properties. *)

Corner(d) == LET b == Bounds(DOMAIN d.tiles) IN <<b.xMin, b.yMin>>

(* When all is read the server has the map that was drawn: at each place,  *)
(* counted from the lower left corner of the tiles, the height of the tile *)
(* drawn there, and the start points where they were drawn.  Only those of *)
(* a drawing whose corner is the origin are on the tile they were drawn on.*)
LoadedAsDrawn ==
    ~More("server") =>
        LET d == drawing["server"]
            b == Bounds(DOMAIN d.tiles)
        IN  /\ mapData.mapWidth = b.width /\ mapData.mapHeight = b.height
            /\ mapData.scale = Scale
            /\ \A p \in DOMAIN d.tiles :
                  mapData.height[p[1] - b.xMin + mapData.mapWidth * (p[2] - b.yMin) + 1]
                      = TileInfo[d.tiles[p]][2]
            /\ Range(mapData.playerPos) = d.starts
            /\ mapData.playerCount = d.players
=============================================================================
