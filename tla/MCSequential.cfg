\* Buffers of three samples, blocks of up to three slices, names of up to four
\* characters, torrents of up to three files and four pieces.  A function that
\* has returned does nothing more.
CONSTANTS
    Capacity = 3
    Values = {1, 2}
    MaxAdds = 8
    MaxSlices = 3
    MaxSize = 3
    EntropyLimit = 1
    Other = Other
    Root = Root
    MaxLength = 4
    PieceLength = 3
    MaxFiles = 3
    MaxFileSize = 4
SPECIFICATION AllSpec
INVARIANTS
    SeriesIsWindow
    TransferExact
    
    SequentialIsPlayable
CHECK_DEADLOCK FALSE
