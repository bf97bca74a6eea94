\* One AGP drm_addmap_ioctl request, every offset and size: a request whose
\* end passes the top of the address space is accepted outside every bound
\* block.
CONSTANTS
    AddrBits = 8
    SizeBits = 4
    PageSize = 4
    AgpBase = 128
    AperBytes = 64
    Memories <- MCMemories
SPECIFICATION Spec
INVARIANT AgpMapInBoundBlock
