SPECIFICATION Spec
CONSTANTS
    small = small
    medium = medium
    tiny = tiny
    odd = odd
    null = null
    Buffers <- MCBuffers
    Misaligned <- MCMisaligned
    BufferSize <- MCBufferSize
    REGION_SZ = 4
    BLOCK_SZ = 3
    POINTER_SZ = 1
INVARIANT GrowStaysInBuffer
